---------------------------- MODULE DocumentStore ----------------------------
(***************************************************************************)
(* What ingestion promises to searches: each document is held whole or not *)
(* at all, in one generation at a time, and a new generation takes the     *)
(* place of the old one in one step.  Only a removal may be seen half done.*)
(* Ingestion implements this specification over three stores.              *)
(***************************************************************************)
CONSTANTS
    Docs,       \* document identifiers
    Revs,       \* revisions
    Sigs,       \* index signatures
    Absent      \* a document nothing can be served of

Generation == [rev : Revs, sig : Sigs, state : {"whole", "removing"}]

VARIABLES
    content,    \* what is held of each document
    config      \* signature of the running configuration

Init ==
    /\ content = [d \in Docs |-> Absent]
    /\ config \in Sigs

\* An upload takes effect.  The generation already held is not indexed again.
Put(d, r) ==
    /\ content[d] = Absent \/ content[d].rev # r \/ content[d].sig # config
    /\ content' = [content EXCEPT ![d] = [rev |-> r, sig |-> config, state |-> "whole"]]
    /\ UNCHANGED config

\* A removal begins to be visible; it need not end.
StartRemove(d) ==
    /\ content[d] # Absent
    /\ content' = [content EXCEPT ![d] = [@ EXCEPT !.state = "removing"]]
    /\ UNCHANGED config

FinishRemove(d) ==
    /\ content[d] # Absent /\ content[d].state = "removing"
    /\ content' = [content EXCEPT ![d] = Absent]
    /\ UNCHANGED config

\* The service is started again, perhaps under another configuration.
Reconfigure ==
    /\ config' \in Sigs
    /\ UNCHANGED content

Next ==
    \/ \E d \in Docs :
          \/ \E r \in Revs : Put(d, r)
          \/ StartRemove(d) \/ FinishRemove(d)
    \/ Reconfigure

Spec == Init /\ [][Next]_<<content, config>>

=============================================================================
