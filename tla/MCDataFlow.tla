----------------------------- MODULE MCDataFlow -----------------------------
(* A small instance of DataFlow: two nodes and one resource of each sort. *)
EXTENDS DataFlow

TwoNodes == {"a", "b"}

ImagesOfTwo == [a |-> [crypto |-> {"eth"}, consensus |-> {"overlord"}],
                b |-> [crypto |-> {}, consensus |-> {"raft"}]]

\* The chain of b does not grow until its data is replaced.
Heights == [a |-> 2, b |-> 3]

Ask(kind, node) ==
  [kind |-> kind, node |-> node, action |-> "", backup |-> "", snapshot |-> "",
   claim |-> NoClaim, path |-> <<>>, pack |-> FALSE, file |-> "", height |-> 0,
   clear |-> FALSE, uid |-> 0, md5 |-> FALSE]

Backend == <<"pvc", "backend">>

AllSpecs ==
  [backup    |-> Ask("Backup", "a"),
   restore   |-> [Ask("Restore", "a") EXCEPT !.backup = "backup", !.clear = TRUE],
   move      |-> [Ask("Restore", "b") EXCEPT !.backup = "backup"],
   snapshot  |-> [Ask("Snapshot", "a") EXCEPT !.height = 1],
   rebuild   |-> [Ask("Restore", "b") EXCEPT !.snapshot = "snapshot", !.clear = TRUE],
   fallback  |-> [Ask("Fallback", "a") EXCEPT !.height = 1, !.clear = TRUE],
   duplicate |-> [Ask("Duplicate", "a") EXCEPT !.claim = Backend,
                                               !.path = <<"saved", "a">>],
   recover   |-> [Ask("Recover", "a") EXCEPT !.claim = Backend,
                                             !.path = <<"saved", "a">>],
   pack      |-> [Ask("Duplicate", "a") EXCEPT !.claim = Backend, !.pack = TRUE,
                                               !.path = <<"saved", "a">>],
   packB     |-> [Ask("Duplicate", "b") EXCEPT !.claim = Backend, !.pack = TRUE,
                     !.path = <<"saved", "a">>, !.file = "pack"],
   check     |-> [Ask("Recover", "a") EXCEPT !.claim = Backend, !.pack = TRUE,
                     !.path = <<"saved", "a">>, !.file = "pack", !.md5 = TRUE],
   inside    |-> [Ask("Duplicate", "a") EXCEPT !.claim = ChainClaim,
                                               !.path = <<"all", "saved">>],
   owner     |-> Ask("ChangeOwner", "a")]

AllCRs == DOMAIN AllSpecs

Copies == [c \in AllCRs |-> CASE c = "recover" -> "duplicate"
                              [] c = "check"   -> "pack"
                              [] OTHER         -> ""]

\* The users of this instance see to what the theorems of DataFlow_proofs ask of them.
ASSUME UsersAssumption == Elsewhere /\ Separate /\ SameCopy /\ OneNode
=============================================================================
