----------------------------- MODULE MCSharing -----------------------------
(***************************************************************************)
(* Small instances of Sharing for TLC.  A configuration picks the handlers *)
(* that run (Ops), so that each run asks one question.                     *)
(***************************************************************************)
EXTENDS Sharing, TLC

MemberOps == {"upsertList", "deleteList", "createInvitation", "revokeInvitation",
              "acceptInvitation", "changeAccess", "revokeShare", "leaveList"}

ItemOps == {"upsertList", "createInvitation", "acceptInvitation",
            "revokeShare", "addItem", "patchItem", "deleteItem"}

TimedOps == (MemberOps \ {"changeAccess"}) \cup {"addItem", "deleteItem"}

\* Ids are interchangeable, and so are request slots.
Symmetry == Permutations(Owners) \cup Permutations(Reqs) \cup Permutations(Tokens)
            \cup Permutations(Fields) \cup Permutations(Items) \cup Permutations(Lists)
=============================================================================
