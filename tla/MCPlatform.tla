----------------------------- MODULE MCPlatform -----------------------------
(* Two players, one of whom the users table does not know any more; two    *)
(* requests at a time; a legacy export of three entries, one without an id. *)
EXTENDS Platform

CONSTANTS alice, bob, w1, w2, g, a1, a2, b1, b2

MCUserName == [u \in Users |-> "b"]

(* A patch that names a column and clears another; UpdateBackground sets   *)
(* that one and leaves the name alone.                                     *)
MCPatchInputs == {[username |-> "a", bg |-> ""]}

(* An explicit zero in the export is kept.                                 *)
Imported(name, beta, created) == [username |-> name, bg |-> "a", online |-> FALSE,
                                  beta |-> beta, created |-> created]

MCLegacy == << [user |-> alice, row |-> Imported("a", TRUE, 0)],
               [user |-> None,  row |-> Imported("a", FALSE, 1)],
               [user |-> bob,   row |-> Imported("", FALSE, 1)] >>

MCLegacyPreferences == [mode |-> "maintenance", calling |-> TRUE]

MCRefreshes == {-1, 0, 5}

(* Two forks over one first block.                                         *)
MCParent == (g :> None) @@ (a1 :> g) @@ (a2 :> a1) @@ (b1 :> g) @@ (b2 :> b1)
MCNumber == (g :> 0) @@ (a1 :> 1) @@ (a2 :> 2) @@ (b1 :> 1) @@ (b2 :> 2)

(* A spend of two notes, one that names a note twice and whose sum wraps   *)
(* around, and one of the other player.                                    *)
MCSpends == { [wallet |-> alice, amount |-> 20, fee |-> 4, notes |-> <<"note-01", "note-02">>],
              [wallet |-> alice, amount |-> 60, fee |-> 9, notes |-> <<"note-03", "note-03">>],
              [wallet |-> bob,   amount |-> 5,  fee |-> 0, notes |-> <<"note-01">>] }

By(factor)    == [factor |-> factor, blank |-> FALSE]
Blank(factor) == [factor |-> factor, blank |-> TRUE]

MCApprovals == { <<By("device"), By("passkey")>>, <<By("device"), By("device")>>,
                 <<By("device"), By("unknown"), By("guardian")>>,
                 <<Blank("passkey"), By("passkey"), By("device")>> }

MCSymmetry == Permutations(Workers)
=============================================================================
