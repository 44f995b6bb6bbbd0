------------------------------- MODULE Wallet -------------------------------
(***************************************************************************)
(* The wallet service of the API process.  Its transactions and the notes  *)
(* they spend are kept in memory under one mutex; payloads and envelopes   *)
(* are in the hands of the players, who build, sign and submit in requests *)
(* of their own, and may do so again or leave a step out: no request looks *)
(* for what an earlier one did.  A proof takes a verified range of headers *)
(* and the guard's approval, and is the work of one request.               *)
(*                                                                         *)
(* A player has one wallet, named like the player: every handler refuses   *)
(* another one.  A payload is identified by its hash, so by what it says.  *)
(* Blank names, which every operation refuses, are left out.               *)
(***************************************************************************)
EXTENDS LightClient

CONSTANTS
    Spends,      \* the spends players ask for
    Approvals,   \* the lists of assertions players send
    Factors,     \* the factors the guard has a verifier for
    Threshold,   \* how many of them must approve
    NoteValue,   \* what the service takes an input note to be worth
    Width,       \* bits of an amount
    MaxProofs    \* bound of the proofs worked on at once

FixtureNotes == << [note |-> "note-01", status |-> "unspent"],
                   [note |-> "note-02", status |-> "pending"],
                   [note |-> "note-03", status |-> "spent"] >>

Notes   == {FixtureNotes[i].note : i \in DOMAIN FixtureNotes}
Amounts == 0 .. 2^Width - 1
Spend   == [wallet : Users, amount : Amounts, fee : Amounts, notes : Seq(Notes)]

(* An assertion is a factor and whether its payload is blank.              *)
Assertion == [factor : STRING, blank : BOOLEAN]

ASSUME WalletAssumption ==
    /\ Spends \subseteq Spend /\ Approvals \subseteq Seq(Assertion)
    /\ Threshold \in Nat \ {0} /\ NoteValue \in Nat /\ Width \in Nat
    /\ None \notin {"bare", "signed"}

VARIABLES
    transactions,   \* payload -> how it was submitted last, or None
    spentNotes,     \* wallet -> notes marked spent
    signed,         \* envelopes the service has made, with what approved them
    proving         \* the proof request each worker answers, or None

spendVars  == <<transactions, spentNotes, signed>>
proofVars  == <<lightClientVars, proving>>
walletVars == <<spendVars, proofVars>>

Envelope == [spend : Spends, approval : Approvals]

ProverModes  == {"local", "delegated", "auto"}
ProofRequest == [spend : Spends, approval : Approvals, mode : ProverModes,
                 paired : BOOLEAN, by : {"none", "local", "delegated"}]

WalletTypeOK ==
    /\ LightClientTypeOK
    /\ transactions \in [Spends -> {None, "bare", "signed"}]
    /\ spentNotes \in [Users -> SUBSET Notes]
    /\ signed \subseteq Envelope
    /\ proving \in [Workers -> ProofRequest \cup {None}]

WalletInit ==
    /\ LightClientInit
    /\ transactions = [p \in Spends |-> None]
    /\ spentNotes = [u \in Users |-> {}]
    /\ signed = {}
    /\ proving = [w \in Workers |-> None]

-----------------------------------------------------------------------------
(* Mutant of approved: each assertion counts, also of one factor.          *)
CountEach(approval) ==
    Cardinality({i \in DOMAIN approval : /\ approval[i].factor \in Factors
                                         /\ ~approval[i].blank})

(* approval counts the factors whose first assertion their verifier takes. *)
approved(approval) ==
    Cardinality({i \in DOMAIN approval :
        /\ approval[i].factor \in Factors /\ ~approval[i].blank
        /\ \A j \in 1..i-1 : approval[j].factor # approval[i].factor})

Authorize(p, approval) == p.amount # 0 /\ approved(approval) >= Threshold

-----------------------------------------------------------------------------
(* Spending                                                                *)

(* The sum of amount and fee wraps around.                                 *)
TotalOutflow(p) == (p.amount + p.fee) % 2^Width

(* The payload is answered, and nothing kept of it.                        *)
BuildSpendTransaction(p) ==
    /\ p.amount # 0 /\ p.notes # <<>>
    /\ Len(p.notes) * NoteValue >= TotalOutflow(p)

(* The payload need not be one that was built.                             *)
SignTransaction(p, approval) ==
    /\ Authorize(p, approval)
    /\ signed' = signed \cup {[spend |-> p, approval |-> approval]}
    /\ UNCHANGED <<transactions, spentNotes>>

(* Mutant of Consumed: the wallet's marks are made anew.                   *)
OnlyTheseNotes(p) == ToSet(p.notes)

Consumed(p) == spentNotes[p.wallet] \cup ToSet(p.notes)

Store(p, how) ==
    /\ transactions' = [transactions EXCEPT ![p] = how]
    /\ spentNotes' = [spentNotes EXCEPT ![p.wallet] = Consumed(p)]
    /\ UNCHANGED signed

(* A payload is taken as it is, or in an envelope with the wallet's name   *)
(* and any signature: it is kept, not verified.  The same payload again    *)
(* replaces the transaction, and nothing asks whether its notes are spent. *)
SubmitTransaction(p) == Store(p, "bare") \/ Store(p, "signed")

(* The process starts again: players keep their envelopes, the service     *)
(* forgets the transactions and the marks.                                 *)
RestartWallet ==
    /\ transactions' = [p \in Spends |-> None]
    /\ spentNotes' = [u \in Users |-> {}]
    /\ UNCHANGED signed

SpendingNext ==
    \/ \E p \in Spends : \/ SubmitTransaction(p)
                         \/ \E a \in Approvals : SignTransaction(p, a)
    \/ RestartWallet

(* The notes of the fixture with their marks, as many as the limit allows; *)
(* the limit of those that give none is beyond the fixture.                *)
ScanNotes(u, includeSpent, limit) ==
    LET Status(n) == IF n.note \in spentNotes[u] THEN "spent" ELSE n.status
        shown == {i \in DOMAIN FixtureNotes :
                     includeSpent \/ Status(FixtureNotes[i]) # "spent"}
        first == {i \in shown : limit <= 0 \/ Cardinality({j \in shown : j < i}) < limit}
    IN  {[FixtureNotes[i] EXCEPT !.status = Status(FixtureNotes[i])] : i \in first}

GetTransactionStatus(u, p) == IF p.wallet = u THEN transactions[p] ELSE None

-----------------------------------------------------------------------------
(* Proving                                                                 *)

(* The request names the wallet's spend, the range it relies on, what      *)
(* approves it and the prover it wants.                                    *)
VerifyAuthorizeAndProve(w, p, start, end) ==
    /\ proving[w] = None
    /\ Cardinality({v \in Workers : proving[v] # None}) < MaxProofs
    /\ FetchRange(w, start, end)
    /\ \E a \in Approvals, m \in ProverModes, d \in BOOLEAN :
          proving' = [proving EXCEPT ![w] =
              [spend |-> p, approval |-> a, mode |-> m, paired |-> d, by |-> "none"]]
    /\ UNCHANGED head

(* The calls of the range; a refused range ends the request.               *)
VerifyRange(w) ==
    /\ proving[w] # None
    /\ HeaderByNumber(w) \/ HeaderMissing(w) \/ AcceptRange(w) \/ RefuseRange(w)
    /\ proving' = [proving EXCEPT ![w] = IF fetching'[w] = None THEN None ELSE @]
    /\ UNCHANGED head

(* The provers a request may use: the paired device needs an id, and auto  *)
(* falls back on it when the local prover fails.                           *)
Provers(r) == {m \in {"local", "delegated"} : /\ r.mode \in {m, "auto"}
                                              /\ m = "delegated" => r.paired}

GenerateProof(w) ==
    /\ proving[w] # None /\ fetching[w].verified /\ proving[w].by = "none"
    /\ Authorize(proving[w].spend, proving[w].approval)
    /\ \E m \in Provers(proving[w]) : proving' = [proving EXCEPT ![w].by = m]
    /\ UNCHANGED <<head, fetching>>

(* The answer, be it the proof or an error: not authorised, no prover, or  *)
(* one that failed.                                                        *)
EndProof(w) ==
    /\ proving[w] # None /\ fetching[w].verified
    /\ proving' = [proving EXCEPT ![w] = None]
    /\ fetching' = [fetching EXCEPT ![w] = None]
    /\ UNCHANGED head

ProvingNext ==
    \/ \E w \in Workers :
          \/ \E p \in Spends, i \in Numbers, j \in Numbers : VerifyAuthorizeAndProve(w, p, i, j)
          \/ VerifyRange(w) \/ GenerateProof(w) \/ EndProof(w)
    \/ \E b \in Blocks : Reorganise(b) /\ UNCHANGED proving

WalletSpec ==
    /\ WalletInit
    /\ [][\/ SpendingNext /\ UNCHANGED proofVars
          \/ ProvingNext /\ UNCHANGED spendVars]_walletVars

-----------------------------------------------------------------------------
(* The notes a wallet's stored transactions spend are those marked spent,  *)
(* and no scan, however limited, offers one of them: submissions, repeated *)
(* ones and a restart keep the two maps of the service alike.              *)
MarksFollowTransactions ==
    \A u \in Users :
        LET consumed == UNION {ToSet(p.notes) : p \in {q \in Spends :
                                   GetTransactionStatus(u, q) # None}} IN
        /\ spentNotes[u] = consumed
        /\ \A note \in consumed, all \in BOOLEAN, limit \in 0..2 :
               \A n \in ScanNotes(u, all, limit) :
                   n.note = note => all /\ n.status = "spent"

(* The service signs and proves nothing on the word of fewer distinct      *)
(* factors than the threshold, however an approval repeats them; and a     *)
(* proof made away from the process is made by a paired device.  What is   *)
(* stored with a signature need not be signed by the service.              *)
Approvers(approval) ==
    {approval[i].factor : i \in {j \in DOMAIN approval : ~approval[j].blank}} \cap Factors

EnoughApprove ==
    /\ \A e \in signed : Cardinality(Approvers(e.approval)) >= Threshold
    /\ \A w \in Workers : proving[w] # None /\ proving[w].by # "none" =>
           /\ Cardinality(Approvers(proving[w].approval)) >= Threshold
           /\ proving[w].by = "delegated" => proving[w].paired

(* What o2ul_wallet_service.go:198 refuses to build for, "insufficient     *)
(* note input budget for amount+fee": false where the sum wraps around,    *)
(* see MCWalletBudget.cfg.                                                 *)
BuiltWithinBudget ==
    \A p \in Spends : BuildSpendTransaction(p) =>
        p.amount + p.fee <= Len(p.notes) * NoteValue
=============================================================================
