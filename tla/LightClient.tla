---------------------------- MODULE LightClient ----------------------------
(***************************************************************************)
(* The light client of the wallet: it asks a chain node for the headers of *)
(* a range, one call per number, and accepts the range if each header      *)
(* names the one before it as its parent.  The node may reorganise its     *)
(* chain between two calls, and nobody compares the number of a header     *)
(* with the one asked for; the client never asks again.                    *)
(*                                                                         *)
(* A block stands for its header: its hash is its identity, as HashHeader  *)
(* takes the node's word for the hash, and it fixes all its ancestors.     *)
(***************************************************************************)
EXTENDS Requests, SequencesExt

CONSTANTS
    Blocks,    \* all blocks of all forks
    Number,    \* block -> its number
    Parent,    \* block -> its parent, or None for the first
    MaxNumber  \* bound: the largest number asked for

ASSUME BlocksAssumption ==
    /\ None \notin Blocks /\ MaxNumber \in Nat
    /\ Number \in [Blocks -> Nat] /\ Parent \in [Blocks -> Blocks \cup {None}]
    /\ \A b \in Blocks : IF Parent[b] = None THEN Number[b] = 0
                                             ELSE Number[b] = Number[Parent[b]] + 1

VARIABLES
    head,       \* the last block of the node's chain
    fetching    \* worker -> the range it is fetching, or None

lightClientVars == <<head, fetching>>

(* The block, its parent, the parent of that: the least set of that kind.  *)
Ancestors[b \in Blocks] ==
    {a \in Blocks : \A S \in SUBSET Blocks :
        b \in S /\ (\A x \in S : Parent[x] # None => Parent[x] \in S) => a \in S}

Numbers == 0..MaxNumber

Fetch == [start : Numbers, end : Numbers, headers : Seq(Blocks), verified : BOOLEAN]

LightClientTypeOK ==
    /\ head \in Blocks
    /\ fetching \in [Workers -> Fetch \cup {None}]

LightClientInit ==
    /\ head \in {b \in Blocks : Parent[b] = None}
    /\ fetching = [w \in Workers |-> None]

-----------------------------------------------------------------------------
(* The node moves to another chain, which its last block names.            *)
Reorganise(b) ==
    /\ head' = b
    /\ UNCHANGED fetching

NextNumber(w) == fetching[w].start + Len(fetching[w].headers)

Fetched(w) == NextNumber(w) > fetching[w].end

(* FetchRange refuses a range that ends before it starts.                  *)
FetchRange(w, start, end) ==
    /\ start <= end
    /\ fetching' = [fetching EXCEPT ![w] =
           [start |-> start, end |-> end, headers |-> <<>>, verified |-> FALSE]]

(* HeaderByNumber: a header of the node's chain.  Its number is taken from *)
(* the response.                                                           *)
HeaderByNumber(w) ==
    /\ fetching[w] # None /\ ~Fetched(w)
    /\ \E b \in Ancestors[head] :
           fetching' = [fetching EXCEPT ![w].headers = Append(@, b)]

(* Any other outcome of the call, and the whole range is refused.          *)
HeaderMissing(w) ==
    /\ fetching[w] # None /\ ~Fetched(w)
    /\ fetching' = [fetching EXCEPT ![w] = None]

(* Mutant of Linked: the numbers are compared, the parents are not.        *)
Sequential(prev, curr) == Number[curr] = Number[prev] + 1

Linked(prev, curr) == Number[curr] = Number[prev] + 1 /\ Parent[curr] = prev

VerifyHeaderChain(headers) ==
    \A i \in 2..Len(headers) : Linked(headers[i-1], headers[i])

AcceptRange(w) ==
    /\ fetching[w] # None /\ Fetched(w) /\ ~fetching[w].verified
    /\ VerifyHeaderChain(fetching[w].headers)
    /\ fetching' = [fetching EXCEPT ![w].verified = TRUE]

RefuseRange(w) ==
    /\ fetching[w] # None /\ Fetched(w) /\ ~fetching[w].verified
    /\ ~VerifyHeaderChain(fetching[w].headers)
    /\ fetching' = [fetching EXCEPT ![w] = None]

LightClientNext ==
    \E w \in Workers : HeaderByNumber(w) \/ HeaderMissing(w) \/ AcceptRange(w) \/ RefuseRange(w)

-----------------------------------------------------------------------------
(* An accepted range is a piece of one chain, as long as the one asked     *)
(* for: every header of it is an ancestor of its last one, and none is     *)
(* missing or there twice, though the node moved to another chain between  *)
(* the calls or answered with other numbers.                               *)
RangeIsOneChain ==
    \A w \in Workers :
        fetching[w] # None /\ fetching[w].verified =>
            LET hs == fetching[w].headers IN
            /\ Len(hs) = fetching[w].end - fetching[w].start + 1
            /\ ToSet(hs) \subseteq Ancestors[Last(hs)]
            /\ {Number[b] : b \in ToSet(hs)} = Number[hs[1]] .. Number[hs[1]] + Len(hs) - 1

(* That the range is the one asked for rests on the node: false as it      *)
(* stands, see MCWalletRange.cfg.                                          *)
RangeAsAsked ==
    \A w \in Workers :
        fetching[w] # None /\ fetching[w].verified =>
            Number[fetching[w].headers[1]] = fetching[w].start
=============================================================================
