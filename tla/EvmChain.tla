------------------------------ MODULE EvmChain ------------------------------
(***************************************************************************)
(* An EVM network as the watcher's adapter sees it: a head, one block hash *)
(* per height, and for each transaction the place of its Transfer log, the *)
(* block and the index of the log within the block.  A reorganisation      *)
(* replaces the blocks above some height: each replaced height has a new   *)
(* hash, and a transaction that was in a replaced block is in another one, *)
(* perhaps at another index, or in none.                                   *)
(***************************************************************************)
EXTENDS Integers

CONSTANTS Transactions,     \* each carries one transfer to one of our addresses
          Indexes,          \* the log indexes a transfer may have
          MaxHead,          \* bound: the chain stops growing
          MaxReorgs,        \* bound: the number of reorganisations
          ReorgDepth        \* how many blocks a reorganisation may replace

VARIABLES head, hash, place, reorgs

chainVars == <<head, hash, place, reorgs>>

Heights == 0..MaxHead

Nowhere == [block |-> -1, index |-> 0]

Places == [block : Heights, index : Indexes] \cup {Nowhere}

ChainTypeOK ==
    /\ head \in Heights
    /\ hash \in [Heights -> 0..MaxReorgs]
    /\ place \in [Transactions -> Places]
    /\ reorgs \in 0..MaxReorgs

ChainInit ==
    /\ head = 0
    /\ hash = [b \in Heights |-> 0]
    /\ place = [t \in Transactions |-> Nowhere]
    /\ reorgs = 0

OnChain(t) == place[t] # Nowhere

\* The next block, with some of the transactions that are in none.
Mine ==
    /\ head < MaxHead
    /\ head' = head + 1
    /\ \E mined \in SUBSET {t \in Transactions : ~OnChain(t)} :
         \E index \in [mined -> Indexes] :
           place' = [t \in Transactions |->
                       IF t \in mined THEN [block |-> head + 1, index |-> index[t]]
                                      ELSE place[t]]
    /\ UNCHANGED <<hash, reorgs>>

\* The blocks above `fork` are replaced by as many others.
Reorganise(fork) ==
    LET moved == {t \in Transactions : place[t].block > fork}
    IN /\ reorgs < MaxReorgs
       /\ fork < head
       /\ fork >= head - ReorgDepth
       /\ reorgs' = reorgs + 1
       /\ hash' = [b \in Heights |-> IF b > fork THEN reorgs + 1 ELSE hash[b]]
       /\ \E to \in [moved -> [block : (fork + 1)..head, index : Indexes] \cup {Nowhere}] :
            place' = [t \in Transactions |-> IF t \in moved THEN to[t] ELSE place[t]]
       /\ UNCHANGED head

ChainStep == Mine \/ \E fork \in Heights : Reorganise(fork)
=============================================================================
