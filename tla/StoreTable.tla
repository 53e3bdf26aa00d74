------------------------------- MODULE StoreTable -------------------------------
(***************************************************************************)
(* The resource store together with its hash table: an array with linear   *)
(* probing that has no markers for removed entries and fills the hole      *)
(* instead.  ResourceStore takes the table for a function from keys to     *)
(* objects; here the array goes along with it, one call for each change.   *)
(***************************************************************************)
EXTENDS ResourceStore

CONSTANTS Codes         \* the hash functions of this instance

ASSUME CodesAssumption == Codes \subseteq [Hashed -> Nat]

\* A table of n slots has a blank one left when every thread has added an entry although the load
\* was at its limit.
Roomy(n) == (n * LoadTenths) \div 10 + Cardinality(Threads) < n

\* The first table has one left when the load is at its limit and one more comes.
ASSUME RoomAssumption == (TableSize * LoadTenths) \div 10 + 1 < TableSize /\ Roomy(2 * TableSize)

VARIABLES
    code,       \* the hash function
    ents        \* table->ents: an array of entries, or None where val is null

tableVars == <<code, ents>>

Entry(k, v) == [key |-> k, val |-> v]

ASSUME EntryAssumption == \A k \in Hashed, v \in Vals : Entry(k, v) # None

Blank(n) == [i \in 0 .. n - 1 |-> None]

\* Where the probing for a key stops: the first slot that is blank or has the key.  The code
\* probes for ever if there is none.
Stops(e, n, k) ==
    {s \in 0 .. n - 1 : \E i \in 0 .. n - 1 :
        LET slot(j) == (code[k] + j) % n
            stop(j) == e[slot(j)] = None \/ e[slot(j)].key = k
        IN s = slot(i) /\ stop(i) /\ \A j \in 0 .. i - 1 : ~stop(j)}

\* fz_hash_find.
Lookup(e, n, k) ==
    IF \E s \in Stops(e, n, k) : e[s] # None
    THEN e[CHOOSE s \in Stops(e, n, k) : TRUE].val
    ELSE None

\* do_hash_insert: an entry with the key stays.
Inserted(e, n, x) ==
    [i \in 0 .. n - 1 |-> IF i \in Stops(e, n, x.key) /\ e[i] = None THEN x ELSE e[i]]

\* Mutant: the case of a hole behind the end of the array is forgotten.
MayFill_NoWrap(home, hole, look) == home <= hole /\ hole < look

\* An entry may fill the hole if the hole is between its own slot and the one it is in.
MayFill(home, hole, look) ==
    \/ home <= hole /\ hole < look
    \/ look < home /\ home <= hole
    \/ hole < look /\ look < home

\* fz_hash_remove: after the entry is taken out the ones behind it are looked at, up to the next
\* blank slot, and each that may is moved into the hole it leaves another one in.
Removed(e, n, k) ==
    LET first == CHOOSE s \in Stops(e, n, k) : TRUE
        cleared == [e EXCEPT ![first] = None]
        slot(i) == (first + i) % n
        end == CHOOSE i \in 1 .. n :
                 cleared[slot(i)] = None /\ \A j \in 1 .. i - 1 : cleared[slot(j)] # None
        fill[i \in 0 .. n] ==
            IF i = 0 THEN [ents |-> cleared, hole |-> first]
            ELSE LET before == fill[i - 1]
                     look == slot(i)
                     x == before.ents[look]
                 IN IF MayFill(code[x.key] % n, before.hole, look)
                    THEN [ents |-> [before.ents EXCEPT ![before.hole] = x, ![look] = None],
                          hole |-> look]
                    ELSE before
    IN fill[end - 1].ents

\* fz_resize_hash: the entries go into a blank array in the order of the old one.
Resized(e, old, new) ==
    LET moved[i \in 0 .. old] ==
            IF i = 0 THEN Blank(new)
            ELSE IF e[i - 1] = None THEN moved[i - 1]
            ELSE Inserted(moved[i - 1], new, e[i - 1])
    IN moved[old]

-----------------------------------------------------------------------------
TInit == Init /\ code \in Codes /\ ents = Blank(TableSize)

\* The calls of the table that go with a step of the store.
TableStep ==
    LET gone == {k \in Hashed : hash[k] # None /\ hash'[k] = None}
        new == {k \in Hashed : hash[k] = None /\ hash'[k] # None}
    IN
    /\ ents' = IF tableSize' # tableSize THEN Resized(ents, tableSize, tableSize')
               ELSE IF gone # {} THEN Removed(ents, tableSize, CHOOSE k \in gone : TRUE)
               ELSE IF new # {}
                    THEN LET k == CHOOSE k \in new : TRUE
                         IN Inserted(ents, tableSize, Entry(k, hash'[k]))
               ELSE ents
    /\ UNCHANGED code

TNext == Next /\ TableStep

TSpec == TInit /\ [][TNext]_<<vars, tableVars>>

-----------------------------------------------------------------------------
\* The array finds what the store has filed, and nothing else: filling holes and moving entries
\* to a larger array loses none and leaves none behind another that it cannot be reached over.
\* Probing ends, since there is always a blank slot: fz_hash_insert resizes in time.
TableIsHash ==
    /\ ents \in [0 .. tableSize - 1 -> {None} \cup {Entry(k, v) : k \in Hashed, v \in Vals}]
    /\ \A k \in Hashed : Lookup(ents, tableSize, k) = hash[k]
    /\ \E i \in DOMAIN ents : ents[i] = None

=================================================================================
