-------------------------- MODULE ForwardingTable ---------------------------
(***************************************************************************)
(* The route table of blip's IPForwardingEngineP.                          *)
(*                                                                         *)
(* A prefix is the sequence of its bytes (addRoute accepts no other        *)
(* lengths), the default route has none.  route_key_t is int: keys start   *)
(* at 1 and wrap.  A slot that becomes invalid keeps what it held.         *)
(*                                                                         *)
(* known is what a user of ForwardingTableEvents believes: that there is a *)
(* default route, because the last of the two events was the added one.    *)
(***************************************************************************)
EXTENDS Integers, Sequences, FiniteSets

CONSTANTS
    Size,            \* ROUTE_TABLE_SZ
    MaxLen,          \* bytes of an address
    Bytes,           \* values of a byte
    Hops,            \* next hops
    NoHop,           \* :: in a slot never used; as argument, NULL
    MaxKey,          \* the largest int; the least is -MaxKey - 1
    MaxAdds          \* bound on the number of keys given out

\* An int has more values than the table has slots.
TableAssumption ==
    /\ Size \in Nat \ {0} /\ MaxLen \in Nat \ {0}
    /\ MaxKey \in Nat \ {0} /\ Size < 2 * MaxKey + 2

Slots    == 1 .. Size
Prefixes == UNION {[1 .. n -> Bytes] : n \in 0 .. MaxLen}
Addresses == [1 .. MaxLen -> Bytes]

VARIABLES
    table,           \* routing_table
    last_key,
    added,           \* is defaultRouteAddedTask posted?
    known,
    adds             \* number of keys given out

vars == <<table, last_key, added, known, adds>>

\* Init.init
Cleared == [valid |-> FALSE, key |-> 0, prefix |-> <<>>, hop |-> NoHop]

Init ==
    /\ table = [i \in Slots |-> Cleared]
    /\ last_key = 1
    /\ added = FALSE /\ known = FALSE
    /\ adds = 0

-----------------------------------------------------------------------------
Valid == {i \in Slots : table[i].valid}
First(I) == CHOOSE i \in I : \A j \in I : i <= j

\* Do the prefixes agree in the bytes that both have?
Agree(p, q) ==
    \A j \in 1 .. Len(p) : j <= Len(q) => p[j] = q[j]

\* The entries that lookupRoute(p) takes for a match.
Matches(p) ==
    {i \in Valid : \/ table[i].prefix = <<>>
                   \/ p # <<>> /\ Agree(p, table[i].prefix)}

\* lookupRoute: the first match, or 0 for NULL.
lookupRoute(p) == IF Matches(p) = {} THEN 0 ELSE First(Matches(p))

\* alloc_key: the next key that no valid entry has.  The new slot i is valid
\* by then and still has its old key.
NextKey(k)  == IF k = MaxKey THEN -MaxKey - 1 ELSE k + 1
Taken(k, i) == \E j \in Valid \cup {i} : table[j].key = k

FreeKey(k, i) ==
    LET free[n \in 0 .. Size] ==
          IF n = 0 THEN k
          ELSE IF Taken(free[n - 1], i) THEN NextKey(free[n - 1])
          ELSE free[n - 1]
    IN  free[Size]

\* Slip: a new entry goes below all others.
AtTheEnd(p) == First({i \in Slots : ~table[i].valid})

\* alloc_entry, on a table that is not full: the first slot that is free or
\* has a shorter prefix.
SlotFor(p) ==
    First({i \in Slots : ~table[i].valid \/ Len(table[i].prefix) < Len(p)})

\* Slip: entries below the new one are overwritten, not moved.
Overwritten(i, e) == [table EXCEPT ![i] = e]

\* The table with e in slot i; if the slot was taken the entries from i on are
\* moved down.
Inserted(i, e) ==
    [j \in Slots |-> CASE j = i -> e
                       [] j > i /\ table[i].valid -> table[j - 1]
                       [] OTHER -> table[j]]

\* memcpy of the next hop, if there is one: else the slot keeps what it had.
HopIn(i, h) == IF h = NoHop THEN table[i].hop ELSE h

-----------------------------------------------------------------------------
(* addRoute                                                                *)

Known(p) ==
    LET i == lookupRoute(p)
    IN  i # 0 /\ Len(table[i].prefix) = Len(p)

\* The entry that lookupRoute finds has a prefix of that length: it is
\* overwritten.
AddUpdates(p, h) ==
    /\ Known(p)
    /\ LET i == lookupRoute(p)
       IN  table' = [table EXCEPT ![i].prefix = p, ![i].hop = HopIn(i, h)]
    /\ UNCHANGED <<last_key, added, known, adds>>

\* No slot is free; the task is posted all the same.
AddRefused(p, h) ==
    /\ ~Known(p) /\ table[Size].valid
    /\ added' = (added \/ p = <<>>)
    /\ UNCHANGED <<table, last_key, known, adds>>

AddInserts(p, h) ==
    /\ adds < MaxAdds
    /\ ~Known(p) /\ ~table[Size].valid
    /\ LET i == SlotFor(p)
           k == FreeKey(last_key, i)
       IN  /\ table' = Inserted(i, [valid |-> TRUE, key |-> k, prefix |-> p,
                                    hop |-> HopIn(i, h)])
           /\ last_key' = NextKey(k)
    /\ added' = (added \/ p = <<>>)
    /\ adds' = adds + 1
    /\ UNCHANGED known

addRoute(p, h) == AddUpdates(p, h) \/ AddRefused(p, h) \/ AddInserts(p, h)

-----------------------------------------------------------------------------
\* Slip: the last slot, whose entry has moved up, stays valid.
StaysValid(i) ==
    [j \in Slots |-> IF j >= i /\ j < Size THEN table[j + 1] ELSE table[j]]

\* The table without slot i: what is below moves up.
Removed(i) ==
    [j \in Slots |->
       CASE j = Size -> [table[Size] EXCEPT !.valid = FALSE]
         [] j >= i /\ j < Size -> table[j + 1]
         [] OTHER -> table[j]]

\* delRoute: the first entry with that key, valid or not.  Callers may pass a
\* key whose route is gone, or (RouteCmdP) any number.
DelRoute(k) ==
    LET I == {i \in Slots : table[i].key = k}
    IN  /\ I # {}
        /\ table' = Removed(First(I))
        /\ known' = (known /\ table[First(I)].prefix # <<>>)
        /\ UNCHANGED <<last_key, added, adds>>

\* defaultRouteAddedTask
DefaultRouteAdded ==
    /\ added
    /\ added' = FALSE
    /\ known' = TRUE
    /\ UNCHANGED <<table, last_key, adds>>

Keys == -MaxKey - 1 .. MaxKey

Next ==
    \/ \E p \in Prefixes, h \in Hops \cup {NoHop} : addRoute(p, h)
    \/ \E k \in Keys : DelRoute(k)
    \/ DefaultRouteAdded

Spec == Init /\ [][Next]_vars

-----------------------------------------------------------------------------
(* Properties.                                                             *)

\* "the routing table is sorted by prefix length, so that the entries with the
\* longest prefix are at the top": packets take the longest match among all
\* routes, after any sequence of additions and removals.
LongestMatch ==
    \A a \in Addresses :
      LET M == {i \in Valid : Agree(a, table[i].prefix)}
      IN  IF M = {} THEN lookupRoute(a) = 0
          ELSE /\ lookupRoute(a) \in M
               /\ \A i \in M : Len(table[i].prefix)
                                 <= Len(table[lookupRoute(a)].prefix)

\* The valid entries come first, and longer prefixes before shorter ones.
Sorted ==
    \A i, j \in Slots : i < j /\ table[j].valid =>
      table[i].valid /\ Len(table[i].prefix) >= Len(table[j].prefix)

\* A key names one valid slot, so that delRoute takes the route that addRoute
\* returned the key of: also after the keys have wrapped past those of routes
\* still in the table, and whatever was moved up or down, for a slot that is
\* left doubled by a move (alloc_entry 86-88, delRoute 142-144) has its key
\* twice.
KeysUnique ==
    \A i, j \in Valid : table[i].key = table[j].key => i = j

Routes == {table[i] : i \in Valid}

\* Moving entries up and down loses no route: an addition leaves all others as
\* they are, and nothing else takes away, or changes, more than the one route
\* it is about.  (A route that a move leaves in two slots is KeysUnique's
\* matter.)
OthersStay ==
    [][/\ adds' > adds => Routes \subseteq Routes'
       /\ Cardinality(Routes \ Routes') <= 1
       /\ Cardinality(Routes' \ Routes) <= 1]_vars

\* "if a route to the given prefix already exists, this updates it": after
\* addRoute, packets for the prefix that no longer prefix matches go to the
\* new next hop.  (addRoute looks at the first match only: a longer prefix that
\* matches hides the route to be updated, and a second one for the same prefix
\* is inserted below it.)
UpdateTakesEffect ==
    [][\A p \in Prefixes, h \in Hops :
         AddUpdates(p, h) \/ AddInserts(p, h) =>
           \E i \in Slots :
             /\ table'[i].valid /\ table'[i].prefix = p /\ table'[i].hop = h
             /\ \A j \in 1 .. i - 1 : table'[j].prefix # p]_vars

\* "signaled when [...] the stack transitions from not having a default route to
\* having one", and when it is removed: once the task has run, the events say
\* whether there is a default route.
EventsTell ==
    ~added => (known <=> \E i \in Valid : table[i].prefix = <<>>)
=============================================================================
