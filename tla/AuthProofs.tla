----------------------------- MODULE AuthProofs ------------------------------
(***************************************************************************)
(* Theorems of Auth, for every number of requests, keys and edits, every   *)
(* TTL and every bound on a lookup.                                        *)
(***************************************************************************)
EXTENDS Auth, TLAPS

\* The current version has not been superseded, nor one that is to come.
TableInv ==
    \A k \in Keys :
        /\ row[k] # NoRow => row[k] = edits[k]
        /\ \A v \in Versions : v > edits[k] \/ v = row[k] => until[k][v] = Never

\* A lookup is under way for at most MaxLookup, and what it has read was
\* current at some moment since it began.
LookupInv ==
    \A r \in Requests :
        /\ pc[r] \in Looking =>
             /\ KeyOf[r] \in Keys
             /\ began[r] <= now
             /\ now <= began[r] + MaxLookup
        /\ pc[r] = "lookup" /\ row[KeyOf[r]] = NoRow => r \in absent
        /\ pc[r] = "read" /\ got[r] = NoRow => r \in absent
        /\ pc[r] = "read" /\ got[r] # NoRow => began[r] <= until[KeyOf[r]][got[r]]

CacheInv == \A k \in Keys : cache[k].expires <= now + TTL

AuthInv ==
    TypeOK /\ TableInv /\ LookupInv /\ CacheInv /\ EntriesExpire /\ RefusedWasUnknown

(***************************************************************************)
(* Every value a version may be is a natural, and Never is after now.      *)
(***************************************************************************)
LEMMA Numbers ==
    ASSUME AuthInv
    PROVE  /\ TTL \in Nat /\ TTL > 0 /\ MaxLookup \in Nat
           /\ now \in Nat /\ now < Never /\ Never \in Nat
           /\ \A k \in Keys : \A v \in Versions : until[k][v] \in 0..Never
           /\ \A k \in Keys : cache[k].expires \in Nat /\ cache[k].ver \in 0..MaxVersion
           /\ \A r \in Requests : began[r] \in Nat /\ got[r] \in 0..MaxVersion
BY AuthAssumption DEF AuthInv, TypeOK, Times, Never, Entry, Versions

(***************************************************************************)
(* The middleware up to its lookup: malformed keys, hits and misses.       *)
(***************************************************************************)
LEMMA BeginsLookup ==
    ASSUME AuthInv, NEW r \in Requests, Malformed(r) \/ CacheHit(r) \/ CacheMiss(r)
    PROVE  AuthInv'
<1> USE AuthAssumption DEF AuthInv, tableVars
<1>1. CASE Malformed(r)
  <2>1. TypeOK'
    BY <1>1 DEF Malformed, TypeOK
  <2>2. TableInv' /\ CacheInv' /\ EntriesExpire'
    BY <1>1 DEF Malformed, TableInv, CacheInv, EntriesExpire
  <2>3. LookupInv' /\ RefusedWasUnknown'
    BY <1>1 DEF Malformed, LookupInv, RefusedWasUnknown, TypeOK, Looking
  <2> QED
    BY <2>1, <2>2, <2>3
<1>2. CASE CacheHit(r)
  <2>1. TypeOK'
    BY <1>2 DEF CacheHit, TypeOK, Entry
  <2>2. TableInv' /\ CacheInv' /\ EntriesExpire'
    BY <1>2 DEF CacheHit, TableInv, CacheInv, EntriesExpire
  <2>3. LookupInv' /\ RefusedWasUnknown'
    BY <1>2 DEF CacheHit, LookupInv, RefusedWasUnknown, TypeOK, Looking
  <2> QED
    BY <2>1, <2>2, <2>3
<1>3. CASE CacheMiss(r)
  <2>1. TypeOK'
    BY <1>3 DEF CacheMiss, TypeOK, Looking
  <2>2. TableInv' /\ CacheInv' /\ EntriesExpire'
    BY <1>3 DEF CacheMiss, TableInv, CacheInv, EntriesExpire
  <2>3. RefusedWasUnknown'
    BY <1>3 DEF CacheMiss, RefusedWasUnknown, TypeOK
  <2>4. LookupInv'
    BY <1>3, Numbers DEF CacheMiss, LookupInv, TypeOK, Looking
  <2> QED
    BY <2>1, <2>2, <2>3, <2>4
<1> QED
  BY <1>1, <1>2, <1>3

(***************************************************************************)
(* The middleware with its lookup: an entry is stored with a row that was  *)
(* current at most one lookup ago.                                         *)
(***************************************************************************)
LEMMA EndsLookup ==
    ASSUME AuthInv, NEW r \in Requests,
           LookupReads(r) \/ LookupFails(r) \/ NotFound(r) \/ Found(r)
    PROVE  AuthInv'
<1> USE AuthAssumption DEF AuthInv, tableVars
<1>1. CASE LookupReads(r)
  <2>1. KeyOf[r] \in Keys /\ row[KeyOf[r]] \in 0..MaxVersion
    BY <1>1 DEF LookupReads, LookupInv, Looking, TypeOK
  <2>2. TypeOK'
    BY <1>1, <2>1 DEF LookupReads, TypeOK, Looking
  <2>3. TableInv' /\ CacheInv' /\ EntriesExpire'
    BY <1>1 DEF LookupReads, TableInv, CacheInv, EntriesExpire
  <2>4. RefusedWasUnknown'
    BY <1>1 DEF LookupReads, RefusedWasUnknown, TypeOK
  <2>5. row[KeyOf[r]] # NoRow => until[KeyOf[r]][row[KeyOf[r]]] = Never
    BY <2>1 DEF TableInv, NoRow, Versions
  <2>6. LookupInv'
    BY <1>1, <2>1, <2>5, Numbers DEF LookupReads, LookupInv, TypeOK, Looking
  <2> QED
    BY <2>2, <2>3, <2>4, <2>6
<1>2. CASE LookupFails(r)
  <2>1. TypeOK'
    BY <1>2 DEF LookupFails, TypeOK
  <2>2. TableInv' /\ CacheInv' /\ EntriesExpire'
    BY <1>2 DEF LookupFails, TableInv, CacheInv, EntriesExpire
  <2>3. LookupInv' /\ RefusedWasUnknown'
    BY <1>2 DEF LookupFails, LookupInv, RefusedWasUnknown, TypeOK, Looking
  <2> QED
    BY <2>1, <2>2, <2>3
<1>3. CASE NotFound(r)
  <2>1. TypeOK'
    BY <1>3 DEF NotFound, TypeOK
  <2>2. TableInv' /\ CacheInv' /\ EntriesExpire'
    BY <1>3 DEF NotFound, TableInv, CacheInv, EntriesExpire
  <2>3. LookupInv' /\ RefusedWasUnknown'
    BY <1>3 DEF NotFound, LookupInv, RefusedWasUnknown, TypeOK, Looking
  <2> QED
    BY <2>1, <2>2, <2>3
<1>4. CASE Found(r)
  <2> DEFINE k == KeyOf[r]
             new == [ver |-> got[r], expires |-> now + TTL]
  <2>1. /\ k \in Keys /\ got[r] \in Versions
        /\ now <= until[k][got[r]] + MaxLookup
    BY <1>4, Numbers DEF Found, LookupInv, Looking, NoRow, Versions
  <2>2. /\ pc' = [pc EXCEPT ![r] = "served"] /\ cache' = [cache EXCEPT ![k] = new]
        /\ UNCHANGED <<now, row, edits, until, got, began, absent>>
    BY <1>4 DEF Found, Expiry
  <2>3. new \in Entry
    BY <2>1, Numbers DEF Entry, Versions
  <2>4. TypeOK'
    BY <2>1, <2>2, <2>3 DEF TypeOK
  <2>5. cache'[k] = new /\ \A j \in Keys : j # k => cache'[j] = cache[j]
    BY <2>1, <2>2 DEF TypeOK
  <2>6. CacheInv'
    <3> SUFFICES ASSUME NEW j \in Keys PROVE cache'[j].expires <= now + TTL
      BY <2>2 DEF CacheInv
    <3> QED
      BY <2>5, Numbers DEF CacheInv
  <2>7. EntriesExpire'
    <3> SUFFICES ASSUME NEW j \in Keys, cache'[j] # NoEntry
                 PROVE  /\ cache'[j].ver \in Versions
                        /\ cache'[j].expires <= until[j][cache'[j].ver] + TTL + MaxLookup
      BY <2>2 DEF EntriesExpire
    <3>1. CASE j = k
      BY <2>1, <2>5, <3>1, Numbers
    <3>2. CASE j # k
      BY <2>5, <3>2 DEF EntriesExpire
    <3> QED
      BY <3>1, <3>2
  <2>8. TableInv'
    BY <2>2 DEF TableInv
  <2>9. LookupInv' /\ RefusedWasUnknown'
    BY <2>2 DEF LookupInv, RefusedWasUnknown, TypeOK, Looking
  <2> QED
    BY <2>4, <2>6, <2>7, <2>8, <2>9
<1> QED
  BY <1>1, <1>2, <1>3, <1>4

(***************************************************************************)
(* A version that is superseded was current until now: entries and lookups *)
(* that have it are young enough.                                          *)
(***************************************************************************)
LEMMA SupersededLater ==
    ASSUME AuthInv, NEW k \in Keys, Superseded(k), UNCHANGED <<now, cache, pc, got, began>>
    PROVE  /\ until' \in [Keys -> [Versions -> 0..Never]]
           /\ EntriesExpire'
           /\ \A r \in Requests : pc[r] = "read" /\ got[r] # NoRow =>
                began[r] <= until'[KeyOf[r]][got[r]]
           /\ \A j \in Keys : \A v \in Versions :
                (j # k \/ v # row[k]) => until'[j][v] = until[j][v]
<1> USE AuthAssumption DEF AuthInv
<1>1. CASE row[k] = NoRow
  BY <1>1 DEF Superseded, EntriesExpire, TypeOK, LookupInv
<1>2. CASE row[k] # NoRow
  <2>1. row[k] \in Versions /\ now \in 0..Never
    BY <1>2, Numbers DEF TypeOK, Versions, NoRow
  <2>2. until' = [until EXCEPT ![k][row[k]] = now]
    BY <1>2 DEF Superseded
  <2>3. until' \in [Keys -> [Versions -> 0..Never]]
    BY <2>1, <2>2 DEF TypeOK
  <2>4. /\ until'[k][row[k]] = now
        /\ \A j \in Keys : \A v \in Versions :
             (j # k \/ v # row[k]) => until'[j][v] = until[j][v]
    BY <2>1, <2>2 DEF TypeOK
  <2>5. EntriesExpire'
    <3> SUFFICES ASSUME NEW j \in Keys, cache[j] # NoEntry
                 PROVE  /\ cache[j].ver \in Versions
                        /\ cache[j].expires <= until'[j][cache[j].ver] + TTL + MaxLookup
      BY DEF EntriesExpire
    <3>1. cache[j].ver \in Versions
      BY DEF EntriesExpire
    <3>2. CASE j = k /\ cache[j].ver = row[k]
      BY <2>4, <3>1, <3>2, Numbers DEF CacheInv
    <3>3. CASE j # k \/ cache[j].ver # row[k]
      BY <2>4, <3>1, <3>3 DEF EntriesExpire
    <3> QED
      BY <3>1, <3>2, <3>3
  <2>6. ASSUME NEW r \in Requests, pc[r] = "read", got[r] # NoRow
        PROVE  began[r] <= until'[KeyOf[r]][got[r]]
    <3>1. /\ KeyOf[r] \in Keys /\ got[r] \in Versions /\ began[r] <= now
          /\ began[r] <= until[KeyOf[r]][got[r]]
      BY <2>6, Numbers DEF LookupInv, Looking, Versions, NoRow
    <3> QED
      BY <2>4, <3>1
  <2> QED
    BY <2>3, <2>4, <2>5, <2>6
<1> QED
  BY <1>1, <1>2

(***************************************************************************)
(* Edits of the table.                                                     *)
(***************************************************************************)
LEMMA Edits ==
    ASSUME AuthInv, NEW k \in Keys, Write(k) \/ Delete(k)
    PROVE  AuthInv'
<1> USE AuthAssumption DEF AuthInv
<1>1. CASE Write(k)
  <2>1. /\ edits[k] < MaxVersion /\ edits' = [edits EXCEPT ![k] = @ + 1]
        /\ row' = [row EXCEPT ![k] = edits[k] + 1]
        /\ Superseded(k)
        /\ UNCHANGED <<now, cache, pc, got, began, absent>>
    BY <1>1 DEF Write
  <2>2. /\ until' \in [Keys -> [Versions -> 0..Never]]
        /\ EntriesExpire'
        /\ \A r \in Requests : pc[r] = "read" /\ got[r] # NoRow =>
             began[r] <= until'[KeyOf[r]][got[r]]
        /\ \A j \in Keys : \A v \in Versions :
             (j # k \/ v # row[k]) => until'[j][v] = until[j][v]
    BY <2>1, SupersededLater
  <2>3. edits[k] + 1 \in Versions
    BY <2>1 DEF TypeOK, Versions
  <2>4. TypeOK'
    <3>1. edits[k] + 1 \in 0..MaxVersion
      BY <2>3 DEF Versions
    <3>2. row' \in [Keys -> 0..MaxVersion] /\ edits' \in [Keys -> 0..MaxVersion]
      BY <2>1, <3>1 DEF TypeOK
    <3>3. until' \in [Keys -> [Versions -> 0..Never]]
      BY <2>2
    <3> QED
      BY <2>1, <3>2, <3>3 DEF TypeOK
  <2>5. /\ row'[k] = edits[k] + 1 /\ edits'[k] = edits[k] + 1
        /\ \A j \in Keys : j # k => row'[j] = row[j] /\ edits'[j] = edits[j]
    BY <2>1 DEF TypeOK
  <2>6. TableInv'
    <3> SUFFICES ASSUME NEW j \in Keys
                 PROVE  /\ row'[j] # NoRow => row'[j] = edits'[j]
                        /\ \A v \in Versions :
                             v > edits'[j] \/ v = row'[j] => until'[j][v] = Never
      BY DEF TableInv
    <3>1. CASE j # k
      BY <2>2, <2>5, <3>1 DEF TableInv
    <3>2. CASE j = k
      <4>1. edits[k] \in Nat /\ (row[k] = NoRow \/ row[k] = edits[k])
        BY DEF TypeOK, TableInv
      <4>2. ASSUME NEW v \in Versions, v > edits[k]
            PROVE  until'[k][v] = Never
        <5>1. v # row[k]
          BY <4>1, <4>2 DEF Versions, NoRow
        <5> QED
          BY <2>2, <4>2, <5>1 DEF TableInv
      <4> QED
        BY <2>3, <2>5, <3>2, <4>1, <4>2 DEF Versions
    <3> QED
      BY <3>1, <3>2
  <2>7. LookupInv'
    <3>1. \A r \in Requests : KeyOf[r] \in Keys /\ row'[KeyOf[r]] = NoRow => row[KeyOf[r]] = NoRow
      BY <2>3, <2>5 DEF NoRow, Versions
    <3> QED
      BY <2>1, <2>2, <3>1 DEF LookupInv, Looking
  <2>8. CacheInv' /\ RefusedWasUnknown'
    BY <2>1 DEF CacheInv, RefusedWasUnknown
  <2> QED
    BY <2>2, <2>4, <2>6, <2>7, <2>8
<1>2. CASE Delete(k)
  <2>1. /\ row[k] # NoRow /\ row' = [row EXCEPT ![k] = NoRow]
        /\ Superseded(k)
        /\ absent' = absent \cup {r \in Requests : KeyOf[r] = k /\ pc[r] \in Looking}
        /\ UNCHANGED <<now, edits, cache, pc, got, began>>
    BY <1>2 DEF Delete
  <2>2. /\ until' \in [Keys -> [Versions -> 0..Never]]
        /\ EntriesExpire'
        /\ \A r \in Requests : pc[r] = "read" /\ got[r] # NoRow =>
             began[r] <= until'[KeyOf[r]][got[r]]
        /\ \A j \in Keys : \A v \in Versions :
             (j # k \/ v # row[k]) => until'[j][v] = until[j][v]
    BY <2>1, SupersededLater
  <2>3. TypeOK'
    <3>1. row' \in [Keys -> 0..MaxVersion]
      BY <2>1 DEF TypeOK, NoRow
    <3>2. absent' \subseteq Requests
      BY <2>1 DEF TypeOK
    <3>3. until' \in [Keys -> [Versions -> 0..Never]]
      BY <2>2
    <3> QED
      BY <2>1, <3>1, <3>2, <3>3 DEF TypeOK
  <2>4. row'[k] = NoRow /\ \A j \in Keys : j # k => row'[j] = row[j]
    BY <2>1 DEF TypeOK
  <2>5. TableInv'
    <3> SUFFICES ASSUME NEW j \in Keys
                 PROVE  /\ row'[j] # NoRow => row'[j] = edits[j]
                        /\ \A v \in Versions :
                             v > edits[j] \/ v = row'[j] => until'[j][v] = Never
      BY <2>1 DEF TableInv
    <3>1. CASE j # k
      BY <2>2, <2>4, <3>1 DEF TableInv
    <3>2. CASE j = k
      <4>1. row[k] = edits[k] /\ edits[k] \in Nat
        BY <2>1 DEF TableInv, TypeOK
      <4>2. ASSUME NEW v \in Versions, v > edits[k]
            PROVE  until'[k][v] = Never
        BY <2>2, <4>1, <4>2 DEF TableInv, Versions
      <4> QED
        BY <2>4, <3>2, <4>2 DEF NoRow, Versions
    <3> QED
      BY <3>1, <3>2
  <2>6. LookupInv'
    <3>1. \A r \in Requests : pc[r] \in Looking /\ row'[KeyOf[r]] = NoRow =>
            row[KeyOf[r]] = NoRow \/ r \in absent'
      BY <2>1, <2>4 DEF LookupInv
    <3> QED
      BY <2>1, <2>2, <3>1 DEF LookupInv, Looking
  <2>7. CacheInv' /\ RefusedWasUnknown'
    BY <2>1 DEF CacheInv, RefusedWasUnknown
  <2> QED
    BY <2>2, <2>3, <2>5, <2>6, <2>7
<1> QED
  BY <1>1, <1>2

(***************************************************************************)
(* Every step keeps the invariant.                                         *)
(***************************************************************************)
LEMMA AuthInvNext ==
    ASSUME AuthInv, [Next]_vars
    PROVE  AuthInv'
<1>1. ASSUME NEW r \in Requests, Middleware(r)
      PROVE  AuthInv'
  BY <1>1, BeginsLookup, EndsLookup DEF Middleware
<1>2. CASE Tick
  <2> USE AuthAssumption DEF AuthInv, tableVars
  <2>1. TypeOK'
    BY <1>2 DEF Tick, TypeOK, Times
  <2>2. TableInv' /\ EntriesExpire' /\ RefusedWasUnknown'
    BY <1>2 DEF Tick, TableInv, EntriesExpire, RefusedWasUnknown
  <2>3. CacheInv'
    BY <1>2, Numbers DEF Tick, CacheInv
  <2>4. LookupInv'
    BY <1>2, Numbers DEF Tick, LookupInv
  <2> QED
    BY <2>1, <2>2, <2>3, <2>4
<1>3. CASE Finished \/ UNCHANGED vars
  BY <1>3 DEF Finished, vars, AuthInv, TypeOK, TableInv, LookupInv, CacheInv, EntriesExpire,
     RefusedWasUnknown
<1> QED
  BY <1>1, <1>2, <1>3, Edits DEF Next

(***************************************************************************)
(* The invariant holds at first and is kept.                               *)
(***************************************************************************)
LEMMA AuthInvariant == Spec => []AuthInv
<1>1. Init => AuthInv
  <2> SUFFICES ASSUME Init PROVE AuthInv
    OBVIOUS
  <2> USE AuthAssumption DEF Init
  <2>1. TypeOK
    BY DEF TypeOK, Times, Versions, Never, NoRow, Entry, NoEntry
  <2>2. TableInv
    BY DEF TableInv, Versions
  <2>3. LookupInv /\ RefusedWasUnknown
    BY DEF LookupInv, RefusedWasUnknown, Looking
  <2>4. CacheInv /\ EntriesExpire
    BY DEF CacheInv, EntriesExpire, NoEntry
  <2> QED
    BY <2>1, <2>2, <2>3, <2>4 DEF AuthInv
<1> QED
  BY <1>1, AuthInvNext, PTL DEF Spec

(***************************************************************************)
(* The middleware's state keeps its types, and no lookup stores more than  *)
(* the row it read.                                                        *)
(***************************************************************************)
THEOREM TypeCorrect == Spec => []TypeOK
<1>1. AuthInv => TypeOK
  BY DEF AuthInv
<1> QED
  BY <1>1, AuthInvariant, PTL

(***************************************************************************)
(* An entry outlives its row by at most one TTL and one lookup, whatever   *)
(* lookups overlap (resolve).                                              *)
(***************************************************************************)
THEOREM EntriesYoung == Spec => []EntriesExpire
<1>1. AuthInv => EntriesExpire
  BY DEF AuthInv
<1> QED
  BY <1>1, AuthInvariant, PTL

(***************************************************************************)
(* Whoever is refused as unknown was unknown (resolve caches no refusal).  *)
(***************************************************************************)
THEOREM RefusalsRight == Spec => []RefusedWasUnknown
<1>1. AuthInv => RefusedWasUnknown
  BY DEF AuthInv
<1> QED
  BY <1>1, AuthInvariant, PTL

(***************************************************************************)
(* Nobody is served with a row that stopped being current a TTL and a      *)
(* lookup ago (resolve).                                                   *)
(***************************************************************************)
THEOREM NobodyStale == Spec => StalenessBounded
<1>1. ASSUME AuthInv, [Next]_vars
      PROVE  [\A r \in Requests : Serves(r) =>
                /\ got'[r] # NoRow
                /\ now < until[KeyOf[r]][got'[r]] + TTL + MaxLookup]_vars
  <2> SUFFICES ASSUME NEW r \in Requests, Serves(r), Next
               PROVE  /\ got'[r] # NoRow
                      /\ now < until[KeyOf[r]][got'[r]] + TTL + MaxLookup
    BY <1>1
  <2>1. \E q \in Requests : Middleware(q)
    BY DEF Next, Serves, Write, Delete, Tick, Finished, vars
  <2>2. PICK q \in Requests : Middleware(q)
    BY <2>1
  <2>3. CacheHit(q) \/ Found(q)
    BY <1>1, <2>2 DEF Middleware, Serves, Malformed, CacheMiss, LookupReads, LookupFails,
       NotFound, AuthInv, TypeOK
  <2>4. q = r
    BY <1>1, <2>3 DEF Serves, CacheHit, Found, AuthInv, TypeOK
  <2>5. CASE CacheHit(q)
    <3>1. /\ KeyOf[r] \in Keys /\ cache[KeyOf[r]] # NoEntry
          /\ now < cache[KeyOf[r]].expires
          /\ got'[r] = cache[KeyOf[r]].ver
      BY <1>1, <2>4, <2>5 DEF CacheHit, Hit, AuthInv, TypeOK
    <3>2. /\ cache[KeyOf[r]].ver \in Versions
          /\ cache[KeyOf[r]].expires <= until[KeyOf[r]][cache[KeyOf[r]].ver] + TTL + MaxLookup
      BY <1>1, <3>1 DEF AuthInv, EntriesExpire
    <3> QED
      BY <1>1, <3>1, <3>2, Numbers DEF Versions, NoRow
  <2>6. CASE Found(q)
    <3>1. /\ KeyOf[r] \in Keys /\ got'[r] = got[r] /\ got[r] # NoRow
          /\ now <= began[r] + MaxLookup
          /\ began[r] <= until[KeyOf[r]][got[r]]
      BY <1>1, <2>4, <2>6 DEF Found, AuthInv, LookupInv, Looking
    <3>2. got[r] \in Versions
      BY <1>1, <3>1, Numbers DEF Versions, NoRow
    <3> QED
      BY <1>1, <3>1, <3>2, Numbers
  <2> QED
    BY <2>3, <2>5, <2>6
<1> QED
  BY <1>1, AuthInvariant, PTL DEF Spec, StalenessBounded
=============================================================================
