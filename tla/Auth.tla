-------------------------------- MODULE Auth --------------------------------
(***************************************************************************)
(* Authentication on one gateway process: the Authenticator of             *)
(* internal/auth, its TTL cache in front of the tenants table, and         *)
(* requests that race each other and the operator who edits the table.     *)
(*                                                                         *)
(* A tenant row is abstracted to its version: every edit of a key's row    *)
(* makes a new one.  Time is discrete; its unit is whatever TTL counts.    *)
(***************************************************************************)
EXTENDS Integers

CONSTANTS
    Requests,   \* the requests clients send
    Keys,       \* the sg_ keys (their hashes)
    KeyOf,      \* the key a request carries; one outside Keys is malformed
    TTL,        \* a.ttl
    MaxLookup,  \* assumed bound on the time a.lookup takes; the code sets none
    MaxTime,    \* bound on the clock
    MaxVersion  \* bound on the edits of a row

ASSUME AuthAssumption ==
    /\ TTL \in Nat \ {0}
    /\ MaxLookup \in Nat
    /\ MaxTime \in Nat
    /\ MaxVersion \in Nat \ {0}
    /\ DOMAIN KeyOf = Requests

NoRow == 0
Versions == 1..MaxVersion
Times == 0..MaxTime
Never == MaxTime + 1

VARIABLES
    now,     \* a.now()
    row,     \* Postgres: the version of each key's row, or NoRow
    edits,   \* versions each key's row has had
    until,   \* history: when a version stopped being current
    cache,   \* a.cache
    pc,      \* where the middleware is, per request; then how it answered
    got,     \* the row resolve has, once it has one
    began,   \* when the request's lookup was sent
    absent   \* history: requests under way while their key had no row

tableVars == <<row, edits, until>>
vars == <<now, row, edits, until, cache, pc, got, began, absent>>

Entry == [ver: 0..MaxVersion, expires: Nat]
NoEntry == [ver |-> NoRow, expires |-> 0]
Looking == {"lookup", "read"}

TypeOK ==
    /\ now \in Times
    /\ row \in [Keys -> 0..MaxVersion]
    /\ edits \in [Keys -> 0..MaxVersion]
    /\ until \in [Keys -> [Versions -> 0..Never]]
    /\ cache \in [Keys -> Entry]
    /\ pc \in [Requests -> Looking \cup {"idle", "served", "401", "503"}]
    /\ got \in [Requests -> 0..MaxVersion]
    /\ began \in [Requests -> Times]
    /\ absent \subseteq Requests

Init ==
    /\ now = 0
    /\ row \in [Keys -> {NoRow, 1}]
    /\ edits = row
    /\ until = [k \in Keys |-> [v \in Versions |-> Never]]
    /\ cache = [k \in Keys |-> NoEntry]
    /\ pc = [r \in Requests |-> "idle"]
    /\ got = [r \in Requests |-> NoRow]
    /\ began = [r \in Requests |-> 0]
    /\ absent = {}

-----------------------------------------------------------------------------
(* Middleware and resolve. *)

\* bearerKey finds no sg_ key.
Malformed(r) ==
    /\ pc[r] = "idle"
    /\ KeyOf[r] \notin Keys
    /\ pc' = [pc EXCEPT ![r] = "401"]
    /\ UNCHANGED <<now, cache, got, began, absent, tableVars>>

\* Slip: the expiry is not looked at.
HitWhenCached(k) == cache[k] # NoEntry
Hit(k) == cache[k] # NoEntry /\ now < cache[k].expires

\* The first critical section finds a live entry.
CacheHit(r) ==
    /\ pc[r] = "idle"
    /\ KeyOf[r] \in Keys
    /\ Hit(KeyOf[r])
    /\ pc' = [pc EXCEPT ![r] = "served"]
    /\ got' = [got EXCEPT ![r] = cache[KeyOf[r]].ver]
    /\ UNCHANGED <<now, cache, began, absent, tableVars>>

CacheMiss(r) ==
    /\ pc[r] = "idle"
    /\ KeyOf[r] \in Keys
    /\ ~Hit(KeyOf[r])
    /\ pc' = [pc EXCEPT ![r] = "lookup"]
    /\ began' = [began EXCEPT ![r] = now]
    /\ absent' = IF row[KeyOf[r]] = NoRow THEN absent \cup {r} ELSE absent
    /\ UNCHANGED <<now, cache, got, tableVars>>

\* The SELECT reads the row; its answer is still on the way.
LookupReads(r) ==
    /\ pc[r] = "lookup"
    /\ pc' = [pc EXCEPT ![r] = "read"]
    /\ got' = [got EXCEPT ![r] = row[KeyOf[r]]]
    /\ UNCHANGED <<now, cache, began, absent, tableVars>>

\* Slip: an error is taken for an unknown key.
LookupFailsUnknown(r) ==
    /\ pc[r] \in Looking
    /\ pc' = [pc EXCEPT ![r] = "401"]
    /\ UNCHANGED <<now, cache, got, began, absent, tableVars>>

\* Postgres is unreachable, or the client went away.
LookupFails(r) ==
    /\ pc[r] \in Looking
    /\ pc' = [pc EXCEPT ![r] = "503"]
    /\ UNCHANGED <<now, cache, got, began, absent, tableVars>>

NotFound(r) ==
    /\ pc[r] = "read"
    /\ got[r] = NoRow
    /\ pc' = [pc EXCEPT ![r] = "401"]
    /\ UNCHANGED <<now, cache, got, began, absent, tableVars>>

\* Slips: a time to live in the wrong unit, or of the wrong sign.
ExpiryDouble == now + 2 * TTL
ExpiryBackward == now - TTL
Expiry == now + TTL

\* The second critical section stores the row, over whatever is there.
Found(r) ==
    /\ pc[r] = "read"
    /\ got[r] # NoRow
    /\ pc' = [pc EXCEPT ![r] = "served"]
    /\ cache' = [cache EXCEPT ![KeyOf[r]] = [ver |-> got[r], expires |-> Expiry]]
    /\ UNCHANGED <<now, got, began, absent, tableVars>>

-----------------------------------------------------------------------------
(* The tenants table and the clock. *)

Superseded(k) ==
    until' = IF row[k] = NoRow THEN until ELSE [until EXCEPT ![k][row[k]] = now]

\* create-tenant inserts a row; an operator updates one in SQL.
Write(k) ==
    /\ edits[k] < MaxVersion
    /\ edits' = [edits EXCEPT ![k] = @ + 1]
    /\ row' = [row EXCEPT ![k] = edits[k] + 1]
    /\ Superseded(k)
    /\ UNCHANGED <<now, cache, pc, got, began, absent>>

\* An operator revokes the key.
Delete(k) ==
    /\ row[k] # NoRow
    /\ row' = [row EXCEPT ![k] = NoRow]
    /\ Superseded(k)
    /\ absent' = absent \cup {r \in Requests : KeyOf[r] = k /\ pc[r] \in Looking}
    /\ UNCHANGED <<now, edits, cache, pc, got, began>>

Tick ==
    /\ now < MaxTime
    /\ \A r \in Requests : pc[r] \in Looking => now < began[r] + MaxLookup
    /\ now' = now + 1
    /\ UNCHANGED <<cache, pc, got, began, absent, tableVars>>

\* Every request is answered.
Finished ==
    /\ \A r \in Requests : pc[r] \in {"served", "401", "503"}
    /\ UNCHANGED vars

-----------------------------------------------------------------------------
Middleware(r) ==
    \/ Malformed(r) \/ CacheHit(r) \/ CacheMiss(r)
    \/ LookupReads(r) \/ LookupFails(r) \/ NotFound(r) \/ Found(r)

Next ==
    \/ \E r \in Requests : Middleware(r)
    \/ \E k \in Keys : Write(k) \/ Delete(k)
    \/ Tick
    \/ Finished

Spec == Init /\ [][Next]_vars

-----------------------------------------------------------------------------
Serves(r) == pc[r] # "served" /\ pc'[r] = "served"

(***************************************************************************)
(* A request is served with a row that exists or that stopped being        *)
(* current less than one TTL plus one lookup ago, however lookups overlap  *)
(* and overwrite each other's entries (resolve).                           *)
(***************************************************************************)
StalenessBounded ==
    [][\A r \in Requests : Serves(r) =>
         /\ got'[r] # NoRow
         /\ now < until[KeyOf[r]][got'[r]] + TTL + MaxLookup]_vars

(***************************************************************************)
(* A well-formed key is refused as unknown only if the table lacked it at  *)
(* some moment while the request was under way: a new tenant's key works   *)
(* at once (only positive results are cached) and an outage is no 401.     *)
(***************************************************************************)
RefusedWasUnknown ==
    \A r \in Requests : pc[r] = "401" /\ KeyOf[r] \in Keys => r \in absent

(***************************************************************************)
(* Why StalenessBounded holds: an entry expires within one TTL and one     *)
(* lookup of the moment its row stopped being current, even when a slow    *)
(* lookup stores a row that was edited meanwhile.                          *)
(***************************************************************************)
EntriesExpire ==
    \A k \in Keys : cache[k] # NoEntry =>
        /\ cache[k].ver \in Versions
        /\ cache[k].expires <= until[k][cache[k].ver] + TTL + MaxLookup
=============================================================================
