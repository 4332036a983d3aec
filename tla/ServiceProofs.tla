--------------------------- MODULE ServiceProofs ---------------------------
(***************************************************************************)
(* Proofs about service discovery, for any set of nodes, data, loads and   *)
(* goroutines: a heartbeat that finds the hash unchanged may skip the puts *)
(* (ServiceLife), the status of a node does not flap (NodeHealth), and a   *)
(* node that has gone stays marked in the cache (RCache).                  *)
(*                                                                         *)
(* ServiceLife.  Until Run closes ex at most one goroutine is in Register  *)
(* (OneAtATime): the first call ends before the loop starts, and Run waits *)
(* while the loop calls.  So the keys agree with what the client remembers *)
(* except between the first put and the save (KeysFollow), and what has    *)
(* been put in between is under a lease that is alive.                     *)
(***************************************************************************)
EXTENDS MCDiscovery, TLAPS

Places == {"idle", "keep", "compare", "grant", "put", "save", "clear", "delete"}

\* The part of TypeOK that the proof needs.
Shapes ==
  /\ pc \in [Proc -> Places]
  /\ srv \in Data
  /\ key \in [Node -> [data : Data \cup {None}, lease : Nat]]
  /\ data \in [Proc -> Data \cup {None}]
  /\ lgr \in [Proc -> Nat]
  /\ todo \in [Proc -> SUBSET Node]
  /\ granted \in Nat

OneAtATime ==
  /\ mpc \in {"start", "registering"} => lpc = "none" /\ ~ex
  /\ mpc = "wait" => ~ex
  /\ mpc = "deregistering" => ex
  /\ mpc = "returned" /\ ~ex => lpc = "none"
  /\ pc[Main] # "idle" => mpc \in {"registering", "deregistering"}
  /\ pc[Main] \in {"clear", "delete"} => ex
  /\ pc[Loop] # "idle" => lpc = "registering"
  /\ pc[Loop] \notin {"clear", "delete"}

\* Leases are numbered as they are granted, and there are none without a TTL.
Numbered ==
  /\ alive \subseteq 1..granted /\ leases \in 0..granted
  /\ \A p \in Proc : lgr[p] \in 0..granted
  /\ ~hasTTL => leases = NoLease /\ \A p \in Proc : lgr[p] = NoLease /\ pc[p] # "grant"
  /\ \A p \in Proc : pc[p] = "grant" => todo[p] = Node

Putting(p) == pc[p] \in {"put", "save"}

\* What p has put so far is there, under a lease that lives.
PutSoFar(p) ==
  /\ lgr[p] = NoLease \/ lgr[p] \in alive
  /\ hasTTL => lgr[p] # NoLease
  /\ \A n \in Node \ todo[p] : key[n] = [data |-> data[p], lease |-> lgr[p]]
  /\ pc[p] = "save" => todo[p] = {}

Lost == leases # NoLease /\ leases \notin alive
Remembered == \A n \in Node : key[n] = [data |-> register, lease |-> leases]

KeysFollow ==
  ~putsFail /\ ~ex =>
    /\ \A p \in Proc : Putting(p) => PutSoFar(p)
    /\ (\A p \in Proc : ~Putting(p)) /\ register # None => Lost \/ Remembered

IInv == OneAtATime /\ Numbered /\ KeysFollow

-----------------------------------------------------------------------------
\* The steps of the calls keep the types.
LEMMA CallTypes ==
  ASSUME RegistryAssumption, RegTypeOK, NEW p \in Proc, CallStep(p)
  PROVE  RegTypeOK'
<1> DEFINE Lgr == Lease \cup {NoLease}
           Keys == [Node -> [data : Data \cup {None}, lease : Lgr]]
           Local == /\ pc \in [Proc -> Places] /\ result \in [Proc -> {"none", "ok", "err"}]
                    /\ data \in [Proc -> Data \cup {None}] /\ lgr \in [Proc -> Lgr]
                    /\ todo \in [Proc -> SUBSET Node] /\ notFound \in [Proc -> BOOLEAN]
           Shared == /\ hasTTL \in BOOLEAN /\ putsFail \in BOOLEAN /\ key \in Keys
                     /\ alive \subseteq Lease /\ granted \in 0..MaxLeases /\ errors \in 0..MaxErrors
                     /\ srv \in Data /\ register \in Data \cup {None} /\ leases \in Lgr
<1>1. Local /\ Shared
  BY Zenon DEF RegTypeOK, Places
<1>2. NoLease \in Lgr /\ None \in Data \cup {None} /\ Absent \in [data : Data \cup {None}, lease : Lgr]
  BY Zenon DEF Absent
<1>3. ASSUME Error PROVE errors' \in 0..MaxErrors
  BY <1>1, <1>3 DEF Error, RegistryAssumption
<1>4. ASSUME NEW r \in {"ok", "err"}, Return(p, r) PROVE Local'
  BY Zenon, <1>1, <1>2, <1>4 DEF Return, Goto, Places
<1>5. ASSUME NEW n \in Node, PutKey(p, n) PROVE key' \in Keys
  BY Zenon, <1>1, <1>5 DEF PutKey
<1>6. ASSUME NEW n \in Node, key' = [key EXCEPT ![n] = Absent] PROVE key' \in Keys
  BY Zenon, <1>1, <1>2, <1>6
<1>7. ASSUME Local', Shared' PROVE RegTypeOK'
  BY Zenon, <1>7 DEF RegTypeOK, Places
<1> USE DEF setting, etcd, client, locals
<1>8. CASE KeepAlive(p)
  <2>1. Local'
    BY Zenon, <1>1, <1>4, <1>8 DEF KeepAlive, Goto, Places
  <2>2. Shared'
    BY Zenon, <1>1, <1>3, <1>8 DEF KeepAlive
  <2> QED
    BY Zenon, <1>7, <2>1, <2>2
<1>9. CASE Compare(p)
  <2>1. Local'
    BY Zenon, <1>1, <1>4, <1>9 DEF Compare, Goto, Places
  <2>2. Shared'
    BY Zenon, <1>1, <1>9 DEF Compare
  <2> QED
    BY Zenon, <1>7, <2>1, <2>2
<1>10. CASE Grant(p)
  <2>1. CASE granted < MaxLeases
    <3>1. granted + 1 \in Lease /\ granted + 1 \in 0..MaxLeases
      BY <1>1, <2>1 DEF Lease, RegistryAssumption
    <3>2. Local'
      <4>1. /\ lgr' = [lgr EXCEPT ![p] = granted + 1] /\ pc' = [pc EXCEPT ![p] = "put"]
            /\ UNCHANGED <<result, data, todo, notFound>>
        BY Zenon, <1>10, <2>1 DEF Grant, Goto
      <4>2. lgr' \in [Proc -> Lgr] /\ pc' \in [Proc -> Places]
        BY Zenon, <1>1, <3>1, <4>1 DEF Places
      <4> QED
        BY Zenon, <1>1, <4>1, <4>2
    <3>3. Shared'
      BY Zenon, <1>1, <1>10, <2>1, <3>1 DEF Grant
    <3> QED
      BY Zenon, <1>7, <3>2, <3>3
  <2>2. CASE ~(granted < MaxLeases)
    <3>1. Local'
      BY Zenon, <1>4, <1>10, <2>2 DEF Grant
    <3>2. Shared'
      BY Zenon, <1>1, <1>10, <2>2 DEF Grant
    <3> QED
      BY Zenon, <1>7, <3>1, <3>2
  <2> QED
    BY Zenon, <2>1, <2>2
<1>11. CASE Put(p)
  <2>1. PICK n \in todo[p] :
          \/ /\ PutKey(p, n) /\ todo' = [todo EXCEPT ![p] = @ \ {n}]
             /\ Goto(p, IF todo'[p] = {} THEN "save" ELSE "put")
             /\ UNCHANGED <<errors, result, data, lgr, notFound>>
          \/ Error /\ Return(p, "err") /\ (PutKey(p, n) \/ UNCHANGED key)
          \/ Return(p, "err") /\ UNCHANGED <<key, errors>>
    BY Zenon, <1>11 DEF Put
  <2>2. n \in Node
    BY Zenon, <1>1
  <2>3. Local'
    <3>1. ASSUME todo' = [todo EXCEPT ![p] = @ \ {n}], NEW l \in {"save", "put"}, Goto(p, l),
                 UNCHANGED <<errors, result, data, lgr, notFound>>
          PROVE  Local'
      <4>1. todo' \in [Proc -> SUBSET Node] /\ pc' \in [Proc -> Places]
        BY Zenon, <1>1, <3>1 DEF Goto, Places
      <4> QED
        BY Zenon, <1>1, <3>1, <4>1
    <3>2. (IF todo'[p] = {} THEN "save" ELSE "put") \in {"save", "put"}
      BY Zenon
    <3> QED
      BY Zenon, <1>4, <2>1, <3>1, <3>2
  <2>4. key' \in Keys /\ errors' \in 0..MaxErrors
    BY Zenon, <1>1, <1>3, <1>5, <2>1, <2>2
  <2>5. Shared'
    BY Zenon, <1>1, <1>11, <2>4 DEF Put
  <2> QED
    BY Zenon, <1>7, <2>3, <2>5
<1>12. CASE Save(p)
  <2>1. Local'
    BY Zenon, <1>4, <1>12 DEF Save
  <2>2. Shared'
    BY Zenon, <1>1, <1>12 DEF Save
  <2> QED
    BY Zenon, <1>7, <2>1, <2>2
<1>13. CASE Clear(p)
  <2>1. Local'
    BY Zenon, <1>1, <1>13 DEF Clear, Goto, Places
  <2>2. Shared'
    BY Zenon, <1>1, <1>2, <1>13 DEF Clear
  <2> QED
    BY Zenon, <1>7, <2>1, <2>2
<1>14. CASE Delete(p)
  <2>1. PICK n \in todo[p] :
          /\ key' = [key EXCEPT ![n] = Absent] \/ UNCHANGED key
          /\ Error \/ UNCHANGED errors
          /\ \/ \E r \in {"ok", "err"} : Return(p, r)
             \/ todo' = [todo EXCEPT ![p] = @ \ {n}] /\ UNCHANGED <<pc, result, data, lgr, notFound>>
    BY Zenon, <1>14 DEF Delete
  <2>2. n \in Node
    BY Zenon, <1>1
  <2>3. Local'
    BY Zenon, <1>1, <1>4, <2>1
  <2>4. key' \in Keys /\ errors' \in 0..MaxErrors
    BY Zenon, <1>1, <1>3, <1>6, <2>1, <2>2
  <2>5. Shared'
    BY Zenon, <1>1, <1>14, <2>4 DEF Delete
  <2> QED
    BY Zenon, <1>7, <2>3, <2>5
<1> QED
  BY Zenon, <1>8, <1>9, <1>10, <1>11, <1>12, <1>13, <1>14 DEF CallStep

\* So does every step.
LEMMA TypeStep ==
  ASSUME RegistryAssumption, ProcsAssumption, TypeOK, [Next]_vars
  PROVE  TypeOK'
<1>1. CASE \E p \in Proc : Step(p)
  BY Zenon, <1>1, CallTypes DEF TypeOK, Step, lifeVars
<1>2. CASE Env
  <2>1. CASE Change
    <3>1. /\ srv' \in Data
          /\ UNCHANGED <<hasTTL, putsFail, key, alive, granted, errors, register, leases, pc, result, data,
                         lgr, todo, notFound>>
      BY Zenon, <2>1 DEF Change, etcd, setting, client, locals
    <3>2. RegTypeOK'
      BY Zenon, <3>1 DEF TypeOK, RegTypeOK
    <3> QED
      BY Zenon, <1>2, <3>2 DEF Env, TypeOK, lifeVars
  <2>2. ASSUME NEW l \in Lease, LeaseExpires(l)
        PROVE  TypeOK'
    <3>1. key' \in [Node -> [data : Data \cup {None}, lease : Lease \cup {NoLease}]]
      BY Zenon, <2>2 DEF LeaseExpires, TypeOK, RegTypeOK, Absent
    <3>2. alive' \subseteq Lease
      BY Zenon, <2>2 DEF LeaseExpires, TypeOK, RegTypeOK
    <3>3. UNCHANGED <<hasTTL, putsFail, granted, errors, srv, register, leases, pc, result, data, lgr,
                      todo, notFound>>
      BY Zenon, <2>2 DEF LeaseExpires, setting, client, locals
    <3>4. RegTypeOK'
      BY Zenon, <3>1, <3>2, <3>3 DEF TypeOK, RegTypeOK
    <3> QED
      BY Zenon, <1>2, <3>4 DEF Env, TypeOK, lifeVars
  <2> QED
    BY Zenon, <1>2, <2>1, <2>2 DEF Env
<1>3. ASSUME NEW p \in Proc, NEW l \in {"keep", "clear"}, Call(p, l), TypeOK PROVE RegTypeOK'
  BY Zenon, <1>3 DEF Call, Goto, TypeOK, RegTypeOK, etcd, setting, client, locals
<1>4. Main \in Proc /\ Loop \in Proc
  BY Zenon DEF ProcsAssumption
<1>5. CASE Start \/ Leave \/ LoopTick
  BY Zenon, <1>3, <1>4, <1>5 DEF Start, Leave, LoopTick, TypeOK
<1>6. CASE Registered \/ Deregistered \/ LoopRegistered \/ LoopExit \/ UNCHANGED vars
  <2>1. RegTypeOK'
    BY Zenon, <1>6 DEF Registered, Deregistered, LoopRegistered, LoopExit, vars, regVars, TypeOK, RegTypeOK
  <2> QED
    BY Zenon, <1>6, <2>1 DEF Registered, Deregistered, LoopRegistered, LoopExit, vars, lifeVars, TypeOK
<1> QED
  BY Zenon, <1>1, <1>2, <1>5, <1>6 DEF Next

\* A lease is a number, and 0 is none.
LEMMA Shaped == ASSUME RegistryAssumption, TypeOK PROVE Shapes
<1>1. Lease \cup {NoLease} \subseteq Nat /\ 0..MaxLeases \subseteq Nat
  BY DEF Lease, NoLease
<1>2. /\ key \in [Node -> [data : Data \cup {None}, lease : Lease \cup {NoLease}]]
      /\ lgr \in [Proc -> Lease \cup {NoLease}] /\ granted \in 0..MaxLeases /\ srv \in Data
      /\ pc \in [Proc -> Places] /\ data \in [Proc -> Data \cup {None}] /\ todo \in [Proc -> SUBSET Node]
  BY Zenon DEF TypeOK, RegTypeOK, Places
<1>3. [data : Data \cup {None}, lease : Lease \cup {NoLease}] \subseteq [data : Data \cup {None}, lease : Nat]
  BY <1>1
<1>4. key \in [Node -> [data : Data \cup {None}, lease : Nat]] /\ lgr \in [Proc -> Nat] /\ granted \in Nat
  BY Zenon, <1>1, <1>2, <1>3
<1> QED
  BY Zenon, <1>2, <1>4 DEF Shapes

-----------------------------------------------------------------------------
\* Whose turn it is: a call goes on, or returns, and Register never deletes.
LEMMA CallControl ==
  ASSUME ProcsAssumption, Shapes, OneAtATime, NEW p \in Proc, CallStep(p),
         UNCHANGED lifeVars
  PROVE  OneAtATime'
<1>1. /\ pc[p] # "idle"
      /\ pc' = [pc EXCEPT ![p] = pc'[p]]
      /\ pc'[p] = "delete" => pc[p] \in {"clear", "delete"}
      /\ pc'[p] # "clear"
  BY ZenonT(30) DEF CallStep, KeepAlive, Compare, Grant, Put, Save, Clear, Delete, Goto, Return, Shapes
<1>2. QED  BY Zenon, <1>1 DEF ProcsAssumption, OneAtATime, Shapes, lifeVars

\* No other goroutine is in a call while one is, before ex is closed.
LEMMA Alone ==
  ASSUME ProcsAssumption, OneAtATime, ~ex, NEW p \in Proc, pc[p] # "idle",
         NEW q \in Proc, q # p
  PROVE  pc[q] = "idle"
BY DEF ProcsAssumption, OneAtATime

\* A grant takes the next number, and only with a TTL.
LEMMA CallNumbers ==
  ASSUME Shapes, Numbered, NEW p \in Proc, CallStep(p)
  PROVE  Numbered'
<1> USE DEF Numbered, Shapes, NoLease, Goto, Return, setting, etcd, client, locals
<1>1. CASE KeepAlive(p)  BY <1>1 DEF KeepAlive
<1>2. CASE Compare(p)  BY <1>2 DEF Compare
<1>3. CASE Grant(p)
  <2>1. CASE granted < MaxLeases
    <3>1. /\ granted' = granted + 1 /\ alive' = alive \cup {granted + 1}
          /\ lgr' = [lgr EXCEPT ![p] = granted + 1]
          /\ pc' = [pc EXCEPT ![p] = "put"] /\ UNCHANGED <<hasTTL, leases, todo>>
      BY Zenon, <1>3, <2>1 DEF Grant
    <3>2. hasTTL
      BY Zenon, <1>3 DEF Grant
    <3>3. QED  BY <3>1, <3>2
  <2>2. CASE ~(granted < MaxLeases)
    <3>1. /\ UNCHANGED <<granted, alive, hasTTL, leases>>
          /\ lgr' = [lgr EXCEPT ![p] = 0] /\ pc' = [pc EXCEPT ![p] = "idle"]
          /\ todo' = [todo EXCEPT ![p] = {}]
      BY Zenon, <1>3, <2>2 DEF Grant
    <3>2. QED  BY <3>1
  <2>3. QED  BY Zenon, <2>1, <2>2
<1>4. CASE Put(p)
  <2>1. /\ UNCHANGED <<granted, alive, hasTTL, leases>>
        /\ \A q \in Proc : q # p => lgr'[q] = lgr[q] /\ pc'[q] = pc[q] /\ todo'[q] = todo[q]
    BY Zenon, <1>4 DEF Put
  <2>2. (lgr'[p] = lgr[p] \/ lgr'[p] = 0) /\ pc'[p] # "grant"
    BY Zenon, <1>4 DEF Put
  <2>3. 0 \in 0..granted
    OBVIOUS
  <2>4. \A q \in Proc : /\ lgr'[q] = lgr[q] \/ lgr'[q] = 0
                        /\ pc'[q] = "grant" => pc[q] = "grant" /\ todo'[q] = todo[q]
    BY Zenon, <2>1, <2>2
  <2>5. \A q \in Proc : lgr'[q] \in 0..granted
    BY Zenon, <2>3, <2>4
  <2>6. ~hasTTL => \A q \in Proc : lgr'[q] = 0 /\ pc'[q] # "grant"
    BY Zenon, <2>4
  <2>7. \A q \in Proc : pc'[q] = "grant" => todo'[q] = Node
    BY Zenon, <2>4
  <2>8. QED  BY Zenon, <2>1, <2>5, <2>6, <2>7
<1>5. CASE Save(p)  BY <1>5 DEF Save
<1>6. CASE Clear(p)  BY <1>6 DEF Clear
<1>7. CASE Delete(p)  BY <1>7 DEF Delete
<1>8. QED  BY Zenon, <1>1, <1>2, <1>3, <1>4, <1>5, <1>6, <1>7 DEF CallStep

-----------------------------------------------------------------------------
\* The steps of a call: the puts begin under a living lease and end with the save of
\* what they put.
LEMMA CallKeys ==
  ASSUME ProcsAssumption, Shapes, OneAtATime, Numbered, KeysFollow,
         NEW p \in Proc, CallStep(p), UNCHANGED lifeVars
  PROVE  KeysFollow'
<1> SUFFICES ASSUME ~putsFail', ~ex'
             PROVE  /\ \A q \in Proc : Putting(q)' => PutSoFar(q)'
                    /\ (\A q \in Proc : ~Putting(q)') /\ register' # None =>
                         Lost' \/ Remembered'
  BY Zenon DEF KeysFollow
<1>1. ~putsFail /\ ~ex
  <2>1. putsFail' = putsFail
    BY Zenon DEF CallStep, KeepAlive, Compare, Grant, Put, Save, Clear, Delete, setting, etcd
  <2>2. QED  BY Zenon, <2>1 DEF lifeVars
<1> USE DEF Shapes, NoLease
<1>2. /\ \A q \in Proc : Putting(q) => PutSoFar(q)
      /\ (\A q \in Proc : ~Putting(q)) /\ register # None => Lost \/ Remembered
  BY Zenon, <1>1 DEF KeysFollow
<1>3. pc[p] # "idle" /\ pc[p] \notin {"clear", "delete"}
  BY Zenon, <1>1 DEF CallStep, KeepAlive, Compare, Grant, Put, Save, Clear, Delete,
              OneAtATime, ProcsAssumption
<1>4. \A q \in Proc : q # p => pc[q] = "idle"
  BY Zenon, <1>1, <1>3, Alone
<1>5. \A q \in Proc : q # p => pc'[q] = "idle"
  BY Zenon, <1>4 DEF CallStep, KeepAlive, Compare, Grant, Put, Save, Clear, Delete, Goto, Return
<1>6. CASE KeepAlive(p)
  <2>1. ~Putting(p) /\ ~Putting(p)' /\ UNCHANGED <<register, leases, key, alive>>
    BY Zenon, <1>6 DEF KeepAlive, Putting, Goto, Return, client
  <2>2. QED  BY Zenon, <1>2, <1>4, <1>5, <2>1 DEF Putting, Lost, Remembered
<1>7. CASE Compare(p)
  <2>1. ~Putting(p) /\ UNCHANGED <<register, leases, key, alive, hasTTL>>
    BY Zenon, <1>7 DEF Compare, Putting, client, etcd, setting
  <2>2. CASE ~Putting(p)'
    BY Zenon, <1>2, <1>4, <1>5, <2>1, <2>2 DEF Putting, Lost, Remembered
  <2>3. CASE Putting(p)'
    <3>1. ~hasTTL /\ pc'[p] = "put" /\ todo'[p] = Node /\ lgr' = lgr
      BY Zenon, <1>7, <2>3 DEF Compare, Putting, Goto, Return
    <3>2. lgr[p] = 0
      BY Zenon, <3>1 DEF Numbered
    <3>3. PutSoFar(p)'
      BY Zenon, <2>1, <3>1, <3>2 DEF PutSoFar
    <3>4. QED  BY Zenon, <1>5, <2>3, <3>3 DEF Putting
  <2>4. QED  BY Zenon, <2>2, <2>3
<1>8. CASE Grant(p)
  <2>1. CASE granted < MaxLeases
    <3>1. /\ lgr'[p] \in alive' /\ lgr'[p] # 0 /\ pc'[p] = "put" /\ todo'[p] = todo[p]
      BY <1>8, <2>1 DEF Grant, Goto
    <3>2. PutSoFar(p)'
      BY Zenon, <1>8, <3>1 DEF Grant, Numbered, PutSoFar
    <3>3. QED  BY Zenon, <1>5, <3>1, <3>2 DEF Putting
  <2>2. CASE ~(granted < MaxLeases)
    <3>1. ~Putting(p) /\ ~Putting(p)' /\ UNCHANGED <<register, leases, key, alive>>
      BY Zenon, <1>8, <2>2 DEF Grant, Putting, Goto, Return, client
    <3>2. QED  BY Zenon, <1>2, <1>4, <1>5, <3>1 DEF Putting, Lost, Remembered
  <2>3. QED  BY Zenon, <2>1, <2>2
<1>9. CASE Put(p)
  <2>1. PICK n \in todo[p] :
          /\ key' = [key EXCEPT ![n] = [data |-> data[p], lease |-> lgr[p]]]
          /\ todo' = [todo EXCEPT ![p] = @ \ {n}]
          /\ pc' = [pc EXCEPT ![p] = IF todo'[p] = {} THEN "save" ELSE "put"]
          /\ UNCHANGED <<data, lgr, alive, hasTTL>>
    BY Zenon, <1>1, <1>2, <1>9 DEF Put, PutKey, Putting, PutSoFar, Goto, setting
  <2>2. PutSoFar(p)
    BY Zenon, <1>2, <1>9 DEF Put, Putting
  <2>3. PutSoFar(p)' /\ Putting(p)'
    BY Zenon, <2>1, <2>2 DEF PutSoFar, Putting
  <2>4. QED  BY Zenon, <1>5, <2>3 DEF Putting
<1>10. CASE Save(p)
  <2>1. PutSoFar(p) /\ todo[p] = {}
    BY Zenon, <1>2, <1>10 DEF Save, Putting, PutSoFar
  <2>2. leases' = lgr[p]
    BY Zenon, <1>10, <2>1 DEF Save, Numbered
  <2>3. Remembered' /\ ~Putting(p)'
    BY Zenon, <1>10, <2>1, <2>2 DEF Save, Remembered, PutSoFar, Putting, Return, Goto, etcd
  <2>4. QED  BY Zenon, <1>5, <2>3 DEF Putting
<1>11. QED
  BY Zenon, <1>3, <1>6, <1>7, <1>8, <1>9, <1>10 DEF CallStep, Clear, Delete

-----------------------------------------------------------------------------
\* A lease ends: the one the client remembers is then lost, any other leaves the
\* keys under the remembered one alone.
LEMMA ExpiryStep ==
  ASSUME Shapes, IInv, NEW l \in Lease, LeaseExpires(l), UNCHANGED lifeVars
  PROVE  IInv'
<1> USE DEF LeaseExpires, setting, client, locals, lifeVars
<1>1. OneAtATime' /\ Numbered'
  BY Zenon DEF IInv, OneAtATime, Numbered
<1>2. KeysFollow'
  <2> SUFFICES ASSUME ~putsFail, ~ex
               PROVE  /\ \A p \in Proc : Putting(p) => PutSoFar(p)'
                      /\ (\A p \in Proc : ~Putting(p)) /\ register # None =>
                           Lost' \/ Remembered'
    BY Zenon DEF KeysFollow, Putting
  <2>1. ASSUME NEW p \in Proc, Putting(p)  PROVE PutSoFar(p)'
    <3>1. PutSoFar(p) /\ lgr[p] # l
      BY Zenon, <2>1 DEF IInv, KeysFollow
    <3>2. QED  BY <3>1 DEF IInv, Shapes, PutSoFar
  <2>2. ASSUME \A p \in Proc : ~Putting(p), register # None  PROVE Lost' \/ Remembered'
    <3>1. Lost \/ Remembered
      BY Zenon, <2>2 DEF IInv, KeysFollow
    <3>2. l # NoLease
      BY DEF IInv, Numbered, Shapes, NoLease
    <3>3. CASE leases = l  BY Zenon, <3>2, <3>3 DEF Lost
    <3>4. CASE leases # l  BY <3>1, <3>4 DEF Lost, Remembered, IInv, Shapes
    <3>5. QED  BY Zenon, <3>3, <3>4
  <2>3. QED  BY Zenon, <2>1, <2>2
<1>3. QED  BY Zenon, <1>1, <1>2 DEF IInv

\* A goroutine goes on between two calls, or begins one: the keys, the leases and
\* what the client remembers stay.
LEMMA BetweenCalls ==
  ASSUME IInv,
         UNCHANGED <<hasTTL, putsFail, key, alive, granted, register, leases, data, lgr, todo>>,
         pc' \in [Proc -> Places], ex => ex',
         \A p \in Proc : pc'[p] = pc[p] \/ (pc[p] = "idle" /\ pc'[p] \in {"keep", "clear"})
  PROVE  Numbered' /\ KeysFollow'
<1>1. \A p \in Proc : (pc'[p] \in {"put", "save", "grant"} \/ pc[p] \in {"put", "save", "grant"})
                       => pc'[p] = pc[p]
  BY Zenon
<1>2. Numbered'
  BY Zenon, <1>1 DEF IInv, Numbered
<1>3. KeysFollow'
  BY Zenon, <1>1 DEF IInv, KeysFollow, Putting, PutSoFar, Lost, Remembered
<1>4. QED  BY Zenon, <1>2, <1>3

\* Run and its loop between their calls.
LEMMA LifeStep ==
  ASSUME ProcsAssumption, Shapes, IInv,
         \/ Start \/ Registered \/ Leave \/ Deregistered
         \/ LoopTick \/ LoopRegistered \/ LoopExit
         \/ Change /\ UNCHANGED lifeVars
  PROVE  IInv'
<1>1. UNCHANGED <<hasTTL, putsFail, key, alive, granted, register, leases, data, lgr, todo>>
  BY Zenon DEF Start, Registered, Leave, Deregistered, LoopTick, LoopRegistered, LoopExit, Change,
         Call, etcd, regVars, setting, client, locals
<1>2. ex => ex'
  BY Zenon DEF Start, Registered, Leave, Deregistered, LoopTick, LoopRegistered, LoopExit, lifeVars
<1>3. /\ pc' \in [Proc -> Places]
      /\ \A p \in Proc : pc'[p] = pc[p] \/ (pc[p] = "idle" /\ pc'[p] \in {"keep", "clear"})
  <2>1. \/ pc' = pc
        \/ \E p \in Proc : \E l \in {"keep", "clear"} :
             pc[p] = "idle" /\ pc' = [pc EXCEPT ![p] = l]
    BY Zenon DEF ProcsAssumption, Start, Registered, Leave, Deregistered, LoopTick,
           LoopRegistered, LoopExit, Change, Call, Goto, regVars
  <2>2. pc \in [Proc -> Places]
    BY Zenon DEF Shapes
  <2>3. CASE pc' = pc  BY Zenon, <2>2, <2>3
  <2>4. ASSUME NEW p \in Proc, NEW l \in {"keep", "clear"},
               pc[p] = "idle", pc' = [pc EXCEPT ![p] = l]
        PROVE  /\ pc' \in [Proc -> Places]
               /\ \A q \in Proc : pc'[q] = pc[q] \/ (pc[q] = "idle" /\ pc'[q] \in {"keep", "clear"})
    BY Zenon, <2>2, <2>4 DEF Places
  <2>5. QED  BY Zenon, <2>1, <2>3, <2>4
<1>4. OneAtATime'
  <2>1. OneAtATime /\ pc \in [Proc -> Places] /\ Main \in Proc /\ Loop \in Proc /\ Main # Loop
    BY Zenon DEF IInv, Shapes, ProcsAssumption
  <2>2. CASE Start
    BY Zenon, <2>1, <2>2 DEF OneAtATime, Start, Call, Goto
  <2>3. CASE Registered
    BY Zenon, <2>1, <2>3 DEF OneAtATime, Registered, regVars
  <2>4. CASE Leave
    BY Zenon, <2>1, <2>4 DEF OneAtATime, Leave, Call, Goto
  <2>5. CASE Deregistered
    BY Zenon, <2>1, <2>5 DEF OneAtATime, Deregistered, regVars
  <2>6. CASE LoopTick
    BY Zenon, <2>1, <2>6 DEF OneAtATime, LoopTick, Call, Goto
  <2>7. CASE LoopRegistered
    BY Zenon, <2>1, <2>7 DEF OneAtATime, LoopRegistered, regVars
  <2>8. CASE LoopExit
    BY Zenon, <2>1, <2>8 DEF OneAtATime, LoopExit, regVars
  <2>9. CASE Change /\ UNCHANGED lifeVars
    BY Zenon, <2>1, <2>9 DEF OneAtATime, Change, lifeVars, regVars
  <2> QED
    BY Zenon, <2>2, <2>3, <2>4, <2>5, <2>6, <2>7, <2>8, <2>9
<1>5. Numbered' /\ KeysFollow'
  BY Zenon, <1>1, <1>2, <1>3, BetweenCalls
<1>6. QED  BY Zenon, <1>4, <1>5 DEF IInv

\* The invariant holds in every state.
LEMMA IInvHolds ==
  ASSUME RegistryAssumption, ProcsAssumption
  PROVE  Spec => [](TypeOK /\ IInv)
<1>1. Init => TypeOK
  <2>1. 0 \in 0..MaxLeases /\ 0 \in 0..MaxErrors
    BY DEF RegistryAssumption
  <2>2. Absent \in [data : Data \cup {None}, lease : Lease \cup {NoLease}]
    BY Zenon DEF Absent
  <2>3. Init => key \in [Node -> [data : Data \cup {None}, lease : Lease \cup {NoLease}]]
    <3>1. [n \in Node |-> Absent] \in [Node -> [data : Data \cup {None}, lease : Lease \cup {NoLease}]]
      BY Zenon, <2>2
    <3> QED
      BY Zenon, <3>1 DEF Init, RegInit
  <2>4. Init => lgr \in [Proc -> Lease \cup {NoLease}] /\ todo \in [Proc -> SUBSET Node]
    BY Zenon DEF Init, RegInit
  <2>5. Init => /\ alive \subseteq Lease /\ granted \in 0..MaxLeases /\ errors \in 0..MaxErrors
                /\ register \in Data \cup {None} /\ leases \in Lease \cup {NoLease}
    BY Zenon, <2>1 DEF Init, RegInit
  <2>6. Init => /\ pc \in [Proc -> Places] /\ result \in [Proc -> {"none", "ok", "err"}]
                /\ data \in [Proc -> Data \cup {None}] /\ notFound \in [Proc -> BOOLEAN]
    BY Zenon DEF Init, RegInit, Places
  <2> QED
    BY Zenon, <2>3, <2>4, <2>5, <2>6 DEF Init, RegInit, TypeOK, RegTypeOK, Places
<1>2. Init => IInv
  <2>1. Init => OneAtATime
    BY Zenon DEF Init, RegInit, OneAtATime, ProcsAssumption
  <2>2. Init => Numbered
    BY DEF Init, RegInit, Numbered, NoLease, Absent
  <2>3. Init => KeysFollow
    BY Zenon DEF Init, RegInit, KeysFollow, Putting
  <2> QED
    BY Zenon, <2>1, <2>2, <2>3 DEF IInv
<1>3. TypeOK /\ IInv /\ [Next]_vars => TypeOK' /\ IInv'
  <2> SUFFICES ASSUME TypeOK, IInv, [Next]_vars  PROVE TypeOK' /\ IInv'
    BY Zenon
  <2>0. TypeOK' /\ Shapes
    BY Zenon, TypeStep, Shaped
  <2>1. CASE \E p \in Proc : Step(p)
    BY Zenon, <2>0, <2>1, CallControl, CallNumbers, CallKeys DEF IInv, Step
  <2>2. CASE \E l \in Lease : LeaseExpires(l) /\ UNCHANGED lifeVars
    BY Zenon, <2>0, <2>2, ExpiryStep
  <2>3. CASE \/ Start \/ Registered \/ Leave \/ Deregistered
             \/ LoopTick \/ LoopRegistered \/ LoopExit
             \/ Change /\ UNCHANGED lifeVars
    BY Zenon, <2>0, <2>3, LifeStep
  <2>4. CASE UNCHANGED vars
    <3>1. OneAtATime' /\ Numbered'
      BY Zenon, <2>4 DEF vars, regVars, lifeVars, IInv, OneAtATime, Numbered
    <3>2. KeysFollow'
      BY Zenon, <2>4 DEF vars, regVars, lifeVars, IInv, KeysFollow, Putting, PutSoFar, Lost, Remembered
    <3> QED
      BY Zenon, <2>0, <3>1, <3>2 DEF IInv
  <2>5. QED  BY Zenon, <2>0, <2>1, <2>2, <2>3, <2>4 DEF Next, Env
<1>4. QED  BY <1>1, <1>2, <1>3, PTL DEF Spec

(***************************************************************************)
(* Register of etcdv3.go: when puts are answered, a heartbeat that skips   *)
(* before the end of Run finds every node in etcd as it is, under the      *)
(* remembered lease, or that lease has ended since it was kept alive.      *)
(***************************************************************************)
THEOREM Skipping ==
  ASSUME RegistryAssumption, ProcsAssumption
  PROVE  Spec => SkipIsSound
<1>1. TypeOK /\ IInv /\ [Next]_vars => [~putsFail => SoundSkip]_vars
  <2> SUFFICES ASSUME TypeOK, IInv, ~putsFail, NEW p \in Proc, Compare(p), Skip(p), ~ex
               PROVE  \/ leases # NoLease /\ leases \notin alive
                      \/ \A n \in Node : key[n] = [data |-> srv, lease |-> leases]
    BY Zenon DEF SoundSkip
  <2>1. pc[p] = "compare" /\ register = srv
    BY Zenon DEF Compare, Skip
  <2>2. \A q \in Proc : ~Putting(q)
    BY Zenon, <2>1, Alone DEF IInv, Putting
  <2>3. register # None
    BY Zenon, <2>1 DEF TypeOK, RegTypeOK, RegistryAssumption
  <2> QED
    BY Zenon, <2>1, <2>2, <2>3 DEF IInv, KeysFollow, Lost, Remembered
<1> QED
  BY <1>1, IInvHolds, PTL DEF Spec, SkipIsSound

-----------------------------------------------------------------------------
(***************************************************************************)
(* NodeHealth.  The status remembers on which side of the band the load    *)
(* was at its last move.                                                   *)
(***************************************************************************)

\* The status of an owner that only reports tells on which side of the band the load was
\* when it last moved.
SideOfBand ==
  \A n \in Owner \ Pushing :
    /\ hMeta[n] = "normal" => hLastW[n] = -1 \/ hLastW[n] < Health!DownLimits
    /\ hMeta[n] = "upThresh" => Health!UpLimits < hLastW[n]

HealthInv == Health!TypeOK /\ hLastW \in [Owner -> Int] /\ SideOfBand

\* The limits of SetMaxCalls are numbers.
LEMMA LimitsAreInts == ASSUME Health!HealthAssumption
  PROVE Health!UpLimits \in Int /\ Health!DownLimits \in Int
BY DEF Health!HealthAssumption, Health!UpLimits, Health!DownLimits

\* A status stays one of the two, whatever the load.
LEMMA NewStatusTyped ==
  ASSUME NEW old \in {"normal", "upThresh"}, NEW w
  PROVE Health!NewStatus(old, w) \in {"normal", "upThresh"}
BY Zenon DEF Health!NewStatus

\* What Register puts and remembers has its type, whichever of the calls fail.
LEMMA RegisterAllTyped ==
  ASSUME Health!TypeOK, NEW ns \in SUBSET Owner, NEW stamped \in SUBSET Owner,
         hMeta' \in [Owner -> {"normal", "upThresh"}], Health!RegisterAll(ns, stamped)
  PROVE /\ hReg' \in [Owner -> {"none", "normal", "upThresh"}]
        /\ hHashed' \in [Owner -> {"normal", "upThresh"}]
        /\ hLease' \subseteq Owner /\ hFresh' \subseteq Owner
<1>1. PICK ps \in SUBSET {n \in ns : Health!NeedsPut(n, stamped)} :
        /\ hReg' = [n \in Owner |-> IF n \in ps THEN hMeta'[n] ELSE hReg[n]]
        /\ hHashed' = [n \in Owner |-> IF n \in ps THEN hMeta'[n] ELSE hHashed[n]]
        /\ hLease' = hLease \cup ps /\ hFresh' = stamped \ ps
  BY Zenon DEF Health!RegisterAll
<1>2. ps \subseteq Owner
  BY <1>1, Zenon
<1> QED BY <1>1, <1>2, Zenon DEF Health!TypeOK

\* A step that touches neither status nor load leaves the side of the band.
LEMMA SideKept ==
  ASSUME SideOfBand, UNCHANGED <<hMeta, hLastW>>
  PROVE SideOfBand' /\ \A n \in Owner \ Pushing : hMeta'[n] = hMeta[n]
BY Zenon DEF SideOfBand, Health!UpLimits, Health!DownLimits

Moves ==
  \A n \in Owner \ Pushing : hMeta'[n] # hMeta[n] /\ hLastW[n] # -1 =>
        \/ hLastW[n] < Health!DownLimits /\ Health!UpLimits < hLastW'[n]
        \/ Health!UpLimits < hLastW[n] /\ hLastW'[n] < Health!DownLimits

\* UpdateServiceWithoutSync: a status moves to the side its load is on.
LEMMA ReportKeeps ==
  ASSUME Health!HealthAssumption, HealthInv, NEW m \in Owner, NEW w \in Weights,
         Health!UpdateServiceWithoutSync(m, w)
  PROVE HealthInv' /\ Moves
<1>1. w \in Int /\ w # -1 /\ Health!UpLimits \in Int /\ Health!DownLimits \in Int
  BY LimitsAreInts DEF Health!HealthAssumption
<1>2. /\ hMeta \in [Owner -> {"normal", "upThresh"}]
      /\ hMeta' = [hMeta EXCEPT ![m] = Health!NewStatus(hMeta[m], w)]
      /\ hLastW' = IF hMeta'[m] = hMeta[m] THEN hLastW ELSE [hLastW EXCEPT ![m] = w]
      /\ UNCHANGED <<hPushed, hMonitor, hHashed, hLease, hFresh, hReg>>
  BY Zenon DEF HealthInv, Health!TypeOK, Health!UpdateServiceWithoutSync, Health!regVars
<1>3. hMeta[m] \in {"normal", "upThresh"} /\ hMeta'[m] = Health!NewStatus(hMeta[m], w)
  BY <1>2, Zenon
<1>4. Health!TypeOK'
  <2>1. hMeta' \in [Owner -> {"normal", "upThresh"}]
    BY <1>2, <1>3, NewStatusTyped, Zenon
  <2> QED BY <1>2, <2>1, Zenon DEF HealthInv, Health!TypeOK
<1>5. CASE hMeta'[m] = hMeta[m]
  <2>1. UNCHANGED <<hMeta, hLastW>>
    BY <1>2, <1>5, Zenon
  <2> QED BY <1>4, <2>1, SideKept, Zenon DEF HealthInv, Moves
<1>6. CASE hMeta'[m] # hMeta[m]
  <2>1. /\ hMeta[m] = "normal" => hMeta'[m] = "upThresh" /\ Health!UpLimits < w
        /\ hMeta[m] = "upThresh" => hMeta'[m] = "normal" /\ w < Health!DownLimits
    BY <1>1, <1>3, <1>6 DEF Health!NewStatus
  <2>3. hLastW' = [hLastW EXCEPT ![m] = w] /\ hLastW \in [Owner -> Int]
    BY <1>2, <1>6, Zenon DEF HealthInv
  <2>4. hLastW'[m] = w /\ hLastW' \in [Owner -> Int]
    BY <1>1, <2>3, Zenon
  <2>2. \A n \in Owner \ {m} : hMeta'[n] = hMeta[n] /\ hLastW'[n] = hLastW[n]
    BY <1>2, <2>3, Zenon
  <2>5. SideOfBand'
    BY <1>3, <2>1, <2>2, <2>4, Zenon
    DEF HealthInv, SideOfBand, Health!UpLimits, Health!DownLimits
  <2>6. Moves
    BY <1>3, <2>1, <2>2, <2>4, Zenon DEF HealthInv, SideOfBand, Moves
  <2> QED BY <1>4, <2>4, <2>5, <2>6, Zenon DEF HealthInv
<1> QED BY <1>5, <1>6, Zenon

\* A heartbeat resets the status of the nodes that push, and of no other.
LEMMA HeartbeatKeeps ==
  ASSUME Pushing \subseteq Owner, HealthInv, Health!heartbeat
  PROVE HealthInv' /\ Moves
<1>1. /\ hMeta' = [n \in Owner |-> IF n \in hPushed THEN Health!NewStatus(hMeta[n], 0) ELSE hMeta[n]]
      /\ hLastW' = [n \in Owner |-> IF hMeta'[n] = hMeta[n] THEN hLastW[n] ELSE 0]
      /\ Health!RegisterAll(hPushed, Health!Stamped)
      /\ hPushed' \in {{}, hPushed} /\ hMonitor' = hMonitor
  BY Zenon DEF Health!heartbeat
<1>2. /\ hPushed \subseteq Pushing /\ hPushed \subseteq Owner /\ Health!Stamped \subseteq Owner
      /\ hMeta \in [Owner -> {"normal", "upThresh"}]
  BY Zenon DEF HealthInv, Health!TypeOK, Health!Stamped
<1>3. hMeta' \in [Owner -> {"normal", "upThresh"}]
  BY <1>1, <1>2, NewStatusTyped, Zenon
<1>4. Health!TypeOK'
  BY <1>1, <1>2, <1>3, RegisterAllTyped, Zenon DEF HealthInv, Health!TypeOK
<1>5. \A n \in Owner \ Pushing : hMeta'[n] = hMeta[n] /\ hLastW'[n] = hLastW[n]
  BY <1>1, <1>2, Zenon
<1>6. hLastW' \in [Owner -> Int]
  BY <1>1 DEF HealthInv
<1> QED BY <1>4, <1>5, <1>6, Zenon
        DEF HealthInv, SideOfBand, Moves, Health!UpLimits, Health!DownLimits

\* Close and the end of the loop touch no status.
LEMMA ClosingKeeps ==
  ASSUME HealthInv, Health!Close \/ Health!HeartbeatEnds \/ UNCHANGED Health!vars
  PROVE HealthInv' /\ Moves
<1>1. UNCHANGED <<hMeta, hLastW, hPushed, hHashed, hLease, hFresh, hReg>>
      /\ hMonitor' \in {hMonitor, "closed", "ended"}
  BY Zenon DEF Health!Close, Health!HeartbeatEnds, Health!vars, Health!regVars
<1>2. Health!TypeOK'
  BY <1>1, Zenon DEF HealthInv, Health!TypeOK
<1> QED BY <1>1, <1>2, SideKept, Zenon DEF HealthInv, Moves

\* Register, a lost lease and a deregistered node touch no status.
LEMMA OtherHealthKeeps ==
  ASSUME HealthInv, NEW n \in Owner,
         \/ Health!RegisterLoop(n) \/ Health!PushHeartBeat(n)
         \/ Health!LeaseLost(n) \/ Health!deRegisterNode(n)
  PROVE HealthInv' /\ Moves
<1>1. UNCHANGED <<hMeta, hLastW>>
  BY Zenon DEF Health!RegisterLoop, Health!PushHeartBeat, Health!LeaseLost, Health!deRegisterNode
<1>2. CASE Health!RegisterLoop(n)
  <2>1. Health!RegisterAll({n}, hFresh) /\ UNCHANGED <<hPushed, hMonitor>>
    BY <1>2, Zenon DEF Health!RegisterLoop
  <2>2. hMeta' \in [Owner -> {"normal", "upThresh"}] /\ {n} \in SUBSET Owner /\ hFresh \in SUBSET Owner
    BY <1>1, Zenon DEF HealthInv, Health!TypeOK
  <2>3. Health!TypeOK'
    BY <2>1, <2>2, RegisterAllTyped, Zenon DEF HealthInv, Health!TypeOK
  <2> QED BY <1>1, <2>3, SideKept, Zenon DEF HealthInv, Moves
<1>3. CASE ~ Health!RegisterLoop(n)
  <2>1. Health!TypeOK'
    BY <1>3, Zenon DEF HealthInv, Health!TypeOK, Health!PushHeartBeat, Health!LeaseLost,
       Health!deRegisterNode, Health!regVars
  <2> QED BY <1>1, <2>1, SideKept, Zenon DEF HealthInv, Moves
<1> QED BY <1>2, <1>3, Zenon

\* Every step keeps the invariant and moves a status across the band only.
LEMMA HealthStep ==
  ASSUME Health!HealthAssumption, HealthInv, [Health!Next]_(Health!vars)
  PROVE HealthInv' /\ Moves
<1>1. CASE Health!heartbeat
  BY <1>1, HeartbeatKeeps, Zenon DEF Health!HealthAssumption
<1>2. CASE \E n \in Owner, w \in Weights : Health!UpdateServiceWithoutSync(n, w)
  BY <1>2, ReportKeeps, Zenon
<1>3. CASE \E n \in Owner : \/ Health!RegisterLoop(n) \/ Health!PushHeartBeat(n)
                           \/ Health!LeaseLost(n) \/ Health!deRegisterNode(n)
  BY <1>3, OtherHealthKeeps, Zenon
<1>4. CASE Health!Close \/ Health!HeartbeatEnds \/ UNCHANGED Health!vars
  BY <1>4, ClosingKeeps, Zenon
<1> QED BY <1>1, <1>2, <1>3, <1>4, Zenon DEF Health!Next

(***************************************************************************)
(* monitor/os.go: between two moves of the status of a node that reports   *)
(* its load without heartbeats the load has crossed the whole band between *)
(* DownLimits and UpLimits, for every set of nodes and loads and every     *)
(* MaxCalls.                                                               *)
(***************************************************************************)
THEOREM StatusDoesNotFlap ==
  ASSUME Health!HealthAssumption PROVE Health!Spec => NoFlapping
<1>1. Health!Init => HealthInv
  <2>1. ASSUME Health!Init PROVE HealthInv
    <3>1. /\ hMeta = [n \in Owner |-> "normal"] /\ hLastW = [n \in Owner |-> -1]
          /\ hPushed = {} /\ hMonitor = "open"
          /\ hHashed = hMeta /\ hLease = Owner /\ hFresh = {} /\ hReg = hMeta
      BY <2>1, Zenon DEF Health!Init
    <3>2. Health!TypeOK /\ SideOfBand
      BY <3>1, Zenon DEF Health!TypeOK, SideOfBand
    <3>3. hLastW \in [Owner -> Int]
      BY <3>1
    <3> QED BY <3>2, <3>3 DEF HealthInv
  <2> QED BY <2>1
<1>2. HealthInv /\ [Health!Next]_(Health!vars) => HealthInv' /\ Moves
  BY HealthStep, Zenon
<1>3. HealthInv => Health!TypeOK
  BY Zenon DEF HealthInv
<1>4. Moves => [\A n \in Owner \ Pushing : hMeta'[n] # hMeta[n] /\ hLastW[n] # -1 =>
        \/ hLastW[n] < Health!DownLimits /\ Health!UpLimits < hLastW'[n]
        \/ Health!UpLimits < hLastW[n] /\ hLastW'[n] < Health!DownLimits]_(Health!vars)
  BY Zenon DEF Moves
<1> QED BY <1>1, <1>2, <1>3, <1>4, PTL DEF Health!Spec, NoFlapping, Health!NoFlapping

-----------------------------------------------------------------------------
(***************************************************************************)
(* RCache.  A node in the cache that is not marked is there under the      *)
(* version of its data, so that the event that deletes it finds it.        *)
(***************************************************************************)

\* A cached node that is not marked has the version of its data.
Versioned(services) == \A s \in services : s[3] # Deleted => s[1] = VersionOf[s[3]]

CacheInv ==
  /\ Cache!TypeOK
  /\ cEntry # NoEntry => Versioned(cEntry)
  /\ \A c \in Caller : Versioned(cSnap[c])

Marked ==
  \A r \in Runner : Cache!Next1(r) /\ cEntry # NoEntry =>
    LET e == Head(cQueue[r])
    IN /\ e.action = "delete" => <<e.node, e.data>> \notin Cache!Offered(cEntry')
       /\ Cache!Offered(cEntry') \subseteq Cache!Offered(cEntry) \cup {<<e.node, e.data>>}

RunnerPlaces == {"none", "start", "loop", "open", "watch", "defer", "end", "done"}

\* What is registered can be cached.
LEMMA RegisteredVersioned ==
  ASSUME Cache!TypeOK, Cache!CacheAssumption
  PROVE Cache!Registered \in Cache!Services /\ Versioned(Cache!Registered)
<1>1. ASSUME NEW s \in Cache!Registered
      PROVE /\ s \in Cache!Version \X Key \X (Content \cup {Deleted})
            /\ s[1] = VersionOf[s[3]]
  <2>1. PICK n \in Key : cReg[n] # Unset /\ s = <<VersionOf[cReg[n]], n, cReg[n]>>
    BY <1>1, Zenon DEF Cache!Registered
  <2>2. cReg[n] \in Content
    BY <2>1, Zenon DEF Cache!TypeOK
  <2>3. VersionOf[cReg[n]] \in Cache!Version
    BY <2>2, Zenon DEF Cache!Version
  <2>4. s[1] = VersionOf[cReg[n]] /\ s[3] = cReg[n]
    BY <2>1
  <2> QED BY <2>1, <2>2, <2>3, <2>4
<1> QED BY <1>1, Zenon DEF Versioned, Cache!Services

\* What update makes of the entry.
LEMMA UpdateMarks ==
  ASSUME Cache!CacheAssumption, NEW e \in Cache!Event, cEntry \in Cache!Services,
         cEntry # NoEntry, Versioned(cEntry), Cache!Update(e)
  PROVE /\ cEntry' \in Cache!Services /\ Versioned(cEntry')
        /\ e.action = "delete" => <<e.node, e.data>> \notin Cache!Offered(cEntry')
        /\ Cache!Offered(cEntry') \subseteq Cache!Offered(cEntry) \cup {<<e.node, e.data>>}
<1> DEFINE v == VersionOf[e.data]
           old == {s \in cEntry : s[1] = v /\ s[2] = e.node}
           put == <<v, e.node, e.data>>
           gone == <<v, e.node, Deleted>>
<1>1. /\ e.node \in Key /\ e.data \in Content /\ e.data # Deleted /\ v \in Cache!Version
      /\ e.action \in {"create", "update", "delete"}
  BY DEF Cache!Event, Cache!CacheAssumption, Cache!Version
<1>2. /\ put[1] = v /\ put[2] = e.node /\ put[3] = e.data
      /\ gone[1] = v /\ gone[2] = e.node /\ gone[3] = Deleted
  OBVIOUS
<1>3. put \in Cache!Version \X Key \X (Content \cup {Deleted})
      /\ gone \in Cache!Version \X Key \X (Content \cup {Deleted})
  BY <1>1
<1>4. \/ e.action # "delete" /\ cEntry' = cEntry \cup {put}
      \/ old = {} /\ cEntry' = cEntry
      \/ e.action = "delete" /\ cEntry' = (cEntry \ old) \cup {gone}
      \/ e.action # "delete" /\ cEntry' = (cEntry \ old) \cup {put}
  BY Zenon DEF Cache!Update, Cache!Set
<1> HIDE DEF v, old, put, gone
<1>5. \A s \in cEntry' : s \in cEntry \/ (s = put /\ e.action # "delete") \/ s = gone
  BY <1>4, SMT
<1>6. cEntry' \in Cache!Services
  BY <1>3, <1>5, Zenon DEF Cache!Services
<1>7. Versioned(cEntry')
  BY <1>2, <1>5, Zenon DEF Versioned, v
<1>8. ASSUME e.action = "delete" PROVE <<e.node, e.data>> \notin Cache!Offered(cEntry')
  <2>1. SUFFICES ASSUME NEW s \in cEntry', s[3] # Deleted, <<s[2], s[3]>> = <<e.node, e.data>>
                 PROVE FALSE
    BY Zenon DEF Cache!Offered, Cache!Alive
  <2>2. s[2] = e.node /\ s[3] = e.data
    BY <2>1, Zenon
  <2>3. s \in cEntry /\ s \notin old
    BY <1>2, <1>4, <1>8, <2>1, Zenon
  <2> QED BY <2>1, <2>2, <2>3, Zenon DEF Versioned, old, v
<1>9. Cache!Offered(cEntry') \subseteq Cache!Offered(cEntry) \cup {<<e.node, e.data>>}
  <2>1. SUFFICES ASSUME NEW s \in cEntry', s[3] # Deleted
                 PROVE <<s[2], s[3]>> \in Cache!Offered(cEntry) \cup {<<e.node, e.data>>}
    BY Zenon DEF Cache!Offered, Cache!Alive
  <2>2. CASE s \in cEntry
    BY <2>1, <2>2, Zenon DEF Cache!Offered, Cache!Alive
  <2>3. CASE s \notin cEntry
    BY <1>2, <1>5, <2>1, <2>3, Zenon
  <2> QED BY <2>2, <2>3
<1> QED BY <1>6, <1>7, <1>8, <1>9

\* The events a watcher holds are events, so that what Next1 applies is covered.
LEMMA Next1Updates ==
  ASSUME CacheInv, NEW r \in Runner, Cache!Next1(r)
  PROVE Head(cQueue[r]) \in Cache!Event /\ Cache!Update(Head(cQueue[r]))
<1>1. cQueue[r] \in Seq(Cache!Event) /\ cQueue[r] # <<>>
  BY Zenon DEF CacheInv, Cache!TypeOK, Cache!Next1
<1> QED BY <1>1 DEF Cache!Next1

\* Applying an event marks the node it deletes and revives no other.
LEMMA EventsMark == ASSUME Cache!CacheAssumption, CacheInv PROVE Marked
<1>1. ASSUME NEW r \in Runner, Cache!Next1(r), cEntry # NoEntry
      PROVE /\ Head(cQueue[r]).action = "delete" =>
                 <<Head(cQueue[r]).node, Head(cQueue[r]).data>> \notin Cache!Offered(cEntry')
            /\ Cache!Offered(cEntry') \subseteq
                 Cache!Offered(cEntry) \cup {<<Head(cQueue[r]).node, Head(cQueue[r]).data>>}
  <2>1. cEntry \in Cache!Services /\ Versioned(cEntry)
    BY <1>1, Zenon DEF CacheInv, Cache!TypeOK
  <2> QED BY <1>1, <2>1, Next1Updates, UpdateMarks, Zenon
<1> QED BY <1>1, Zenon DEF Marked

\* The registry changes, and each open watcher holds one event more.
LEMMA RegistryKeeps ==
  ASSUME Cache!CacheAssumption, CacheInv, Cache!Registry PROVE CacheInv'
<1>1. ASSUME NEW n \in Key, Cache!Remove(n) \/ \E d \in Content : Cache!Put(n, d)
      PROVE CacheInv'
  <2>1. /\ cReg \in [Key -> Content \cup {Unset}] /\ cQueue \in [Runner -> Seq(Cache!Event)]
        /\ cChanges \in 0 .. CacheChanges
    BY Zenon DEF CacheInv, Cache!TypeOK
  <2>2. PICK e \in Cache!Event : Cache!Emit(e)
    <3>1. ASSUME NEW d \in Content, Cache!Put(n, d)
          PROVE \E e \in Cache!Event : Cache!Emit(e)
      <4> DEFINE e == [action |-> IF cReg[n] = Unset THEN "create" ELSE "update",
                       node |-> n, data |-> d]
      <4>1. e \in Cache!Event
        BY Zenon DEF Cache!Event
      <4> QED BY <3>1, <4>1, Zenon DEF Cache!Put
    <3>2. CASE Cache!Remove(n)
      <4> DEFINE e == [action |-> "delete", node |-> n, data |-> cReg[n]]
      <4>1. cReg[n] \in Content
        BY <2>1, <3>2, Zenon DEF Cache!Remove
      <4>2. e \in Cache!Event
        BY <4>1, Zenon DEF Cache!Event
      <4> QED BY <3>2, <4>2, Zenon DEF Cache!Remove
    <3> QED BY <1>1, <3>1, <3>2, Zenon
  <2>3. cQueue' \in [Runner -> Seq(Cache!Event)]
    BY <2>1, <2>2 DEF Cache!Emit
  <2>4. cReg' \in [Key -> Content \cup {Unset}]
    <3>1. ASSUME NEW d \in Content \cup {Unset}, cReg' = [cReg EXCEPT ![n] = d]
          PROVE cReg' \in [Key -> Content \cup {Unset}]
      BY <2>1, <3>1, Zenon
    <3> QED BY <1>1, <3>1, Zenon DEF Cache!Put, Cache!Remove
  <2>5. cChanges' \in 0 .. CacheChanges
    <3>1. cChanges < CacheChanges /\ cChanges' = cChanges + 1
      BY <1>1, Zenon DEF Cache!Put, Cache!Remove
    <3> QED BY <2>1, <3>1 DEF Cache!CacheAssumption
  <2>6. UNCHANGED <<cUp, cEntry, cAge, cWatched, cExit, cCpc, cSnap, cRpc, cClosed, cCloser>>
    BY <1>1, Zenon DEF Cache!Put, Cache!Remove, Cache!cacheVars, Cache!callerVars
  <2> QED BY <2>3, <2>4, <2>5, <2>6, Zenon DEF CacheInv, Cache!TypeOK
<1>2. CASE Cache!Fail \/ Cache!Recover
  <2>1. /\ UNCHANGED <<cReg, cEntry, cAge, cWatched, cExit, cCpc, cSnap, cRpc, cQueue, cClosed, cCloser>>
        /\ cUp' \in BOOLEAN
    BY <1>2, Zenon DEF Cache!Fail, Cache!Recover, Cache!cacheVars, Cache!callerVars, Cache!watchVars
  <2>2. cChanges' \in 0 .. CacheChanges
    BY <1>2 DEF Cache!Fail, Cache!Recover, CacheInv, Cache!TypeOK, Cache!CacheAssumption
  <2> QED BY <2>1, <2>2, Zenon DEF CacheInv, Cache!TypeOK
<1> QED BY <1>1, <1>2, Zenon DEF Cache!Registry

\* A lookup copies the entry, or what the registry answers, and may cache it.
LEMMA LookupKeeps ==
  ASSUME Cache!CacheAssumption, CacheInv, NEW c \in Caller, Cache!Lookup(c)
  PROVE CacheInv'
<1>1. /\ cEntry \in Cache!Services \cup {NoEntry} /\ cSnap \in [Caller -> Cache!Services]
      /\ cCpc \in [Caller -> {"idle", "fetch", "fill"}] /\ cRpc \in [Runner -> RunnerPlaces]
      /\ cEntry # NoEntry => Versioned(cEntry)
      /\ \A d \in Caller : Versioned(cSnap[d])
  BY Zenon DEF CacheInv, Cache!TypeOK, RunnerPlaces
<1>2. {} \in Cache!Services /\ Versioned({})
  BY Zenon DEF Cache!Services, Versioned
<1>3. cCpc' \in [Caller -> {"idle", "fetch", "fill"}]
  BY <1>1, Zenon DEF Cache!Lookup, Cache!GetCached, Cache!GetExpired, Cache!Fetch,
     Cache!FetchFails, Cache!Fill, Cache!Return, Cache!vars
<1>4. \E S \in Cache!Services : /\ Versioned(S) /\ cSnap' \in {cSnap, [cSnap EXCEPT ![c] = S]}
  <2>1. CASE Cache!GetCached(c)
    BY <1>2, <2>1, Zenon DEF Cache!GetCached, Cache!vars
  <2>2. CASE Cache!GetExpired(c)
    BY <1>1, <1>2, <2>2, Zenon DEF Cache!GetExpired
  <2>3. CASE Cache!Fetch(c)
    BY <2>3, RegisteredVersioned, Zenon DEF Cache!Fetch, CacheInv
  <2>4. CASE Cache!FetchFails(c) \/ Cache!Fill(c)
    BY <1>2, <2>4, Zenon DEF Cache!FetchFails, Cache!Fill, Cache!Return
  <2> QED BY <2>1, <2>2, <2>3, <2>4, Zenon DEF Cache!Lookup
<1>5. cSnap' \in [Caller -> Cache!Services] /\ \A d \in Caller : Versioned(cSnap'[d])
  BY <1>1, <1>4, Zenon
<1>6. /\ cEntry' \in {cEntry, cSnap[c]}
      /\ UNCHANGED <<cReg, cUp, cChanges, cWatched, cExit, cQueue, cClosed, cCloser>>
      /\ cAge' \in {cAge, 0}
  BY Zenon DEF Cache!Lookup, Cache!GetCached, Cache!GetExpired, Cache!Fetch,
     Cache!FetchFails, Cache!Fill, Cache!Set, Cache!vars, Cache!regVars, Cache!cacheVars,
     Cache!watchVars
<1>7. cEntry' \in Cache!Services \cup {NoEntry} /\ (cEntry' # NoEntry => Versioned(cEntry'))
  BY <1>1, <1>6, Zenon
<1>8. cRpc' \in [Runner -> RunnerPlaces]
  BY <1>1, Zenon DEF Cache!Lookup, Cache!GetCached, Cache!GetExpired, Cache!Fetch,
     Cache!FetchFails, Cache!Fill, Cache!vars, Cache!watchVars, RunnerPlaces
<1>9. cAge' \in 0 .. Cache!MaxAge
  BY <1>6 DEF CacheInv, Cache!TypeOK, Cache!MaxAge, Cache!CacheAssumption
<1> QED BY <1>3, <1>5, <1>6, <1>7, <1>8, <1>9, Zenon
    DEF CacheInv, Cache!TypeOK, RunnerPlaces, Cache!MaxAge, Cache!Services, Cache!Event,
        Cache!Version

\* What a watch loop moves on, but for Next1, is its own place, watcher and flag.
LEMMA WatchKeeps ==
  ASSUME CacheInv, NEW r \in Runner, Cache!WatchLoop(r), ~ Cache!Next1(r)
  PROVE CacheInv'
<1>1. /\ cRpc \in [Runner -> RunnerPlaces] /\ cQueue \in [Runner -> Seq(Cache!Event)]
      /\ cClosed \in [Runner -> {"open", "closed", "panic"}]
      /\ cCloser \in [Runner -> SUBSET {"defer", "exit"}]
  BY Zenon DEF CacheInv, Cache!TypeOK, RunnerPlaces
<1> USE DEF Cache!WatchLoop, Cache!RunStart, Cache!RunLoop, Cache!RunOpen, Cache!NextFails,
        Cache!WatchReturns, Cache!RunEnd, Cache!StopLook, Cache!StopClose
<1>2. \E l \in RunnerPlaces : cRpc' \in {cRpc, [cRpc EXCEPT ![r] = l]}
  BY Zenon DEF RunnerPlaces
<1>3. cQueue' \in {cQueue, [cQueue EXCEPT ![r] = <<>>]}
  BY Zenon
<1>4. \E x \in {"open", "closed", "panic"} : cClosed' \in {cClosed, [cClosed EXCEPT ![r] = x]}
  BY Zenon
<1>5. \E X \in SUBSET {"defer", "exit"} : cCloser' \in {cCloser, [cCloser EXCEPT ![r] = X]}
  BY <1>1, Zenon
<1>6. cWatched' \in {cWatched, TRUE, FALSE}
      /\ UNCHANGED <<cReg, cUp, cChanges, cEntry, cAge, cExit, cCpc, cSnap>>
  BY Zenon DEF Cache!regVars, Cache!cacheVars, Cache!callerVars
<1> HIDE DEF Cache!WatchLoop, Cache!RunStart, Cache!RunLoop, Cache!RunOpen, Cache!NextFails,
        Cache!WatchReturns, Cache!RunEnd, Cache!StopLook, Cache!StopClose
<1>7. cRpc' \in [Runner -> RunnerPlaces]
  BY <1>1, <1>2, Zenon
<1>8. cClosed' \in [Runner -> {"open", "closed", "panic"}]
  BY <1>1, <1>4, Zenon
<1>9. cCloser' \in [Runner -> SUBSET {"defer", "exit"}]
  BY <1>1, <1>5, Zenon
<1>10. cQueue' \in [Runner -> Seq(Cache!Event)]
  <2>1. <<>> \in Seq(Cache!Event)
    OBVIOUS
  <2> QED BY <1>1, <1>3, <2>1, Zenon
<1> QED BY <1>6, <1>7, <1>8, <1>9, <1>10, Zenon DEF CacheInv, Cache!TypeOK, RunnerPlaces

\* An event is taken from the response and applied.
LEMMA Next1Keeps ==
  ASSUME Cache!CacheAssumption, CacheInv, NEW r \in Runner, Cache!Next1(r)
  PROVE CacheInv'
<1>1. UNCHANGED <<cReg, cUp, cChanges, cWatched, cExit, cCpc, cSnap, cRpc, cClosed, cCloser>>
  BY Zenon DEF Cache!Next1, Cache!regVars, Cache!callerVars
<1>2. cQueue' \in [Runner -> Seq(Cache!Event)]
  <2>1. /\ cQueue \in [Runner -> Seq(Cache!Event)]
        /\ \E n \in 1 .. Len(cQueue[r]) :
             cQueue' = [cQueue EXCEPT ![r] = SubSeq(cQueue[r], n + 1, Len(cQueue[r]))]
    BY Zenon DEF CacheInv, Cache!TypeOK, Cache!Next1
  <2>2. PICK n \in 1 .. Len(cQueue[r]) :
          cQueue' = [cQueue EXCEPT ![r] = SubSeq(cQueue[r], n + 1, Len(cQueue[r]))]
    BY <2>1, Zenon
  <2>3. SubSeq(cQueue[r], n + 1, Len(cQueue[r])) \in Seq(Cache!Event)
    BY <2>1
  <2> QED BY <2>1, <2>2, <2>3, Zenon
<1>3. Cache!Update(Head(cQueue[r])) /\ Head(cQueue[r]) \in Cache!Event
  BY Next1Updates, Zenon
<1>4. cEntry' \in Cache!Services \cup {NoEntry} /\ (cEntry' # NoEntry => Versioned(cEntry'))
  <2>1. CASE cEntry = NoEntry
    BY <1>3, <2>1, Zenon DEF Cache!Update
  <2>2. CASE cEntry # NoEntry
    BY <1>3, <2>2, UpdateMarks, Zenon DEF CacheInv, Cache!TypeOK
  <2> QED BY <2>1, <2>2
<1>5. cAge' \in {cAge, 0}
  BY <1>3, Zenon DEF Cache!Update, Cache!Set
<1>6. cAge' \in 0 .. Cache!MaxAge
  BY <1>5 DEF CacheInv, Cache!TypeOK, Cache!MaxAge, Cache!CacheAssumption
<1> QED BY <1>1, <1>2, <1>4, <1>6, Zenon DEF CacheInv, Cache!TypeOK

\* Every step of the cache keeps the invariant.
LEMMA CacheStep ==
  ASSUME Cache!CacheAssumption, CacheInv, [Cache!Next]_(Cache!vars)
  PROVE CacheInv'
<1>1. CASE Cache!Tick
  <2>1. /\ UNCHANGED <<cReg, cUp, cChanges, cEntry, cWatched, cExit, cCpc, cSnap, cRpc, cQueue,
                       cClosed, cCloser>>
        /\ cAge < Cache!MaxAge /\ cAge' = cAge + 1
    BY <1>1, Zenon DEF Cache!Tick, Cache!regVars, Cache!callerVars, Cache!watchVars
  <2>2. cAge' \in 0 .. Cache!MaxAge
    BY <2>1 DEF CacheInv, Cache!TypeOK, Cache!MaxAge, Cache!CacheAssumption
  <2> QED BY <2>1, <2>2, Zenon DEF CacheInv, Cache!TypeOK
<1>2. CASE Cache!Stop \/ UNCHANGED Cache!vars
  <2>1. /\ UNCHANGED <<cReg, cUp, cChanges, cEntry, cAge, cWatched, cCpc, cSnap, cRpc, cQueue,
                       cClosed, cCloser>>
        /\ cExit' \in {cExit, TRUE}
    BY <1>2, Zenon DEF Cache!Stop, Cache!vars, Cache!regVars, Cache!cacheVars,
       Cache!callerVars, Cache!watchVars
  <2> QED BY <2>1, Zenon DEF CacheInv, Cache!TypeOK
<1> QED BY <1>1, <1>2, RegistryKeeps, LookupKeeps, WatchKeeps, Next1Keeps, Zenon
    DEF Cache!Next

(***************************************************************************)
(* update of rcache.go: an event takes away or marks the node it deletes,  *)
(* and offers no node but the one it is about that was not offered before, *)
(* for every set of nodes, data, lookups and watch loops.                  *)
(***************************************************************************)
THEOREM MarksStay ==
  ASSUME Cache!CacheAssumption PROVE Cache!Spec => DeletedStaysDeleted
<1>1. Cache!Init => CacheInv
  <2>1. ASSUME Cache!Init PROVE CacheInv
    <3>1. {} \in Cache!Services /\ Versioned({})
      BY Zenon DEF Cache!Services, Versioned
    <3>2. cAge \in 0 .. Cache!MaxAge /\ cChanges \in 0 .. CacheChanges
      BY <2>1 DEF Cache!Init, Cache!CacheAssumption, Cache!MaxAge
    <3>3. cQueue \in [Runner -> Seq(Cache!Event)]
      BY <2>1 DEF Cache!Init
    <3> QED BY <2>1, <3>1, <3>2, <3>3, Zenon DEF Cache!Init, CacheInv, Cache!TypeOK
  <2> QED BY <2>1
<1>2. CacheInv /\ [Cache!Next]_(Cache!vars) => CacheInv'
  BY CacheStep, Zenon
<1>3. CacheInv => Cache!TypeOK /\ Marked
  BY EventsMark, Zenon DEF CacheInv
<1>4. Marked => [\A r \in Runner : Cache!Next1(r) /\ cEntry # NoEntry =>
       LET e == Head(cQueue[r])
       IN /\ e.action = "delete" => <<e.node, e.data>> \notin Cache!Offered(cEntry')
          /\ Cache!Offered(cEntry') \subseteq Cache!Offered(cEntry) \cup {<<e.node, e.data>>}]_(Cache!vars)
  BY Zenon DEF Marked
<1> QED BY <1>1, <1>2, <1>3, <1>4, PTL
    DEF Cache!Spec, DeletedStaysDeleted, Cache!DeletedStaysDeleted
=============================================================================
