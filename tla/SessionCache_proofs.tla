------------------------ MODULE SessionCache_proofs ------------------------
(***************************************************************************)
(* However many goroutines race to resolve a session, load it, create it   *)
(* and write to it, across restarts, they use one Session object; and      *)
(* while no line is too long for the loader that object is never older     *)
(* than the file.                                                          *)
(***************************************************************************)
EXTENDS SessionCache, TLAPS

\* A goroutine uses the object in the map, and none is replaced in it.
Shared == \A c \in Callers : Using(c) => session # "none" /\ held[c] = session

\* What a goroutine carries through Persist.
Writing(c) == pc[c] \in {"persist", "open", "store", "write"}
Carried ==
  \A c \in Callers : /\ Writing(c) => turn[c] \in TurnId
                     /\ pc[c] = "store" => handle[c] \in Callers

CacheInv == TypeOK /\ Shared /\ Carried

USE CacheAssumption DEF CacheAssumption

-----------------------------------------------------------------------------
LEMMA InitCache == Init => CacheInv
<1> SUFFICES ASSUME Init PROVE CacheInv
  OBVIOUS
<1> USE DEF Init, Fresh
<1>1. fileThere \in BOOLEAN /\ stopped \in BOOLEAN
  OBVIOUS
<1>2. /\ session \in Objects \union {"none"}
      /\ heap \in [Objects -> SUBSET TurnId]
      /\ file \in SUBSET TurnId
      /\ cached \in Callers \union {"absent", "nil"}
      /\ opened \in SUBSET Callers
  OBVIOUS
<1>3. /\ pc \in [Callers -> {"idle", "load", "create", "install", "work", "persist",
                             "open", "store", "write"}]
      /\ held \in [Callers -> Objects \union {"none"}]
      /\ handle \in [Callers -> Callers \union {"none", "nil"}]
  OBVIOUS
<1>4. turn \in [Callers -> 0 .. MaxTurns] /\ said \in 0 .. MaxTurns
  OBVIOUS
<1>5. Shared
  BY DEF Shared, Using
<1>6. Carried
  BY DEF Carried, Writing
<1> QED BY <1>1, <1>2, <1>3, <1>4, <1>5, <1>6 DEF CacheInv, TypeOK

LEMMA ProcessKeeps == ASSUME CacheInv, Restart \/ Shutdown PROVE CacheInv'
<1>1. CASE Restart
  <2>1. /\ session' \in Objects \union {"none"} /\ heap' \in [Objects -> SUBSET TurnId]
        /\ stopped' \in BOOLEAN /\ fileThere' \in BOOLEAN
    BY <1>1 DEF Restart, Objects, CacheInv, TypeOK
  <2>2. TypeOK'
    BY <1>1, <2>1 DEF Restart, Fresh, CacheInv, TypeOK
  <2>3. Shared' /\ Carried'
    BY <1>1 DEF Restart, Shared, Using, Carried, Writing
  <2> QED BY <2>2, <2>3 DEF CacheInv
<1>2. CASE Shutdown
  BY <1>2 DEF Shutdown, CacheInv, TypeOK, Shared, Using, Carried, Writing
<1> QED BY <1>1, <1>2

LEMMA ResolveKeeps == ASSUME CacheInv, NEW c \in Callers, Resolve(c) PROVE CacheInv'
<1> USE DEF CacheInv, TypeOK, Shared, Using, Carried, Writing, Goes, files, Objects
<1>1. CASE FindSession(c)
  BY <1>1 DEF FindSession
<1>2. CASE StatFile(c)
  BY <1>2 DEF StatFile
<1>3. CASE LoadFile(c)
  BY <1>3 DEF LoadFile
<1>4. CASE CreateFile(c)
  BY <1>4 DEF CreateFile
<1>5. CASE Install(c)
  BY <1>5 DEF Install
<1> QED BY <1>1, <1>2, <1>3, <1>4, <1>5 DEF Resolve

LEMMA TurnKeeps == ASSUME CacheInv, NEW c \in Callers, AddTurn(c) \/ GiveUp(c) PROVE CacheInv'
<1> USE DEF CacheInv, TypeOK, Shared, Using, Carried, Writing, Goes, files
<1>1. CASE AddTurn(c)
  <2>1. said + 1 \in TurnId /\ said + 1 \in 0 .. MaxTurns
    BY <1>1 DEF AddTurn, TurnId
  <2>2. heap' \in [Objects -> SUBSET TurnId]
    BY <1>1, <2>1 DEF AddTurn
  <2>3. /\ said' \in 0 .. MaxTurns /\ turn' \in [Callers -> 0 .. MaxTurns]
    BY <1>1, <2>1 DEF AddTurn
  <2>4. TypeOK'
    BY <1>1, <2>2, <2>3 DEF AddTurn
  <2>5. Shared' /\ Carried'
    BY <1>1, <2>1 DEF AddTurn
  <2> QED BY <2>4, <2>5
<1>2. CASE GiveUp(c)
  BY <1>2 DEF GiveUp
<1> QED BY <1>1, <1>2

LEMMA PersistKeeps == ASSUME CacheInv, NEW c \in Callers, Persist(c) PROVE CacheInv'
<1> USE DEF CacheInv, TypeOK, Shared, Using, Carried, Writing, Goes, files
<1>1. CASE FindHandle(c)
  BY <1>1 DEF FindHandle
<1>2. CASE OpenFile(c)
  BY <1>2 DEF OpenFile
<1>3. CASE StoreHandle(c)
  <2>1. cached' \in Callers \union {"absent", "nil"}
    BY <1>3 DEF StoreHandle
  <2> QED BY <1>3, <2>1 DEF StoreHandle
<1>4. CASE WriteTurn(c)
  BY <1>4 DEF WriteTurn
<1> QED BY <1>1, <1>2, <1>3, <1>4 DEF Persist

LEMMA CacheKept == CacheInv /\ [Next]_vars => CacheInv'
<1> SUFFICES ASSUME CacheInv, [Next]_vars PROVE CacheInv'
  OBVIOUS
<1>1. CASE UNCHANGED vars
  BY <1>1 DEF vars, CacheInv, TypeOK, Shared, Using, Carried, Writing
<1> QED BY <1>1, ProcessKeeps, ResolveKeeps, TurnKeeps, PersistKeeps DEF Next

\* LoadOrStore gives every goroutine the one object that is in the map.
THEOREM OneSessionAlways == Spec => []OneSession
<1>1. CacheInv => OneSession
  BY DEF CacheInv, Shared, OneSession
<1> QED BY InitCache, CacheKept, <1>1, PTL DEF Spec

\* Each variable of the cache keeps its type.
THEOREM CacheTypeCorrect == Spec => []TypeOK
<1>1. CacheInv => TypeOK
  BY DEF CacheInv
<1> QED BY InitCache, CacheKept, <1>1, PTL DEF Spec

-----------------------------------------------------------------------------
\* Nothing is in a file that is not there, and only a file can be open.
FileExists == (~fileThere => file = {}) /\ (opened # {} => fileThere)

\* The object in the map knows the file; while there is none, so does every
\* object on its way there, since nobody writes; and none is made twice.
Knows ==
  /\ session # "none" /\ Loadable => file \subseteq heap[session]
  /\ session = "none" => \A c \in Callers :
       /\ pc[c] = "create" => file = {}
       /\ pc[c] = "install" /\ Loadable => file \subseteq heap[c]
  /\ \A c \in Callers : pc[c] \in {"load", "create", "install"} => session # c

\* A turn on its way to the file is in the object already.
AddedFirst == \A c \in Callers : Writing(c) => turn[c] \in heap[session]

FileInv == CacheInv /\ FileExists /\ Knows /\ AddedFirst

LEMMA InitFile == Init => FileInv
<1> SUFFICES ASSUME Init PROVE FileInv
  OBVIOUS
<1>1. FileExists
  BY DEF Init, FileExists
<1>2. Knows
  BY DEF Init, Knows
<1>3. AddedFirst
  BY DEF Init, AddedFirst, Writing
<1> QED BY <1>1, <1>2, <1>3, InitCache DEF FileInv

LEMMA FileExistsKept == ASSUME FileInv, [Next]_vars PROVE FileExists'
<1> USE DEF FileInv, FileExists, CacheInv, TypeOK, Goes, files
<1>1. ASSUME NEW c \in Callers, Resolve(c) PROVE FileExists'
  BY <1>1 DEF Resolve, FindSession, StatFile, LoadFile, CreateFile, Install
<1>2. ASSUME NEW c \in Callers, AddTurn(c) \/ GiveUp(c) PROVE FileExists'
  BY <1>2 DEF AddTurn, GiveUp
<1>3. ASSUME NEW c \in Callers, Persist(c) PROVE FileExists'
  BY <1>3 DEF Persist, FindHandle, OpenFile, StoreHandle, WriteTurn
<1>4. CASE Shutdown
  BY <1>4 DEF Shutdown
<1>5. CASE Restart
  BY <1>5 DEF Restart
<1>6. CASE UNCHANGED vars
  BY <1>6 DEF vars
<1> QED BY <1>1, <1>2, <1>3, <1>4, <1>5, <1>6 DEF Next

LEMMA KnowsKept ==
  ASSUME FileInv, [Next]_vars PROVE Knows' /\ AddedFirst'
<1> USE DEF FileInv, CacheInv, Shared, Using, Writing, Goes, files, Loadable
<1>1. ASSUME NEW c \in Callers, Resolve(c) PROVE Knows' /\ AddedFirst'
  <2> USE DEF Knows, AddedFirst, TypeOK, Objects
  <2>1. CASE FindSession(c)
    BY <1>1, <2>1 DEF FindSession
  <2>2. CASE StatFile(c)
    BY <1>1, <2>2 DEF StatFile, FileExists
  <2>3. CASE LoadFile(c)
    <3>1. /\ heap' = [heap EXCEPT ![c] = IF Loadable THEN file ELSE {}]
          /\ session # c
          /\ UNCHANGED <<session, file, turn>>
      BY <2>3 DEF LoadFile
    <3>2. Knows'
      BY <2>3, <3>1 DEF LoadFile
    <3>3. \A d \in Callers : Writing(d)' => Writing(d) /\ heap'[session] = heap[session]
      BY <2>3, <3>1 DEF LoadFile
    <3> QED BY <3>1, <3>2, <3>3
  <2>4. CASE CreateFile(c)
    <3>1. /\ heap' = [heap EXCEPT ![c] = {}] /\ session # c
          /\ UNCHANGED <<session, file, turn>>
      BY <2>4 DEF CreateFile
    <3>2. Knows'
      BY <2>4, <3>1 DEF CreateFile
    <3>3. \A d \in Callers : Writing(d)' => Writing(d) /\ heap'[session] = heap[session]
      BY <2>4, <3>1 DEF CreateFile
    <3> QED BY <3>1, <3>2, <3>3
  <2>5. CASE Install(c)
    BY <1>1, <2>5 DEF Install
  <2> QED BY <1>1, <2>1, <2>2, <2>3, <2>4, <2>5 DEF Resolve
<1>2. ASSUME NEW c \in Callers, AddTurn(c) PROVE Knows' /\ AddedFirst'
  <2>1. /\ held[c] = session /\ session \in Objects
        /\ heap' = [heap EXCEPT ![session] = @ \union {said + 1}]
        /\ heap \in [Objects -> SUBSET TurnId]
        /\ turn' = [turn EXCEPT ![c] = said + 1]
        /\ pc' = [pc EXCEPT ![c] = "persist"] /\ pc[c] = "work"
        /\ UNCHANGED <<session, file>>
    BY <1>2 DEF AddTurn, TypeOK
  <2>2. Knows'
    BY <2>1 DEF Knows, TypeOK
  <2>3. AddedFirst'
    BY <2>1 DEF AddedFirst, TypeOK
  <2> QED BY <2>2, <2>3
<1>3. ASSUME NEW c \in Callers, GiveUp(c) PROVE Knows' /\ AddedFirst'
  BY <1>3 DEF GiveUp, Knows, AddedFirst, TypeOK
<1>4. ASSUME NEW c \in Callers, Persist(c) PROVE Knows' /\ AddedFirst'
  <2> USE DEF Knows, AddedFirst, TypeOK
  <2>1. CASE FindHandle(c)
    BY <1>4, <2>1 DEF FindHandle
  <2>2. CASE OpenFile(c)
    BY <1>4, <2>2 DEF OpenFile
  <2>3. CASE StoreHandle(c)
    BY <1>4, <2>3 DEF StoreHandle
  <2>4. CASE WriteTurn(c)
    <3>1. /\ session # "none" /\ turn[c] \in heap[session]
          /\ file \subseteq file' /\ file' \subseteq file \union {turn[c]}
          /\ pc' = [pc EXCEPT ![c] = "idle"]
          /\ UNCHANGED <<session, heap, turn>>
      BY <2>4 DEF WriteTurn
    <3>2. Loadable' => Loadable
      BY <3>1
    <3>3. Knows'
      BY <3>1, <3>2
    <3>4. AddedFirst'
      BY <3>1
    <3> QED BY <3>3, <3>4
  <2> QED BY <1>4, <2>1, <2>2, <2>3, <2>4 DEF Persist
<1>5. CASE Shutdown
  BY <1>5 DEF Shutdown, Knows, AddedFirst
<1>6. CASE Restart
  <2>1. pc' = [c \in Callers |-> "idle"] /\ file' = file
    BY <1>6 DEF Restart
  <2>0. PICK load \in LoadOnStartup :
          /\ session' = IF LoadedAtStartup(load) THEN "startup" ELSE "none"
          /\ heap' = [o \in Objects |->
                       IF o = "startup" /\ LoadedAtStartup(load) THEN file ELSE {}]
    BY <1>6 DEF Restart
  <2>2. session' # "none" => heap'[session'] = file
    BY <2>0 DEF Objects
  <2>3. Knows'
    BY <2>1, <2>2, <2>0 DEF Knows
  <2>4. AddedFirst'
    BY <2>1 DEF AddedFirst
  <2> QED BY <2>3, <2>4
<1>7. CASE UNCHANGED vars
  BY <1>7 DEF vars, Knows, AddedFirst
<1> QED BY <1>1, <1>2, <1>3, <1>4, <1>5, <1>6, <1>7 DEF Next

\* As long as every line can be loaded, the object in the map is never older than the
\* file, whichever goroutine made it and however often the process restarted.
THEOREM NeverStaleAlways == Spec => []NeverStale
<1>1. FileInv /\ [Next]_vars => FileInv'
  BY CacheKept, FileExistsKept, KnowsKept DEF FileInv
<1>2. FileInv => NeverStale
  BY DEF FileInv, Knows, NeverStale
<1> QED BY InitFile, <1>1, <1>2, PTL DEF Spec
=============================================================================
