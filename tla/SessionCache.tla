---------------------------- MODULE SessionCache ----------------------------
(***************************************************************************)
(* How the goroutines that handle messages for one session id come to      *)
(* share one Session object and one open file: SessionManager's sessions   *)
(* and fileHandles maps, LoadAll at startup, Shutdown at the end.          *)
(*                                                                         *)
(* A Session object is named after the goroutine that made it, and stands  *)
(* for the set of turns in it; a file handle after the goroutine that      *)
(* opened it.  A turn in LongTurns has a line too long for bufio.Scanner.  *)
(***************************************************************************)
EXTENDS Integers, FiniteSets

CONSTANTS
  Callers,        \* goroutines running HandleMessage for the session id
  LoadOnStartup,  \* config load_on_startup, per process: a set of booleans
  LongTurns,      \* turns whose line is longer than the scanner accepts
  MayStop,        \* whether the process may shut down, exit and start again
  MaxTurns        \* bound: turns added in a behaviour

ASSUME CacheAssumption ==
  /\ LoadOnStartup \subseteq BOOLEAN /\ MayStop \in BOOLEAN
  /\ MaxTurns \in Nat
  /\ LongTurns \subseteq 1 .. MaxTurns
  /\ Callers \cap {"none", "startup", "nil", "absent"} = {}

VARIABLES
  session,   \* the sessions map: the object stored for the id, or "none"
  heap,      \* the turns in each object
  fileThere, \* whether the session's file exists
  file,      \* the turns whose lines are in it
  cached,    \* the fileHandles map: "absent", "nil" or a handle
  opened,    \* the handles that are open
  pc,        \* where each goroutine is in ResolveOrCreate and Persist
  held,      \* the object each goroutine is going to use
  handle,    \* the handle Persist is going to use
  turn,      \* the turn being handled
  said,      \* history: number of turns added
  stopped    \* whether Shutdown has run in this process

files == <<cached, opened, handle>>
vars == <<session, heap, fileThere, file, cached, opened, pc, held, handle, turn,
          said, stopped>>

Objects == Callers \union {"startup"}
TurnId == 1 .. MaxTurns

\* LoadFromDisk gives up on the whole file at one line the scanner cannot take.
Loadable == file \cap LongTurns = {}

-----------------------------------------------------------------------------
Fresh == [c \in Callers |-> "none"]

\* Start: LoadAll stores what it could load and skips what it could not.
LoadedAtStartup(load) == load /\ fileThere /\ Loadable

Init ==
  /\ session = "none" /\ heap = [o \in Objects |-> {}]
  /\ fileThere = FALSE /\ file = {}
  /\ cached = "absent" /\ opened = {}
  /\ pc = [c \in Callers |-> "idle"]
  /\ held = Fresh /\ handle = Fresh
  /\ turn = [c \in Callers |-> 0]
  /\ said = 0 /\ stopped = FALSE

\* The process exits, cleanly or not, and another one starts.
Restart ==
  /\ MayStop
  /\ \E load \in LoadOnStartup :
       /\ session' = IF LoadedAtStartup(load) THEN "startup" ELSE "none"
       /\ heap' = [o \in Objects |->
                    IF o = "startup" /\ LoadedAtStartup(load) THEN file ELSE {}]
  /\ cached' = "absent" /\ opened' = {}
  /\ pc' = [c \in Callers |-> "idle"]
  /\ held' = Fresh /\ handle' = Fresh
  /\ turn' = [c \in Callers |-> 0]
  /\ stopped' = FALSE
  /\ UNCHANGED <<fileThere, file, said>>

\* Stop: every handle found in the map is closed; the map keeps it, and the
\* goroutines still at work are not waited for.
Shutdown ==
  /\ MayStop /\ ~stopped
  /\ stopped' = TRUE
  /\ opened' = opened \ {cached}
  /\ UNCHANGED <<session, heap, fileThere, file, cached, pc, held, handle, turn, said>>

-----------------------------------------------------------------------------
(* ResolveOrCreate *)

Goes(c, from, to) == pc[c] = from /\ pc' = [pc EXCEPT ![c] = to]

\* The fast path: the id is in the map.
FindSession(c) ==
  /\ session # "none"
  /\ Goes(c, "idle", "work")
  /\ held' = [held EXCEPT ![c] = session]
  /\ UNCHANGED <<session, heap, fileThere, file, files, turn, said, stopped>>

\* os.Stat decides whether to load the file or to create it.
StatFile(c) ==
  /\ session = "none"
  /\ Goes(c, "idle", IF fileThere THEN "load" ELSE "create")
  /\ UNCHANGED <<session, heap, fileThere, file, held, files, turn, said, stopped>>

\* A file that does not load makes the session start fresh.
LoadFile(c) ==
  /\ Goes(c, "load", "install")
  /\ heap' = [heap EXCEPT ![c] = IF Loadable THEN file ELSE {}]
  /\ UNCHANGED <<session, fileThere, file, held, files, turn, said, stopped>>

\* PersistCreated appends a header line, which stands for no turn.
CreateFile(c) ==
  /\ Goes(c, "create", "install")
  /\ heap' = [heap EXCEPT ![c] = {}]
  /\ fileThere' = TRUE
  /\ UNCHANGED <<session, file, held, files, turn, said, stopped>>

\* The map is written without looking.
Install_Store(c) ==
  /\ Goes(c, "install", "work")
  /\ session' = c
  /\ held' = [held EXCEPT ![c] = c]
  /\ UNCHANGED <<heap, fileThere, file, files, turn, said, stopped>>

\* LoadOrStore: the first to store wins, the others use the winner's object.
Install(c) ==
  /\ Goes(c, "install", "work")
  /\ session' = IF session = "none" THEN c ELSE session
  /\ held' = [held EXCEPT ![c] = session']
  /\ UNCHANGED <<heap, fileThere, file, files, turn, said, stopped>>

-----------------------------------------------------------------------------
(* A turn is added to the session held, then persisted *)

AddTurn(c) ==
  /\ said < MaxTurns
  /\ Goes(c, "work", "persist")
  /\ said' = said + 1
  /\ turn' = [turn EXCEPT ![c] = said + 1]
  /\ heap' = [heap EXCEPT ![held[c]] = @ \union {said + 1}]
  /\ UNCHANGED <<session, fileThere, file, held, files, stopped>>

\* The backend failed: no turn.
GiveUp(c) ==
  /\ Goes(c, "work", "idle")
  /\ UNCHANGED <<session, heap, fileThere, file, held, files, turn, said, stopped>>

\* Load in place of LoadOrStore: what is used is the entry before.
FindHandle_Load(c) ==
  /\ Goes(c, "persist", IF cached \in {"absent", "nil"} THEN "open" ELSE "write")
  /\ handle' = [handle EXCEPT ![c] = cached]
  /\ UNCHANGED <<session, heap, fileThere, file, held, cached, opened, turn, said, stopped>>

\* fileHandles.LoadOrStore(id, nil): a nil entry is put where there was none.
FindHandle(c) ==
  /\ Goes(c, "persist", IF cached \in {"absent", "nil"} THEN "open" ELSE "write")
  /\ cached' = IF cached = "absent" THEN "nil" ELSE cached
  /\ handle' = [handle EXCEPT ![c] = cached']
  /\ UNCHANGED <<session, heap, fileThere, file, held, opened, turn, said, stopped>>

OpenFile(c) ==
  /\ Goes(c, "open", "store")
  /\ opened' = opened \union {c}
  /\ handle' = [handle EXCEPT ![c] = c]
  /\ fileThere' = TRUE
  /\ UNCHANGED <<session, heap, file, held, cached, turn, said, stopped>>

\* The handle goes into the map over whatever is there.
StoreHandle(c) ==
  /\ Goes(c, "store", "write")
  /\ cached' = handle[c]
  /\ UNCHANGED <<session, heap, fileThere, file, held, opened, handle, turn, said,
                 stopped>>

\* The line is written, or the handle is closed and Persist returns an error,
\* which the hook's caller logs.
WriteTurn(c) ==
  /\ Goes(c, "write", "idle")
  /\ file' = IF handle[c] \in opened THEN file \union {turn[c]} ELSE file
  /\ UNCHANGED <<session, heap, fileThere, held, files, turn, said, stopped>>

-----------------------------------------------------------------------------
Resolve(c) ==
  FindSession(c) \/ StatFile(c) \/ LoadFile(c) \/ CreateFile(c) \/ Install(c)

Persist(c) == FindHandle(c) \/ OpenFile(c) \/ StoreHandle(c) \/ WriteTurn(c)

Next ==
  \/ \E c \in Callers : Resolve(c) \/ AddTurn(c) \/ GiveUp(c) \/ Persist(c)
  \/ Shutdown
  \/ Restart

Spec == Init /\ [][Next]_vars

-----------------------------------------------------------------------------
(* Properties *)

Using(c) == pc[c] \in {"work", "persist", "open", "store", "write"}

TypeOK ==
  /\ session \in Objects \union {"none"}
  /\ heap \in [Objects -> SUBSET TurnId]
  /\ fileThere \in BOOLEAN /\ stopped \in BOOLEAN
  /\ file \in SUBSET TurnId
  /\ cached \in Callers \union {"absent", "nil"}
  /\ opened \in SUBSET Callers
  /\ pc \in [Callers -> {"idle", "load", "create", "install", "work", "persist",
                         "open", "store", "write"}]
  /\ held \in [Callers -> Objects \union {"none"}]
  /\ handle \in [Callers -> Callers \union {"none", "nil"}]
  /\ turn \in [Callers -> 0 .. MaxTurns]
  /\ said \in 0 .. MaxTurns

\* However the first messages of a session race each other, the goroutines that
\* use it use one Session object: the one in the map.
OneSession == \A c \in Callers : Using(c) => held[c] = session

\* The session in the map knows every turn that is in the file, unless a line of
\* it cannot be read: an object built from an older reading of the file never
\* takes the place of the live one.
NeverStale == (session # "none" /\ Loadable) => file \subseteq heap[session]
=============================================================================
