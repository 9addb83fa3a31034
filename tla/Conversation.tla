---------------------------- MODULE Conversation ----------------------------
(***************************************************************************)
(* What the agent promises of one conversation, compaction and files left  *)
(* out.  While a process runs, turns are added at the end, the oldest may  *)
(* be condensed, the latest never, and the conversation accounts for every *)
(* one of them.  Only a restart forgets: it brings back exactly the turns  *)
(* that were saved, word for word where they were kept so, or nothing once *)
(* something was saved that cannot be read back.                           *)
(***************************************************************************)
EXTENDS Integers, Sequences

VARIABLES
  known,     \* the turns the conversation accounts for
  saved,     \* the turns that were saved
  verbatim,  \* the turns kept word for word, oldest first
  intact,    \* whether all that was saved can be read back
  run        \* which run of the process it is, even (0) or odd (1)

vars == <<known, saved, verbatim, intact, run>>

Init == known = {} /\ saved = {} /\ verbatim = <<>> /\ intact = TRUE /\ run = 0

\* A turn newer than every other is added.
Say ==
  \E t \in known' :
    /\ \A u \in known \union saved : u < t
    /\ known' = known \union {t}
    /\ verbatim' = Append(verbatim, t)
    /\ UNCHANGED <<saved, intact, run>>

\* A turn is saved, possibly in a form that spoils what is saved.
Save ==
  /\ \E t \in known : saved' = saved \union {t}
  /\ intact' => intact
  /\ UNCHANGED <<known, verbatim, run>>

\* Some of the oldest turns are no longer kept word for word ...
Condense ==
  \E k \in 1 .. Len(verbatim) - 1 :
    /\ verbatim' = SubSeq(verbatim, k + 1, Len(verbatim))
    /\ UNCHANGED <<known, saved, intact, run>>

\* ... and what stands for them may spoil what is saved.
Spoil == intact' = FALSE /\ UNCHANGED <<known, saved, verbatim, run>>

\* The process restarts.  The turns kept word for word are kept again, but for the
\* latest ones if they were not saved, and behind those older ones that were condensed
\* and whose condensed form was not saved.
Resume ==
  /\ intact
  /\ known' = saved
  /\ \E n \in 0 .. Len(verbatim), k \in 0 .. Len(verbatim') :
       /\ SubSeq(verbatim', k + 1, Len(verbatim')) = SubSeq(verbatim, 1, n)
       /\ \A i \in n + 1 .. Len(verbatim) : verbatim[i] \notin saved
  /\ \A i \in DOMAIN verbatim' : verbatim'[i] \in saved
  /\ \A i, k \in DOMAIN verbatim' : i < k => verbatim'[i] < verbatim'[k]
  /\ run' = 1 - run
  /\ UNCHANGED <<saved, intact>>

\* It restarts with nothing.
StartFresh ==
  /\ ~intact
  /\ known' = {} /\ verbatim' = <<>>
  /\ run' = 1 - run
  /\ UNCHANGED <<saved, intact>>

Next == Say \/ Save \/ Condense \/ Spoil \/ Resume \/ StartFresh

Spec == Init /\ [][Next]_vars
=============================================================================
