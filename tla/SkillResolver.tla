--------------------------- MODULE SkillResolver ---------------------------
(***************************************************************************)
(* Which skill a message calls for: Resolver.Resolve reads the directory   *)
(* of skills anew for every message, one skill after the other, and takes  *)
(* the one with the longest trigger the message contains, while the        *)
(* operator adds, rewrites and removes skills.                             *)
(*                                                                         *)
(* A trigger is its length and whether the message at hand contains it.    *)
(***************************************************************************)
EXTENDS Integers, Sequences, FiniteSetsExt

CONSTANTS
  Names,          \* of entries of the directory, which is listed in their order
  TriggerLengths, \* 0 for an empty trigger, which every message contains
  MaxTriggers,    \* bound: of a skill
  MaxChanges      \* bound: of the directory

ASSUME ResolverAssumption ==
  /\ Names \subseteq Nat \ {0} /\ TriggerLengths \subseteq Nat
  /\ MaxTriggers \in Nat /\ MaxChanges \in Nat

VARIABLES
  skills,    \* what stands under each name
  resolve,   \* Resolve: "idle", "reading", "returned", "failed"
  left,      \* names listed and not yet read
  current,   \* the skill read last
  considered,\* of its triggers
  best,      \* the skill to return and the length of the trigger it matched
  had,       \* history: what has stood under each name since the directory was listed
  changes    \* of the directory, so far

skillVars == <<skills, resolve, left, current, considered, best, had, changes>>

-----------------------------------------------------------------------------
Trigger == {t \in [length : TriggerLengths, found : BOOLEAN] : t.length = 0 => t.found}

\* An entry that is no directory, has no SKILL.md, no frontmatter or no name is passed over,
\* as one without triggers is.
Entry == {e \in [there : BOOLEAN, triggers : UNION {[1 .. k -> Trigger] : k \in 0 .. MaxTriggers}] :
            ~e.there => e.triggers = <<>>}

Skill(name, triggers) == [name |-> name, triggers |-> triggers]

NoSkill == Skill(0, <<>>)

Nothing == [skill |-> NoSkill, length |-> 0]

\* A trigger as long as the best so far takes its place.
Better_Last(trigger) == trigger.found /\ trigger.length >= best.length

Better(trigger) == trigger.found /\ trigger.length > best.length

-----------------------------------------------------------------------------
SkillsStart(dir) ==
  /\ skills = dir
  /\ resolve = "idle" /\ left = {} /\ current = NoSkill /\ considered = 0 /\ best = Nothing
  /\ had = [n \in Names |-> {}] /\ changes = 0

\* Any directory.
SkillsInit == \E dir \in [Names -> Entry] : SkillsStart(dir)

\* The directory is listed, or cannot be.
ReadDir ==
  /\ resolve = "idle"
  /\ \/ /\ resolve' = "reading" /\ left' = {n \in Names : skills[n].there}
        /\ had' = [n \in Names |-> {skills[n]}]
     \/ /\ resolve' = "failed" /\ UNCHANGED <<left, had>>
  /\ current' = NoSkill /\ considered' = 0 /\ best' = Nothing
  /\ UNCHANGED <<skills, changes>>

\* The next file is read as it is now, if it still is.
ReadSkill ==
  /\ resolve = "reading" /\ considered = Len(current.triggers) /\ left # {}
  /\ LET n == Min(left) IN
       /\ current' = Skill(n, skills[n].triggers)
       /\ left' = left \ {n}
  /\ considered' = 0
  /\ UNCHANGED <<skills, resolve, best, had, changes>>

ConsiderTrigger ==
  /\ resolve = "reading" /\ considered < Len(current.triggers)
  /\ considered' = considered + 1
  /\ LET trigger == current.triggers[considered'] IN
       best' = IF Better(trigger) THEN [skill |-> current, length |-> trigger.length] ELSE best
  /\ UNCHANGED <<skills, resolve, left, current, had, changes>>

Return ==
  /\ resolve = "reading" /\ considered = Len(current.triggers) /\ left = {}
  /\ resolve' = "returned"
  /\ UNCHANGED <<skills, left, current, considered, best, had, changes>>

\* Another message.
NextMessage ==
  /\ resolve \in {"returned", "failed"} /\ resolve' = "idle"
  /\ UNCHANGED <<skills, left, current, considered, best, had, changes>>

\* The operator (external) adds, rewrites or removes a skill.
Change ==
  /\ changes < MaxChanges /\ changes' = changes + 1
  /\ \E n \in Names, e \in Entry :
       /\ skills' = [skills EXCEPT ![n] = e]
       /\ had' = IF resolve = "reading" THEN [had EXCEPT ![n] = @ \union {e}] ELSE had
  /\ UNCHANGED <<resolve, left, current, considered, best>>

SkillsNext == ReadDir \/ ReadSkill \/ ConsiderTrigger \/ Return \/ NextMessage \/ Change

SkillsSpec == SkillsInit /\ [][SkillsNext]_skillVars

-----------------------------------------------------------------------------
(* Properties *)

\* Lengths of the triggers the message contains.
Matches(triggers) == {triggers[i].length : i \in {j \in DOMAIN triggers : triggers[j].found}}

\* The right choice in a directory: the first skill, by name, of those with the longest
\* match, and none if there is no match or only an empty one.
Chosen(dir) ==
  \/ /\ best.skill = NoSkill
     /\ \A n \in Names : \A l \in Matches(dir[n].triggers) : l = 0
  \/ \E n \in Names : \E l \in Matches(dir[n].triggers) :
       /\ best.skill = Skill(n, dir[n].triggers) /\ l > 0
       /\ \A m \in Names : \A k \in Matches(dir[m].triggers) : k < l \/ (k = l /\ n <= m)

\* However skills come and go while they are read, the choice is the right one for
\* a directory in which each name had what stood there at some time since the directory was
\* listed; and if nothing changed, for the directory as it was then (Resolver.Resolve).
LongestTrigger ==
  resolve = "returned" =>
    \E dir \in [Names -> UNION {had[n] : n \in Names}] :
      (\A n \in Names : dir[n] \in had[n]) /\ Chosen(dir)
=============================================================================
