------------------------------ MODULE MCTexts ------------------------------
\* Algorithms that share no state: each is run from where the others begin.
EXTENDS Prompt, AnswerText, MessageSplit, SkillResolver

Bare == [n \in Names |-> [there |-> FALSE, triggers |-> <<>>]]

Init ==
  /\ PromptInit /\ TextInit
  /\ \/ SplitInit /\ SkillsStart(Bare)
     \/ SplitStart(<<>>) /\ SkillsInit

\* Where the algorithms begin.
PromptIdle == PromptInit /\ backend = "api"
SplitIdle == SplitStart(<<>>)
SkillsIdle == SkillsStart(Bare)

Next ==
  \/ PromptNext /\ TextInit /\ SplitIdle /\ SkillsIdle /\ UNCHANGED <<textVars, splitVars, skillVars>>
  \/ TextNext /\ PromptIdle /\ SplitIdle /\ SkillsIdle /\ UNCHANGED <<promptVars, splitVars, skillVars>>
  \/ SplitNext /\ PromptIdle /\ TextInit /\ SkillsIdle /\ UNCHANGED <<promptVars, textVars, skillVars>>
  \/ SkillsNext /\ PromptIdle /\ TextInit /\ SplitIdle /\ UNCHANGED <<promptVars, textVars, splitVars>>

Spec == Init /\ [][Next]_<<promptVars, textVars, splitVars, skillVars>>
=============================================================================
