---------------------------- MODULE PromptPipeline ----------------------------
(***************************************************************************)
(* The packet pipeline when its metrics thread keeps up: it finds the      *)
(* queue empty, and makes its idle check, at least once per unit of the    *)
(* clock.  (The loop sleeps 10 ms when idle; the update interval is at     *)
(* least a second.)  How long a window lasts can be bounded only then.     *)
(***************************************************************************)
EXTENDS PacketPipeline

VARIABLE checkedAt   \* when the idle check was last made

promptVars == <<vars, checkedAt>>

PromptInit == Init /\ checkedAt = -1

PromptNext ==
    /\ Next
    /\ checkedAt' = IF FlushWhenIdle THEN clock ELSE checkedAt
    /\ clock' # clock => checkedAt = clock

PromptSpec == PromptInit /\ [][PromptNext]_promptVars

\* No window stays open for more than two update intervals, and the clock unit
\* that may pass before the loop looks again: a packet (of any stream)
\* tabulated just before the window is due postpones the idle flush, but only
\* by one interval.  Catches an idle flush that a busy stream can starve.
WindowsCloseInTime ==
    \A s \in DOMAIN windows :
        clock <= windows[s].lastUpdate + 2 * UpdateInterval + 1

=============================================================================
