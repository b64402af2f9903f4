--------------------------- MODULE MCAutolabelPanel ---------------------------
(***************************************************************************)
(* A user at the panel: what he does and the faults are counted, and so are  *)
(* the passes whose failure has reads sent once more, which may go on for    *)
(* ever.                                                                     *)
(***************************************************************************)
EXTENDS AutolabelPanel

CONSTANTS MaxClicks, MaxFaults, MaxAgain    \* bounds: of what is counted

VARIABLES clicks, faults, again

mcvars == <<vars, clicks, faults, again>>
SendsAgain == passing /\ ~passing' /\ sent' # <<>>

MCInit == Init /\ clicks = 0 /\ faults = 0 /\ again = 0
MCNext ==
    \/ clicks < MaxClicks /\ User /\ clicks' = clicks + 1 /\ UNCHANGED <<faults, again>>
    \/ /\ Progress \/ Worker
       /\ again' = IF SendsAgain THEN again + 1 ELSE again
       /\ again' <= MaxAgain /\ UNCHANGED <<clicks, faults>>
    \/ faults < MaxFaults /\ Fault /\ faults' = faults + 1 /\ UNCHANGED <<clicks, again>>
MCSpec == MCInit /\ [][MCNext]_mcvars /\ Fairness
=============================================================================
