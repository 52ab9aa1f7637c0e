------------------------------- MODULE Series -------------------------------
(***************************************************************************)
(* What an arena table promises its players, whatever the game, the clock  *)
(* and the order of their requests: a best-of-N series.  A round has at    *)
(* most one winner and adds one win to nobody else; the series is over     *)
(* with the win that gives somebody the majority of its N rounds and not   *)
(* before; a decided series stands until a new one starts from nought to   *)
(* nought.                                                                 *)
(***************************************************************************)
EXTENDS Naturals

CONSTANTS
  Side,     \* the two sides
  Nobody,   \* not a side
  Rounds    \* length of the series

VARIABLES phase, wins, last, champion

seriesState == <<phase, wins, last, champion>>

SeriesInit ==
  /\ phase = "playing"
  /\ wins = [s \in Side |-> 0]
  /\ last = Nobody
  /\ champion = Nobody

Decides(s) == 2 * (wins[s] + 1) > Rounds

WinRound(s) ==
  /\ phase = "playing"
  /\ wins' = [wins EXCEPT ![s] = @ + 1]
  /\ last' = s
  /\ phase' = IF Decides(s) THEN "finished" ELSE "round-finished"
  /\ champion' = IF Decides(s) THEN s ELSE Nobody

DrawRound ==
  /\ phase = "playing"
  /\ phase' = "round-finished"
  /\ last' = Nobody
  /\ UNCHANGED <<wins, champion>>

NextRound ==
  /\ phase = "round-finished"
  /\ phase' = "playing"
  /\ last' = Nobody
  /\ UNCHANGED <<wins, champion>>

NewSeries ==
  /\ phase = "finished"
  /\ phase' = "playing"
  /\ last' = Nobody
  /\ wins' = [s \in Side |-> 0]
  /\ champion' = Nobody

CloseTable ==
  /\ phase # "archived"
  /\ phase' = "archived"
  /\ UNCHANGED <<wins, last, champion>>

SeriesNext ==
  \/ \E s \in Side : WinRound(s)
  \/ DrawRound \/ NextRound \/ NewSeries \/ CloseTable

SeriesSpec == SeriesInit /\ [][SeriesNext]_seriesState

=============================================================================
