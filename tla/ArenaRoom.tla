----------------------------- MODULE ArenaRoom -----------------------------
(***************************************************************************)
(* A table of the arena games (server/core/arena/room.go): the state       *)
(* machine of a best-of-N series between the two seats "one" and "two",    *)
(* its turn timer and the chess clocks.  Every handler runs under room.mu, *)
(* so a handler is one step; what interleaves is the two players, the      *)
(* passing of time and the callbacks of time.AfterFunc, which are started  *)
(* when the time is up but wait for the lock like everyone else.           *)
(*                                                                         *)
(* The board itself is abstract: a legal move either decides the round,    *)
(* fills the board or passes the turn, and only the number of moves played *)
(* is kept.  One unit of time is one Tick.                                 *)
(***************************************************************************)
EXTENDS Naturals, FiniteSets

CONSTANTS
  Kind,             \* "grid" (Tic-Tac-Toe, Connect Four, Gomoku) or "chess"
  Misere,           \* TRUE when completing a line loses the round
  BestOf,           \* length of the series
  TurnLimit,        \* seconds per turn of a grid game, 0 when untimed
  ClockInitial,     \* chess: time on each clock when a round starts
  ClockIncrement,   \* chess: time added after a move
  FirstMoveWindow,  \* chess: time for each side's first move
  Cells,            \* cells of the board; for chess, a bound on the game's length
  Earliest,         \* the fewest moves after which a round can be decided
  MaxVersion,       \* bound: no round starts once timerVersion is past it
  MaxLag            \* bound: how far time runs past a deadline before it is seen

ASSUME RoomAssumption ==
  /\ Kind \in {"grid", "chess"}
  /\ Misere \in BOOLEAN
  /\ BestOf \in Nat \ {0}
  /\ TurnLimit \in Nat
  /\ ClockInitial \in Nat \ {0}
  /\ ClockIncrement \in Nat
  /\ FirstMoveWindow \in Nat \ {0}
  /\ Cells \in Nat \ {0}
  /\ Earliest \in Nat
  /\ MaxVersion \in Nat
  /\ MaxLag \in Nat

VARIABLES
  status,        \* "playing", "round-finished", "finished" or "archived"
  turn,          \* the mark to move
  winner,        \* winner of the last round, None while playing or drawn
  seriesWinner,  \* winner of the series, None until there is one
  round,         \* number of the round in the series
  score,         \* rounds won by each mark
  ready,         \* rematchReady: the marks that asked for the next round
  offer,         \* drawOfferedBy
  moves,         \* game.Moves, also len(chessMoves)
  armed,         \* the pending turnTimer: at most one callback
  fired,         \* callbacks started by the runtime that wait for room.mu
  version,       \* timerVersion
  started,       \* turnStarted is set: a chess clock is running
  elapsed,       \* time since the current turn's timer was set
  clock,         \* clockRemaining
  fair           \* history: the time each player really has left

turnVars   == <<turn, moves>>
seriesVars == <<status, winner, seriesWinner, round, score>>
timerVars  == <<armed, version, started, elapsed, clock>>
vars == <<turnVars, seriesVars, timerVars, ready, offer, fired, fair>>

Mark == {"one", "two"}
None == ""

OppositeOfOne(m) == IF m = "one" THEN "two" ELSE None   \* mutant of Opposite

Opposite(m) == IF m = "one" THEN "two" ELSE "one"

Clocked    == Kind = "chess"

HalfTheRounds == BestOf \div 2   \* mutant of WinsNeeded
AllTheRounds  == BestOf          \* mutant of WinsNeeded

WinsNeeded == BestOf \div 2 + 1

\* The callback of time.AfterFunc with the variables its closure captured.
Callback == [version : Nat, mark : Mark, opening : BOOLEAN]

\* Time left after t is taken from r: max(0, r - t).
Less(r, t) == IF r > t THEN r - t ELSE 0

NoClock   == [m \in Mark |-> 0]
FullClock == IF Clocked THEN [m \in Mark |-> ClockInitial] ELSE NoClock

-----------------------------------------------------------------------------
(* The turn timer. *)

OpeningOfOne(n) == Clocked /\ n < 1   \* mutant of Opening

\* Each side's first chess move has a window of its own.
Opening(n) == Clocked /\ n < 2

\* Mutant of Duration: the first-move window is forgotten.
DurationNoWindow(m, n, ck) ==
  CASE Opening(n)              -> 0
    [] Clocked /\ ~ Opening(n) -> ck[m]
    [] ~ Clocked               -> TurnLimit

\* How long mark m has for the move after n moves, with the clocks ck.
Duration(m, n, ck) ==
  CASE Opening(n)              -> FirstMoveWindow
    [] Clocked /\ ~ Opening(n) -> ck[m]
    [] ~ Clocked               -> TurnLimit

StopTimer ==
  /\ armed'   = {}
  /\ started' = FALSE
  /\ elapsed' = 0
  /\ version' = version + 1

\* Mutant of ResetTimer: the closure captures the version before it is counted up.
ResetTimerOldVersion(m, n, ck) ==
  IF Duration(m, n, ck) = 0
  THEN StopTimer
  ELSE /\ version' = version + 2
       /\ armed'   = {[version |-> version + 1, mark |-> m, opening |-> Opening(n)]}
       /\ started' = (Clocked /\ ~ Opening(n))
       /\ elapsed' = 0

\* StopTimer, then a new timer for mark m unless the turn is untimed.
ResetTimer(m, n, ck) ==
  IF Duration(m, n, ck) = 0
  THEN StopTimer
  ELSE /\ version' = version + 2
       /\ armed'   = {[version |-> version + 2, mark |-> m, opening |-> Opening(n)]}
       /\ started' = (Clocked /\ ~ Opening(n))
       /\ elapsed' = 0

-----------------------------------------------------------------------------
(* Rounds and series. *)

Init ==
  /\ status = "playing"
  /\ turn = "one"
  /\ winner = None
  /\ seriesWinner = None
  /\ round = 1
  /\ score = [m \in Mark |-> 0]
  /\ ready = {}
  /\ offer = None
  /\ moves = 0
  /\ clock = FullClock
  /\ fair = FullClock
  /\ elapsed = 0
  /\ started = FALSE
  /\ fired = {}
  /\ version = IF Duration("one", 0, FullClock) = 0 THEN 1 ELSE 2
  /\ armed = IF Duration("one", 0, FullClock) = 0
             THEN {}
             ELSE {[version |-> 2, mark |-> "one", opening |-> Opening(0)]}

\* The round is won by w (None: drawn) with the clocks ck, from which the
\* time of the running turn is still to be taken.
FinishRound(w, ck) ==
  LET decides == w # None /\ score[w] + 1 >= WinsNeeded
  IN  /\ clock' = IF started THEN [ck EXCEPT ![turn] = Less(@, elapsed)] ELSE ck
      /\ StopTimer
      /\ winner' = w
      /\ score' = [m \in Mark |-> IF m = w THEN score[m] + 1 ELSE score[m]]
      /\ status' = IF decides THEN "finished" ELSE "round-finished"
      /\ seriesWinner' = IF decides THEN w ELSE seriesWinner
      /\ UNCHANGED <<round, turn>>

OpenerFixed(r) == "one"   \* mutant of Opener

\* Chess always opens with "one"; the other games alternate with the rounds.
Opener(r) == IF Clocked \/ r % 2 = 1 THEN "one" ELSE "two"

StartNextRound(r) ==
  /\ round' = r
  /\ winner' = None
  /\ status' = "playing"
  /\ offer' = None
  /\ ready' = {}
  /\ moves' = 0
  /\ turn' = Opener(r)
  /\ clock' = FullClock
  /\ fair' = FullClock
  /\ ResetTimer(Opener(r), 0, FullClock)

PassTurn(ck) ==
  /\ turn' = Opposite(turn)
  /\ clock' = ck
  /\ ResetTimer(Opposite(turn), moves + 1, ck)
  /\ UNCHANGED seriesVars

-----------------------------------------------------------------------------
(* Requests of the players.  A request the handler refuses with an error    *)
(* changes nothing and is not a step.                                       *)

\* HandleMove: a legal move in a grid game.
GridMove(m) ==
  /\ Kind = "grid"
  /\ status = "playing"
  /\ m = turn
  /\ moves < Cells
  /\ moves' = moves + 1
  /\ \/ /\ moves + 1 >= Earliest
        /\ FinishRound(IF Misere THEN Opposite(m) ELSE m, clock)
     \/ /\ moves + 1 = Cells
        /\ FinishRound(None, clock)
     \/ /\ moves + 1 < Cells
        /\ PassTurn(clock)
  /\ UNCHANGED <<ready, offer, fired, fair>>

\* HandleChessMove when the mover's clock ran out before the handler got the lock.
ChessMoveTooLate(m) ==
  /\ Kind = "chess"
  /\ status = "playing"
  /\ m = turn
  /\ started /\ clock[m] <= elapsed
  /\ FinishRound(Opposite(m), [clock EXCEPT ![m] = 0])
  /\ UNCHANGED <<moves, ready, offer, fired, fair>>

OfferKept(m) == offer   \* mutant of OfferAfterMove

\* A move by the player the offer was made to withdraws it.
OfferAfterMove(m) == IF offer # m THEN None ELSE offer

\* The clocks ck after the increment for m's move.
Incremented(m, ck) == IF started THEN [ck EXCEPT ![m] = @ + ClockIncrement] ELSE ck

ChargedOpponent(m) ==   \* mutant of Charged
  IF started THEN [clock EXCEPT ![Opposite(m)] = Less(@, elapsed)] ELSE clock

\* The clocks after m has used the running turn.
Charged(m) == IF started THEN [clock EXCEPT ![m] = Less(@, elapsed)] ELSE clock

\* HandleChessMove: a legal chess move in time.
ChessMove(m) ==
  /\ Kind = "chess"
  /\ status = "playing"
  /\ m = turn
  /\ started => clock[m] > elapsed
  /\ moves < Cells
  /\ moves' = moves + 1
  /\ offer' = OfferAfterMove(m)
  /\ fair' = Incremented(m, fair)
  /\ \/ /\ moves + 1 >= Earliest
        /\ \E w \in {m, None} : FinishRound(w, Incremented(m, Charged(m)))
     \/ PassTurn(Incremented(m, Charged(m)))
  /\ UNCHANGED <<ready, fired>>

OfferDraw(m) ==
  /\ Kind = "chess"
  /\ status = "playing"
  /\ moves # 0
  /\ m # turn
  /\ offer = None
  /\ offer' = m
  /\ UNCHANGED <<turnVars, seriesVars, timerVars, ready, fired, fair>>

\* The handler looks at the offer only, not at the status.
AcceptDraw(m) ==
  /\ offer \notin {None, m}
  /\ offer' = None
  /\ FinishRound(None, clock)
  /\ UNCHANGED <<moves, ready, fired, fair>>

DeclineDraw(m) ==
  /\ offer \notin {None, m}
  /\ offer' = None
  /\ UNCHANGED <<turnVars, seriesVars, timerVars, ready, fired, fair>>

Resign(m) ==
  /\ status = "playing"
  /\ FinishRound(Opposite(m), clock)
  /\ UNCHANGED <<moves, ready, offer, fired, fair>>

\* Mutant of AskRematch: asked for while the round is being played.
AskRematchEarly(m) ==
  /\ status # "archived"
  /\ ready \cup {m} # Mark
  /\ ready' = ready \cup {m}
  /\ UNCHANGED <<turnVars, seriesVars, timerVars, offer, fired, fair>>

\* The first of the two requests for the next round.
AskRematch(m) ==
  /\ status \in {"round-finished", "finished"}
  /\ ready \cup {m} # Mark
  /\ ready' = ready \cup {m}
  /\ UNCHANGED <<turnVars, seriesVars, timerVars, offer, fired, fair>>

\* The second one starts the round, or the next series.
AgreeRematch(m) ==
  /\ status \in {"round-finished", "finished"}
  /\ ready \cup {m} = Mark
  /\ version <= MaxVersion
  /\ IF status = "finished"
     THEN /\ score' = [k \in Mark |-> 0]
          /\ seriesWinner' = None
          /\ StartNextRound(1)
     ELSE /\ UNCHANGED <<score, seriesWinner>>
          /\ StartNextRound(round + 1)
  /\ UNCHANGED fired

-----------------------------------------------------------------------------
(* Calls of the hub and of the runtime. *)

\* Hub.LeaveRoom, or the grace period of Hub.Disconnect running out.
Forfeit(m) ==
  /\ status = "playing"
  /\ FinishRound(Opposite(m), clock)
  /\ UNCHANGED <<moves, ready, offer, fired, fair>>

\* Hub.removeIfAbandoned: both players have been gone for roomRetention.
Archive ==
  /\ status # "archived"
  /\ status' = "archived"
  /\ StopTimer
  /\ UNCHANGED <<turnVars, winner, seriesWinner, round, score, clock, ready,
                 offer, fired, fair>>

\* Time passes in a timed turn.
Tick ==
  /\ armed # {} \/ fired # {}
  /\ status = "playing"
  /\ elapsed < Duration(turn, moves, clock) + MaxLag
  /\ elapsed' = elapsed + 1
  /\ fair' = IF Clocked /\ moves >= 2 THEN [fair EXCEPT ![turn] = Less(@, 1)] ELSE fair
  /\ UNCHANGED <<turnVars, seriesVars, armed, version, started, clock, ready,
                 offer, fired>>

\* The time is up: the runtime starts the callback, which waits for room.mu.
\* From here on turnTimer.Stop() comes too late.
FireTimer(c) ==
  /\ c \in armed
  /\ elapsed >= Duration(turn, moves, clock)
  /\ armed' = armed \ {c}
  /\ fired' = fired \cup {c}
  /\ UNCHANGED <<turnVars, seriesVars, version, started, elapsed, clock, ready,
                 offer, fair>>

CurrentAnyVersion(c) == status = "playing" /\ turn = c.mark   \* mutant of Current

\* The callback's test that it still speaks for the turn it was set for.
Current(c) == status = "playing" /\ version = c.version /\ turn = c.mark

\* The callback gets the lock and the turn is still the one it was set for.
TimeOut(c) ==
  /\ c \in fired
  /\ Current(c)
  /\ fired' = fired \ {c}
  /\ FinishRound(Opposite(c.mark),
                 IF Clocked /\ ~ c.opening THEN [clock EXCEPT ![c.mark] = 0] ELSE clock)
  /\ UNCHANGED <<moves, ready, offer, fair>>

\* The callback gets the lock after the turn it was set for is over.
StaleCallback(c) ==
  /\ c \in fired
  /\ ~ Current(c)
  /\ fired' = fired \ {c}
  /\ UNCHANGED <<turnVars, seriesVars, timerVars, ready, offer, fair>>

Request(m) ==
  \/ GridMove(m) \/ ChessMove(m) \/ ChessMoveTooLate(m)
  \/ OfferDraw(m) \/ AcceptDraw(m) \/ DeclineDraw(m)
  \/ Resign(m) \/ AskRematch(m) \/ AgreeRematch(m) \/ Forfeit(m)

Timers ==
  \/ Tick
  \/ \E c \in armed : FireTimer(c)
  \/ \E c \in fired : TimeOut(c) \/ StaleCallback(c)

Next == (\E m \in Mark : Request(m)) \/ Archive \/ Timers

\* Time passes, due timers fire and their callbacks get the lock.  Nobody
\* has to move, to answer an offer or to ask for a rematch.
Fairness ==
  /\ WF_vars(Tick)
  /\ WF_vars(\E c \in armed : FireTimer(c))
  /\ WF_vars(\E c \in fired : TimeOut(c) \/ StaleCallback(c))

Spec == Init /\ [][Next]_vars /\ Fairness

-----------------------------------------------------------------------------
(* Properties. *)

TypeOK ==
  /\ status \in {"playing", "round-finished", "finished", "archived"}
  /\ turn \in Mark
  /\ winner \in Mark \cup {None}
  /\ seriesWinner \in Mark \cup {None}
  /\ round \in Nat
  /\ score \in [Mark -> Nat]
  /\ ready \subseteq Mark
  /\ offer \in Mark \cup {None}
  /\ moves \in 0..Cells
  /\ armed \subseteq Callback
  /\ fired \subseteq Callback
  /\ version \in Nat
  /\ started \in BOOLEAN
  /\ elapsed \in Nat
  /\ clock \in [Mark -> Nat]
  /\ fair \in [Mark -> Nat]

\* The series is decided exactly when somebody has won the majority of its
\* rounds, by the player who won the last round, and a round is only played
\* or waited for while nobody has.  (finishRoundLocked, ReadyRematch)
SeriesConsistent ==
  /\ status = "finished" =>
       /\ seriesWinner # None
       /\ seriesWinner = winner
       /\ 2 * score[seriesWinner] > BestOf
       /\ 2 * (score[seriesWinner] - 1) <= BestOf
       /\ 2 * score[Opposite(seriesWinner)] <= BestOf
  /\ status \in {"playing", "round-finished"} =>
       /\ seriesWinner = None
       /\ \A m \in Mark : 2 * score[m] <= BestOf

\* The player to move follows from the round and the number of moves: "one"
\* opens the odd rounds of a series and every game of chess, "two" the even
\* rounds of a grid game, and the turn passes with every move whatever
\* timers, offers and callbacks do in between.
TurnAlternates ==
  status = "playing" =>
    LET opener == IF Kind = "grid" /\ round % 2 = 0 THEN "two" ELSE "one"
    IN  turn = IF moves % 2 = 0 THEN opener ELSE Opposite(opener)

\* Nobody's consent to an earlier round starts a later one: a round is played
\* with an empty list of requests for the next.  (ReadyRematch)
RematchFresh == status = "playing" => ready = {}

\* A draw offer is for the opponent's turn: it is gone once the opponent has
\* moved, so a player never moves while their own offer is still open.
OfferAwaitsOpponent ==
  status = "playing" /\ offer # None => turn = Opposite(offer)

\* While a round is played the clocks show the time really left: the bank of
\* the player to move less the running turn, untouched by the first moves.
ClockHonest ==
  status = "playing" =>
    \A m \in Mark :
      fair[m] = IF started /\ m = turn THEN Less(clock[m], elapsed) ELSE clock[m]

\* A turn of a timed game always has its own deadline: the timer set for this
\* very turn is pending, or its callback is on its way to the lock.  Without
\* it an absent player would hold up the opponent for ever.
TurnIsTimed ==
  status = "playing" /\ (Clocked \/ TurnLimit # 0) =>
    \E c \in armed \cup fired : c.version = version /\ c.mark = turn

\* A callback ends a round only if the player whose turn it is has used up the
\* time of this turn: one that was set for an earlier turn and lost the race
\* for the lock has no effect.  (resetTurnTimerLocked)
NoEarlyTimeout ==
  [][\A c \in fired : c \notin fired' /\ status = "playing" /\ status' # "playing"
       => elapsed >= Duration(turn, moves, clock)]_vars

\* A round of a timed game ends, even if both players do nothing.
RoundEnds ==
  Clocked \/ TurnLimit # 0 => (status = "playing" ~> status # "playing")

\* The table keeps the promises of module Series.
Promise == INSTANCE Series
  WITH Side <- Mark, Nobody <- None, Rounds <- BestOf,
       phase <- status, wins <- score, last <- winner, champion <- seriesWinner

KeepsPromise == Promise!SeriesSpec

-----------------------------------------------------------------------------
(* The inductive invariants behind these properties. *)

\* A pending timer is the current turn's, no callback is newer than the timer,
\* and one as new as the timer speaks for a turn whose time is used up.
TimerInv ==
  /\ \A c, d \in armed : c = d
  /\ \A c \in armed : status = "playing" /\ c.version = version /\ c.mark = turn
  /\ \A c \in fired : c.version <= version
  /\ \A c \in fired : c.version = version =>
       /\ armed = {}
       /\ status = "playing"
       /\ c.mark = turn
       /\ elapsed >= Duration(turn, moves, clock)
  /\ status = "playing" /\ Duration(turn, moves, clock) # 0 =>
       \E c \in armed \cup fired : c.version = version /\ c.mark = turn

\* Nobody who is still playing has run out of time, so no turn of a chess game
\* starts untimed because its duration is nought.
ClockPositive == status = "playing" /\ Clocked => \A m \in Mark : clock[m] > 0

\* Draws are only ever offered in chess.
OffersInChess == offer # None => Kind = "chess"

RoomInv == TypeOK /\ TimerInv /\ ClockPositive /\ RematchFresh
           /\ OffersInChess /\ OfferAwaitsOpponent

-----------------------------------------------------------------------------
(* What the code's own words promise and the code does not keep. *)

\* "draw offers are only available during an active chess game": a series
\* that is decided stays so until the players agree to a new one.
DecidedSeriesStands ==
  [][status = "finished" => status' \in {"finished", "playing", "archived"}]_vars

\* "so the final clocks show the real time used": when a round is over each
\* clock shows the time its player really had left.
FinalClocksHonest ==
  status \in {"round-finished", "finished"} => clock = fair

=============================================================================
