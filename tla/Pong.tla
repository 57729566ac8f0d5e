-------------------------------- MODULE Pong --------------------------------
(* The hidden game of recovery/pong.cpp, called from the main menu of the      *)
(* recovery.  Positions are uint8_t, so the middle of a screen of Height rows  *)
(* is taken modulo U8.                                                         *)
EXTENDS Integers

CONSTANTS U8, Height,   \* values of a uint8_t, and the rows of the screen (256, 1080)
          Period,       \* simulated in every turn but each tenth
          MaxKeys       \* bound on the keys pressed

VARIABLES running,      \* the loop that runs, of all programs
          paused, started, debug, input_locked, iteration, game_tick,
          bot_pos, player_pos, \* the middles of the paddles
          keys                 \* keys pressed, in all programs

flags == <<paused, started, debug>>
turn == <<input_locked, iteration>>
pongVars == <<flags, turn, game_tick, bot_pos, player_pos>>

GameKeys == {"Escape", "Space", "ArrowUp", "ArrowDown", "D"}
Middle == (Height \div 2) % U8
BallY == Height \div 2 - 50
Lowest == Height - 50           \* the bound of ArrowDown, beyond any uint8_t

\* Before the first game; the constructor of each game sets the same.
Init ==
  /\ paused = TRUE /\ started = FALSE /\ debug = FALSE
  /\ input_locked = FALSE /\ iteration = 0 /\ game_tick = 0
  /\ bot_pos = Middle /\ player_pos = Middle

Pressed(key) ==
  /\ key \in GameKeys \cup {"NONE"} /\ (key # "NONE" => keys < MaxKeys)
  /\ keys' = IF key = "NONE" THEN keys ELSE keys + 1

\* simulate_bot follows a ball that simulate_ball draws but never moves.
Simulate(isPaused) ==
  bot_pos' = IF ~isPaused /\ game_tick' # 0 THEN BallY % U8 ELSE bot_pos
Tick == game_tick' = (game_tick + 1) % Period

\* Every other turn reads a key and drops it.
Unlock(key) ==
  /\ running = "pong" /\ input_locked /\ Pressed(key) /\ Tick
  /\ iteration' = 0 /\ input_locked' = FALSE
  /\ Simulate(paused)
  /\ UNCHANGED <<running, flags, player_pos>>

\* A key that is handled, or none, locks the input for a turn.
Handled == iteration' = 0 /\ input_locked' = TRUE

Space(key) ==
  /\ running = "pong" /\ ~input_locked /\ Pressed(key) /\ key = "Space" /\ Tick /\ Handled
  /\ paused' = ~paused
  /\ LET starts == paused /\ ~started IN
     /\ started' = (started \/ starts)
     /\ player_pos' = IF starts THEN 10 % U8 ELSE player_pos
     /\ bot_pos' = IF ~paused' /\ game_tick' # 0 THEN BallY % U8
                   ELSE IF starts THEN 10 % U8 ELSE bot_pos
  /\ UNCHANGED <<running, debug>>

\* At its bound a paddle stays, and the turn ends there: the input is not locked.
Move(key) ==
  /\ running = "pong" /\ ~input_locked /\ Pressed(key) /\ key \in {"ArrowUp", "ArrowDown"} /\ Tick
  /\ IF player_pos = (IF key = "ArrowUp" THEN 0 ELSE Lowest)
       THEN iteration' = iteration + 1 /\ UNCHANGED <<input_locked, player_pos, bot_pos>>
       ELSE /\ Handled /\ Simulate(paused)
            /\ player_pos' = (IF key = "ArrowUp" THEN player_pos - 1 ELSE player_pos + 1) % U8
  /\ UNCHANGED <<running, flags>>

Other(key) ==
  /\ running = "pong" /\ ~input_locked /\ Pressed(key) /\ key \in {"D", "NONE"} /\ Tick
  /\ Handled /\ Simulate(paused)
  /\ debug' = IF key = "D" THEN ~debug ELSE debug
  /\ UNCHANGED <<running, paused, started, player_pos>>

\* The game is left: ~Pong frees the address of a member of an object on the stack, and
\* kfree panics on a pointer outside of its arena.
Leave(key) ==
  /\ running = "pong" /\ ~input_locked /\ Pressed(key) /\ key = "Escape"
  /\ running' = "panic"
  /\ UNCHANGED pongVars

Next ==
  \E key \in GameKeys \cup {"NONE"} :
    Unlock(key) \/ Space(key) \/ Move(key) \/ Other(key) \/ Leave(key)
=============================================================================
