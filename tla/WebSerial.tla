------------------------------ MODULE WebSerial ------------------------------
(***************************************************************************)
(* The serial connection and the command queue of the two Web Serial pages *)
(* (frdm_shell_bench_tool__i2c_gpio and frdm_can_shell_monitor_cdc, under  *)
(* scripts/): runCommand chains commands behind the promise commandTail,   *)
(* runCommandUnlocked writes one and waits for a prompt or for its timer,  *)
(* readLoop appends what the board prints to the one global "pending".     *)
(* The board's shell executes lines in order and prints output and prompt. *)
(* The Disconnect button is pressed once per connection.                   *)
(***************************************************************************)
EXTENDS Integers, Sequences, FiniteSets, SequencesExt

CONSTANTS
    MAX_COMMANDS,   \* bound: commands given to runCommand
    MAX_UPSETS,     \* bound: lost text, write errors, frames printed, timers that
                    \* are too early, and connections after the first
    MAX_FILTERS     \* receive filters the CAN controller has

ASSUME WebAssumption ==
    /\ {MAX_COMMANDS, MAX_UPSETS, MAX_FILTERS} \subseteq Nat
    /\ MAX_COMMANDS > 0

VARIABLES
    conn,       \* "closed", "open", or inside disconnect: "closing", "released"
    broken,     \* the writer's stream has failed
    queue,      \* commands behind commandTail whose task has not run
    running,    \* the command whose promise is not settled, or None
    pending,    \* the global: whether it is set, and the text received for it
    timers,     \* identifiers of commands whose timer is armed
    writes,     \* commands being written to the port
    dev,        \* lines the board has received and not executed
    line,       \* text on its way to the page
    last,       \* how the last settled command ended, and with which text
    quiet,      \* the board owed nothing when the running command was written
    issued,     \* commands given to runCommand so far
    own,        \* every command so far ended with a prompt and just its own text
    cut,        \* disconnect forgot a command that was not settled
    connected,  \* the port was opened before
    upsets,     \* what went wrong so far
    installed,  \* filters the board's controller has
    started     \* the board's CAN controller is started

pageVars == <<queue, running, pending, timers, last, quiet, issued, own, cut>>
boardVars == <<dev, installed, started>>
serialVars == <<pageVars, boardVars, conn, broken, writes, line, connected, upsets>>

None == [id |-> 0, what |-> "none", arg |-> -1]
Empty == [on |-> FALSE, text |-> {}]

SerialInit ==
    /\ conn = "closed" /\ broken = FALSE
    /\ queue = <<>> /\ running = None /\ pending = Empty /\ timers = {}
    /\ writes = <<>> /\ dev = <<>> /\ line = <<>>
    /\ last = [id |-> 0, end |-> "none", text |-> {}, quiet |-> FALSE]
    /\ quiet = FALSE /\ issued = 0 /\ own = TRUE /\ cut = FALSE
    /\ connected = FALSE /\ upsets = 0
    /\ installed = {} /\ started = FALSE

Upset ==
    /\ upsets < MAX_UPSETS
    /\ upsets' = upsets + 1

\* Nothing is on its way between the page and the board.
Silent == writes = <<>> /\ dev = <<>> /\ line = <<>>

\* Whose output a text holds.
Sources(text) == {t.of : t \in text}

\* The promise of the running command is settled.
Settle(how, text) ==
    /\ last' = [id |-> running.id, end |-> how, text |-> text, quiet |-> quiet]
    /\ own' = (own /\ how = "prompt" /\ Sources(text) = {running.id})
    /\ running' = None
-----------------------------------------------------------------------------
\* openSelectedPort / openPort: the port opens, reading starts, and a bare
\* newline asks for a prompt.
Open ==
    /\ conn = "closed"
    /\ IF connected THEN Upset ELSE UNCHANGED upsets
    /\ connected' = TRUE
    /\ conn' = "open" /\ broken' = FALSE
    /\ writes' = Append(writes, None)
    /\ UNCHANGED <<pageVars, boardVars, line>>

\* disconnect, up to the end of reader.cancel. readLoop takes a new reader as
\* long as the page has a port, so text still arrives.
CancelReader ==
    /\ conn = "open"
    /\ conn' = "closing"
    /\ UNCHANGED <<pageVars, boardVars, broken, writes, line, connected, upsets>>

\* The lock on the writer is released, port.close begins.
ReleaseWriter ==
    /\ conn = "closing"
    /\ conn' = "released"
    /\ UNCHANGED <<pageVars, boardVars, broken, writes, line, connected, upsets>>

\* The port is closed, its writes done or failed; pending is forgotten.
Closed ==
    /\ conn = "released" /\ writes = <<>>
    /\ conn' = "closed"
    /\ pending' = Empty
    /\ cut' = (cut \/ running # None)
    /\ UNCHANGED <<queue, running, timers, last, quiet, issued, own>>
    /\ UNCHANGED <<boardVars, broken, writes, line, connected, upsets>>

disconnect == CancelReader \/ ReleaseWriter \/ Closed
-----------------------------------------------------------------------------
\* runCommand: the command waits behind commandTail, whatever the connection.
runCommand(what, arg) ==
    /\ issued < MAX_COMMANDS
    /\ issued' = issued + 1
    /\ queue' = Append(queue, [id |-> issued + 1, what |-> what, arg |-> arg])
    /\ UNCHANGED <<running, pending, timers, last, quiet, own, cut>>
    /\ UNCHANGED <<boardVars, conn, broken, writes, line, connected, upsets>>

\* mutant: the response still holds what the command before it received
runCommandUnlockedKeepsText ==
    /\ running = None /\ queue # <<>>
    /\ queue' = Tail(queue)
    /\ conn \in {"open", "closing"} /\ ~broken
    /\ running' = Head(queue)
    /\ pending' = [on |-> TRUE, text |-> last.text]
    /\ timers' = timers \cup {Head(queue).id}
    /\ quiet' = Silent
    /\ writes' = Append(writes, Head(queue))
    /\ UNCHANGED <<last, issued, own, cut>>
    /\ UNCHANGED <<boardVars, conn, broken, line, connected, upsets>>

\* The task of the next command runs once the one before it is settled:
\* without a writer it is rejected, otherwise it is pending, has a timer and
\* is being written.
runCommandUnlocked ==
    /\ running = None /\ queue # <<>>
    /\ queue' = Tail(queue)
    /\ \/ /\ conn \in {"open", "closing"} /\ ~broken
          /\ running' = Head(queue)
          /\ pending' = [on |-> TRUE, text |-> {}]
          /\ timers' = timers \cup {Head(queue).id}
          /\ quiet' = Silent
          /\ writes' = Append(writes, Head(queue))
          /\ UNCHANGED <<last, own>>
       \/ /\ conn \in {"closed", "released"} \/ broken
          /\ last' = [id |-> Head(queue).id, end |-> "rejected", text |-> {}, quiet |-> FALSE]
          /\ own' = FALSE
          /\ UNCHANGED <<running, pending, timers, quiet, writes>>
    /\ UNCHANGED <<issued, cut, boardVars, conn, broken, line, connected, upsets>>

\* A write is done: the board has the line.
WriteDone ==
    /\ writes # <<>>
    /\ writes' = Tail(writes)
    /\ dev' = Append(dev, Head(writes))
    /\ UNCHANGED <<pageVars, installed, started, conn, broken, line, connected, upsets>>

\* The stream fails and every write with it: the running command, if its own
\* write is among them, is rejected without its timer.
WriteError ==
    /\ writes # <<>>
    /\ conn = "released" \/ upsets < MAX_UPSETS
    /\ upsets' = IF conn = "released" THEN upsets ELSE upsets + 1
    /\ broken' = TRUE
    /\ writes' = <<>>
    /\ LET failed == ToSet(writes)
       IN /\ timers' = timers \ {c.id : c \in failed}
          /\ pending' = IF failed \subseteq {None} THEN pending ELSE Empty
          /\ IF running # None /\ running \in failed
             THEN Settle("rejected", {})
             ELSE UNCHANGED <<last, own, running>>
    /\ UNCHANGED <<queue, quiet, issued, cut, boardVars, conn, line, connected>>

\* mutant: the timer of a finished command stays armed
FinishKeepsTimer(text) ==
    /\ pending' = Empty
    /\ Settle("prompt", text)
    /\ UNCHANGED timers

\* pending.finish: the timer is stopped, the promise resolved.
Finish(text) ==
    /\ timers' = timers \ {running.id}
    /\ pending' = Empty
    /\ Settle("prompt", text)

\* readLoop: a piece of text arrives, until disconnect has cleared port; a
\* prompt in it finishes what is pending.
readLoop ==
    /\ line # <<>>
    /\ line' = Tail(line)
    /\ LET text == pending.text \cup Head(line).output
       IN IF ~pending.on \/ conn = "closed" \/ broken
          THEN UNCHANGED <<running, pending, timers, last, own>>
          ELSE IF Head(line).prompt
          THEN Finish(text)
          ELSE /\ pending' = [pending EXCEPT !.text = text]
               /\ UNCHANGED <<running, timers, last, own>>
    /\ UNCHANGED <<queue, quiet, issued, cut, boardVars, conn, broken, writes, connected, upsets>>

\* mutant: the timer gives up what is pending and does not resolve it
TimeoutForgets(c) ==
    /\ c \in timers
    /\ IF Silent THEN UNCHANGED upsets ELSE Upset
    /\ timers' = timers \ {c}
    /\ pending' = Empty
    /\ UNCHANGED <<queue, running, last, quiet, issued, own, cut>>
    /\ UNCHANGED <<boardVars, conn, broken, writes, line, connected>>

\* The timer of a command fires: whatever is pending then is given up, and
\* the command resolved with it. Timers that run out although the board still
\* has something to say are bounded.
Timeout(c) ==
    /\ c \in timers
    /\ IF Silent THEN UNCHANGED upsets ELSE Upset
    /\ timers' = timers \ {c}
    /\ IF ~pending.on
       THEN UNCHANGED <<running, pending, last, own>>
       ELSE /\ pending' = Empty
            /\ IF running.id = c
               THEN Settle("timeout", pending.text)
               ELSE UNCHANGED <<running, last, own>>
    /\ UNCHANGED <<queue, quiet, issued, cut, boardVars, conn, broken, writes, line, connected>>
-----------------------------------------------------------------------------
\* The lowest filter that is free, or -1.
FreeFilter ==
    LET free == (0 .. MAX_FILTERS - 1) \ installed
    IN IF free = {} THEN -1 ELSE CHOOSE f \in free : \A g \in free : f <= g

\* The shell executes a line and prints its output, then the prompt.
Execute ==
    /\ dev # <<>>
    /\ LET c == Head(dev)
           filter == IF c.what = "add" THEN FreeFilter ELSE -1
           output == IF c = None THEN {} ELSE {[of |-> c.id, filter |-> filter]}
       IN /\ line' = line \o <<[output |-> output, prompt |-> FALSE],
                               [output |-> {}, prompt |-> TRUE]>>
          /\ installed' = CASE c.what = "add" -> installed \cup ({filter} \ {-1})
                            [] c.what = "remove" -> installed \ {c.arg}
                            [] OTHER -> installed
          /\ started' = IF c.what \in {"start", "stop"} THEN c.what = "start" ELSE started
    /\ dev' = Tail(dev)
    /\ UNCHANGED <<pageVars, conn, broken, writes, connected, upsets>>

\* A frame that passes a filter is printed, with a new prompt after it.
FramePrinted ==
    /\ Upset
    /\ started /\ installed # {}
    /\ line' = Append(line, [output |-> {[of |-> 0, filter |-> -1]}, prompt |-> TRUE])
    /\ quiet' = FALSE
    /\ UNCHANGED <<queue, running, pending, timers, last, issued, own, cut>>
    /\ UNCHANGED <<boardVars, conn, broken, writes, connected>>

\* A piece of text is lost on the way (a read error).
TextLost ==
    /\ Upset
    /\ line # <<>>
    /\ line' = Tail(line)
    /\ UNCHANGED <<pageVars, boardVars, conn, broken, writes, connected>>

Timers == \E c \in timers : Timeout(c)

SerialNext ==
    \/ Open \/ disconnect
    \/ readLoop \/ Timers
    \/ WriteDone \/ WriteError
    \/ Execute \/ FramePrinted \/ TextLost

\* Timers fire, a disconnect comes to its end, and so does a write; the board
\* executes what it received, and what it prints arrives or is lost.
SerialFair == Timers \/ ReleaseWriter \/ Closed \/ WriteDone \/ Execute \/ readLoop

Settled(c) == c <= issued /\ c # running.id /\ \A i \in DOMAIN queue : queue[i].id # c

\* The response a command is given holds its output and nothing else, when
\* the board owed the page nothing as it was written and no frame was printed
\* meanwhile: the one global "pending" does not mix up commands.
OwnAnswer ==
    last.end = "prompt" /\ last.quiet => Sources(last.text) \subseteq {last.id}

=============================================================================
