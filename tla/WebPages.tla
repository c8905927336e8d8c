------------------------------ MODULE WebPages ------------------------------
(***************************************************************************)
(* The two pages over their command queue. The bench tool: commands of its *)
(* buttons and the temperature poll. The CAN monitor: startCapture, which  *)
(* sets the controller up and remembers the filters it adds, and           *)
(* stopCapture, which removes them. One of its two functions runs at a     *)
(* time, and the monitor's other buttons are not pressed.                  *)
(***************************************************************************)
EXTENDS WebSerial

CONSTANT MAX_QUERIES   \* bound: commands of the bench tool

VARIABLES
    page,        \* "bench" or "monitor"
    polling,     \* bench: pollTimer is set
    script,      \* monitor: the running function, what it has still to do, and
                 \* the command it awaits
    filterIds,   \* monitor: the filters it remembers
    capturing    \* monitor: Start is disabled and Stop enabled

monitorVars == <<script, filterIds, capturing>>
vars == <<serialVars, page, polling, monitorVars>>

Idle == [fn |-> "idle", todo |-> <<>>, wait |-> 0]

Init ==
    /\ SerialInit
    /\ page \in {"bench", "monitor"}
    /\ polling = FALSE
    /\ script = Idle /\ filterIds = <<>> /\ capturing = FALSE
-----------------------------------------------------------------------------
\* A button of the bench tool that sends a command.
Press ==
    /\ page = "bench" /\ issued < MAX_QUERIES
    /\ runCommand("query", -1)
    /\ UNCHANGED <<page, polling, monitorVars>>

\* startPolling: not twice, and only with a writer; the first read is at once.
startPolling ==
    /\ page = "bench" /\ ~polling /\ issued < MAX_QUERIES
    /\ conn \in {"open", "closing"}
    /\ polling' = TRUE
    /\ runCommand("query", -1)
    /\ UNCHANGED <<page, monitorVars>>

\* The interval's callback, whatever became of the read before.
PollTick ==
    /\ page = "bench" /\ polling /\ issued < MAX_QUERIES
    /\ runCommand("query", -1)
    /\ UNCHANGED <<page, polling, monitorVars>>

stopPolling ==
    /\ page = "bench" /\ polling
    /\ polling' = FALSE
    /\ UNCHANGED <<serialVars, page, monitorVars>>
-----------------------------------------------------------------------------
\* startCapture: earlier filters are forgotten, the commands follow one by one.
startCapture ==
    /\ page = "monitor" /\ script = Idle /\ ~capturing
    /\ \E filters \in {<<>>, <<"add">>, <<"add", "add">>} :
          script' = [fn |-> "start", wait |-> 0,
                     todo |-> <<"stop", "bitrate", "mode">> \o filters \o <<"start">>]
    /\ filterIds' = <<>>
    /\ UNCHANGED <<serialVars, page, polling, capturing>>

stopCapture ==
    /\ page = "monitor" /\ script = Idle /\ capturing
    /\ script' = [fn |-> "stop", wait |-> 0,
                  todo |-> [i \in DOMAIN filterIds |-> "remove"] \o <<"stop">>]
    /\ UNCHANGED <<serialVars, page, polling, filterIds, capturing>>

\* The function reaches its next command. stopCapture removes the filters in
\* their order and forgets them all before it stops the controller.
Issue ==
    /\ page = "monitor" /\ script.todo # <<>> /\ script.wait = 0
    /\ LET what == Head(script.todo)
           nth == Len(filterIds) + 2 - Len(script.todo)
       IN /\ runCommand(what, IF what = "remove" THEN filterIds[nth] ELSE -1)
          /\ filterIds' = IF script.fn = "stop" /\ what = "stop" THEN <<>> ELSE filterIds
    /\ script' = [script EXCEPT !.wait = issued + 1]
    /\ UNCHANGED <<page, polling, capturing>>

\* mutant: filter 0 is taken for no filter
parseFilterIdTruthy(text) ==
    {t.filter : t \in {u \in text : u.filter > 0}}

\* parseFilterId: the filter a response names, as a set of at most one.
parseFilterId(text) ==
    LET named == {t \in text : t.filter # -1}
    IN {t.filter : t \in {u \in named : \A v \in named : u.of <= v.of}}

\* "can stop" and the commands of stopCapture are sent by bestEffort.
BestEffort(fn, what) == fn = "stop" \/ what = "stop"

\* The awaited command is settled: an error ends startCapture, the answer to
\* an added filter names it, and after the last command the buttons change.
Continue ==
    /\ page = "monitor" /\ script.wait # 0 /\ last.id = script.wait
    /\ LET what == Head(script.todo)
           rest == Tail(script.todo)
           found == IF what = "add" THEN parseFilterId(last.text) ELSE {}
       IN IF last.end = "rejected" /\ ~BestEffort(script.fn, what)
          THEN script' = Idle /\ UNCHANGED <<filterIds, capturing>>
          ELSE /\ filterIds' = filterIds \o SetToSeq(found)
               /\ script' = IF rest = <<>> THEN Idle
                            ELSE [script EXCEPT !.todo = rest, !.wait = 0]
               /\ capturing' = IF rest = <<>> THEN script.fn = "start" ELSE capturing
    /\ UNCHANGED <<serialVars, page, polling>>
-----------------------------------------------------------------------------
\* What the page does in the same turn of the event loop, before any other
\* event: a settled promise starts the next task and resumes who awaits it.
Due ==
    \/ running = None /\ queue # <<>>
    \/ script # Idle /\ script.wait = 0 /\ issued < MAX_COMMANDS
    \/ script # Idle /\ script.wait = last.id

SameTurn ==
    \/ runCommandUnlocked /\ UNCHANGED <<page, polling, monitorVars>>
    \/ Issue
    \/ Continue

\* An event of the port or the board; disconnect first stops polling.
Serial ==
    /\ ~Due
    /\ SerialNext
    /\ polling' = (polling /\ conn' # "closing")
    /\ UNCHANGED <<page, monitorVars>>

Click == Press \/ startPolling \/ PollTick \/ stopPolling \/ startCapture \/ stopCapture

Next == SameTurn \/ Serial \/ (~Due /\ Click)

Spec ==
    /\ Init /\ [][Next]_vars
    /\ WF_vars(SameTurn)
    /\ WF_vars(SerialFair /\ Serial)

\* The variables keep their types; a command is pending only while it runs,
\* and at most one timer runs besides those that disconnect left behind.
TypeOK ==
    /\ conn \in {"closed", "open", "closing", "released"}
    /\ issued \in 0 .. MAX_COMMANDS
    /\ timers \subseteq 1 .. issued
    /\ installed \subseteq 0 .. MAX_FILTERS - 1
    /\ pending.on => running # None
    /\ pending.on /\ ~cut => timers = {running.id}
    /\ script.fn \in {"idle", "start", "stop"}
    /\ polling \in BOOLEAN /\ capturing \in BOOLEAN

\* Between startCapture and stopCapture the monitor remembers exactly the
\* filters the controller has, as long as every command was answered with its
\* own output (startCapture, stopCapture, parseFilterId).
FiltersRemembered ==
    page = "monitor" /\ own /\ script = Idle => ToSet(filterIds) = installed

\* Every command given to runCommand is settled, by a prompt, its timer or a
\* failed write, unless a disconnect forgot one that was pending.
CommandsSettle ==
    \A c \in 1 .. MAX_QUERIES : (issued >= c) ~> (Settled(c) \/ cut)

\* What a connected page asks the board is settled while it stays connected:
\* "Press Scan I2C to query the bus", openSelectedPort says.
ConnectedQueries ==
    \A c \in 1 .. MAX_QUERIES :
        (issued >= c /\ conn = "open") ~> (Settled(c) \/ conn # "open")

=============================================================================
