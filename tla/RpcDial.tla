------------------------------- MODULE RpcDial -------------------------------
(***************************************************************************)
(* Opening a connection (src/geerpc/client.go: Dial, dialTimeout,          *)
(* parseOption, NewClient): the goroutine of the caller, the one that runs *)
(* NewClient and the receive goroutine of the client it makes.  A panic in *)
(* any of them ends the process.                                           *)
(***************************************************************************)
CONSTANTS
    Dialers   \* the goroutines that call Dial, once each

VARIABLES
    dialer,   \* dialer[d]: dialTimeout
    maker,    \* maker[d]: the goroutine that runs f = NewClient
    opt,      \* opt[d]: is ConnectTimeout set, and which codec
    conn,     \* conn[d]: "none" before it is dialled, or nil, open, closed
    reader,   \* reader[d]: the receive goroutine of the client
    timedOut, \* timedOut[d]: the select took the timer
    crashed   \* the process has panicked

dialVars == <<dialer, maker, opt, conn, reader, timedOut, crashed>>

Options == [limit : BOOLEAN, codec : {"gob", "other"}]
DefaultOption == [limit |-> TRUE, codec |-> "gob"]

DialInit ==
    /\ dialer = [d \in Dialers |-> "idle"]
    /\ maker = [d \in Dialers |-> "none"]
    /\ opt = [d \in Dialers |-> DefaultOption]
    /\ conn = [d \in Dialers |-> "none"]
    /\ reader = [d \in Dialers |-> "none"]
    /\ timedOut = [d \in Dialers |-> FALSE]
    /\ crashed = FALSE

Is(f, d, value) == ~ crashed /\ f[d] = value

\* parseOption: none or nil is the default, one is taken (without a codec it
\* gets the default's), two are an error.
parseOption(d) ==
    /\ Is(dialer, d, "idle")
    /\ \/ \E o \in Options : /\ opt' = [opt EXCEPT ![d] = o]
                             /\ dialer' = [dialer EXCEPT ![d] = "dial"]
       \/ dialer' = [dialer EXCEPT ![d] = "refused"] /\ UNCHANGED opt
    /\ UNCHANGED <<maker, conn, reader, timedOut, crashed>>

\* net.DialTimeout: a connection, or nil and an error that nobody looks at.
\* Either way NewClient starts in a goroutine.
DialTimeout(d) ==
    /\ Is(dialer, d, "dial")
    /\ \E c \in {"open", "nil"} : conn' = [conn EXCEPT ![d] = c]
    /\ dialer' = [dialer EXCEPT ![d] = "select"]
    /\ maker' = [maker EXCEPT ![d] = "start"]
    /\ UNCHANGED <<opt, reader, timedOut, crashed>>

\* NewClient: the codec is not known.
NewClientRejects(d) ==
    /\ Is(maker, d, "start") /\ opt[d].codec # "gob"
    /\ maker' = [maker EXCEPT ![d] = "error"]
    /\ UNCHANGED <<dialer, opt, conn, reader, timedOut, crashed>>

\* The option is sent, and the client made with its receive goroutine.
NewClient(d) ==
    /\ Is(maker, d, "start") /\ opt[d].codec = "gob" /\ conn[d] = "open"
    /\ maker' = [maker EXCEPT ![d] = "client"]
    /\ reader' = [reader EXCEPT ![d] = "reading"]
    /\ UNCHANGED <<dialer, opt, conn, timedOut, crashed>>

\* Encode fails, on a connection that broke or that dialTimeout has closed.
NewClientFails(d) ==
    /\ Is(maker, d, "start") /\ opt[d].codec = "gob"
    /\ conn[d] \in {"open", "closed"}
    /\ conn' = [conn EXCEPT ![d] = "closed"]
    /\ maker' = [maker EXCEPT ![d] = "error"]
    /\ UNCHANGED <<dialer, opt, reader, timedOut, crashed>>

\* Encode writes to a nil connection.
NewClientPanics(d) ==
    /\ Is(maker, d, "start") /\ opt[d].codec = "gob" /\ conn[d] = "nil"
    /\ crashed' = TRUE
    /\ UNCHANGED <<dialer, maker, opt, conn, reader, timedOut>>

\* Faulty variant: the connection is not closed.
ReturnErrorOpen(d) ==
    /\ dialer' = [dialer EXCEPT ![d] = "refused"]
    /\ crashed' = (conn[d] = "nil")
    /\ UNCHANGED conn

\* dialTimeout returns without a client, and closes the connection; Close of
\* a nil connection panics.
ReturnError(d) ==
    /\ dialer' = [dialer EXCEPT ![d] = "refused"]
    /\ crashed' = (conn[d] = "nil")
    /\ conn' = [conn EXCEPT ![d] = IF @ = "nil" THEN @ ELSE "closed"]

\* Faulty variant: whatever the result, the connection is closed.
ReceiveCloses(d) ==
    /\ Is(dialer, d, "select") /\ maker[d] \in {"client", "error"}
    /\ dialer' = [dialer EXCEPT ![d] =
                      IF maker[d] = "client" THEN "returned" ELSE "refused"]
    /\ conn' = [conn EXCEPT ![d] = "closed"]
    /\ maker' = [maker EXCEPT ![d] = "ended"]
    /\ UNCHANGED <<opt, reader, timedOut, crashed>>

\* result := <-ch
ReceiveResult(d) ==
    /\ Is(dialer, d, "select") /\ maker[d] \in {"client", "error"}
    /\ \/ maker[d] = "client" /\ dialer' = [dialer EXCEPT ![d] = "returned"]
          /\ UNCHANGED <<conn, crashed>>
       \/ maker[d] = "error" /\ ReturnError(d)
    /\ maker' = [maker EXCEPT ![d] = "ended"]
    /\ UNCHANGED <<opt, reader, timedOut>>

\* Faulty variant: the timer fires at once when there is no limit.
TimeoutUnlimited(d) ==
    /\ Is(dialer, d, "select")
    /\ ReturnError(d)
    /\ timedOut' = [timedOut EXCEPT ![d] = opt[d].limit]
    /\ UNCHANGED <<maker, opt, reader>>

\* time.After(opt.ConnectTimeout); nobody will receive from ch.
Timeout(d) ==
    /\ Is(dialer, d, "select") /\ opt[d].limit
    /\ ReturnError(d)
    /\ timedOut' = [timedOut EXCEPT ![d] = TRUE]
    /\ UNCHANGED <<maker, opt, reader>>

\* The receive goroutine finds the connection closed, or the peer gone; in
\* the latter case the connection stays open until the user closes it.
ReceiveEnds(d) ==
    /\ Is(reader, d, "reading")
    /\ reader' = [reader EXCEPT ![d] = "ended"]
    /\ UNCHANGED <<dialer, maker, opt, conn, timedOut, crashed>>

DialNext == \E d \in Dialers :
    \/ parseOption(d) \/ DialTimeout(d)
    \/ NewClientRejects(d) \/ NewClient(d)
    \/ NewClientFails(d) \/ NewClientPanics(d)
    \/ ReceiveResult(d) \/ Timeout(d) \/ ReceiveEnds(d)

DialSpec == DialInit /\ [][DialNext]_dialVars

\* Goroutines run; a read of a closed connection returns.
DialFairness == \A d \in Dialers :
    /\ WF_dialVars(parseOption(d) \/ DialTimeout(d))
    /\ WF_dialVars(NewClientRejects(d) \/ NewClient(d) \/ NewClientFails(d)
               \/ NewClientPanics(d))
    /\ WF_dialVars(ReceiveResult(d) \/ Timeout(d))
    /\ WF_dialVars(ReceiveEnds(d) /\ conn[d] = "closed")

DialFairSpec == DialSpec /\ DialFairness
-----------------------------------------------------------------------------
(* Properties                                                              *)

\* Types of the variables.
DialTypeOK ==
    /\ dialer \in [Dialers ->
                      {"idle", "dial", "select", "returned", "refused"}]
    /\ maker \in [Dialers -> {"none", "start", "client", "error", "ended"}]
    /\ opt \in [Dialers -> Options]
    /\ conn \in [Dialers -> {"none", "nil", "open", "closed"}]
    /\ reader \in [Dialers -> {"none", "reading", "ended"}]
    /\ timedOut \in [Dialers -> BOOLEAN] /\ crashed \in BOOLEAN

\* A client that Dial returns has an open connection and a receive goroutine:
\* a timer that fires at the same moment has not closed it.
ReturnedIsOpen ==
    \A d \in Dialers :
        dialer[d] = "returned" => conn[d] = "open" /\ reader[d] # "none"

\* A Dial that failed leaves no open connection and no receive goroutine
\* behind, also when NewClient finishes after the timeout.
FailureReleases ==
    \A d \in Dialers :
        dialer[d] = "refused" ~>
            [](crashed \/ (conn[d] # "open" /\ reader[d] # "reading"))

\* Dial returns, with or without a limit, and the goroutine of NewClient ends
\* unless the limit was exceeded: then it sends to nobody for ever.
MakerEnds ==
    \A d \in Dialers :
        dialer[d] = "select" ~>
            \/ crashed
            \/ dialer[d] \in {"returned", "refused"}
               /\ (maker[d] = "ended" \/ timedOut[d])
=============================================================================
