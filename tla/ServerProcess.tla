---------------------------- MODULE ServerProcess ----------------------------
(***************************************************************************)
(* The processes of a Jupyter server that Europa starts: Europa's call of  *)
(* spawnJupyterServer and of the handle's kill (kernel/server-process.ts), *)
(* the watchdog it starts (kernel/watchdog.ts), and the Jupyter server the *)
(* watchdog starts, which inherits the watchdog's two output streams.      *)
(*                                                                         *)
(* Text is a sequence of marks: a line is some marks and then "nl", and a  *)
(* line with a URL in it has the mark of the URL's port.  A chunk is any   *)
(* non-empty piece of what a stream holds.  Timers have no clock: one may  *)
(* end at any moment after it began.  Europa may be killed at any moment,  *)
(* and so may Jupyter.                                                     *)
(*                                                                         *)
(* A definition whose name starts with Bug is a plausible mistake in the   *)
(* definition that follows it; no specification uses it.                   *)
(***************************************************************************)
EXTENDS Naturals, SequencesExt

CONSTANT MaxLog     \* bound: lines Jupyter writes before its banner

ASSUME ServerProcessAssumption == MaxLog \in Nat

Streams == {"stdout", "stderr"}
Ports == {"asked", "other"}
NoPort == "none"

VARIABLES
    europa,     \* the backend: "up" or "gone"
    call,       \* spawnJupyterServer: "idle", "reading", "probing", "ready", "failed"
    pending,    \* streams without an end yet
    buf,        \* findStartupLine, per stream: text after the last line end
    pos,        \* per stream, how much of it has been read
    found,      \* port of the banner
    kill,       \* the handle's kill(): "none", "waiting", "done"
    dog,        \* the watchdog: "none", "boot", "forked", "polling", "ending", "exited"
    asked,      \* the watchdog's aborted flag, set by its SIGTERM listener
    jupyter,    \* "none", "starting", "announced", "serving", "dead"
    told,       \* Jupyter has had a SIGTERM
    deaf,       \* this Jupyter does not heed a SIGTERM once it runs
    taken,      \* another program took the port between pickFreePort and bind
    bound,      \* port Jupyter listens on
    said        \* per stream, all that was written to it

spawning == <<call, pending, buf, pos, found>>
watchdog == <<dog, asked>>
server   == <<jupyter, told, deaf, taken, bound, said>>
vars == <<europa, spawning, kill, watchdog, server>>

TypeOK ==
    /\ europa \in {"up", "gone"}
    /\ call \in {"idle", "reading", "probing", "ready", "failed"}
    /\ pending \in 0..2
    /\ \A s \in Streams : pos[s] \in 0..Len(said[s]) /\ Len(buf[s]) <= pos[s]
    /\ found \in Ports \cup {NoPort} /\ bound \in Ports \cup {NoPort}
    /\ kill \in {"none", "waiting", "done"}
    /\ dog \in {"none", "boot", "forked", "polling", "ending", "exited"}
    /\ jupyter \in {"none", "starting", "announced", "serving", "dead"}
    /\ {asked, told, deaf, taken} \subseteq BOOLEAN

Init ==
    /\ europa = "up" /\ kill = "none"
    /\ call = "idle" /\ pending = 0 /\ found = NoPort
    /\ buf = [s \in Streams |-> <<>>] /\ pos = [s \in Streams |-> 0]
    /\ dog = "none" /\ asked = FALSE
    /\ jupyter = "none" /\ told = FALSE /\ bound = NoPort
    /\ deaf \in BOOLEAN /\ taken \in BOOLEAN
    /\ said = [s \in Streams |-> <<>>]

-----------------------------------------------------------------------------
(* Europa.                                                                  *)

(* A port is picked and freed again, and the watchdog is started with it.   *)
Spawn ==
    /\ europa = "up" /\ call = "idle"
    /\ call' = "reading" /\ pending' = 2
    /\ dog' = "boot"
    /\ UNCHANGED <<europa, buf, pos, found, kill, asked, server>>

(* child.kill("SIGTERM"): before the watchdog listens for the signal, the   *)
(* signal ends it.                                                          *)
Terminate ==
    /\ dog' = IF dog \in {"boot", "forked"} THEN "exited" ELSE dog
    /\ asked' = (asked \/ dog = "polling")

Fail ==
    /\ call' = "failed" /\ Terminate
    /\ UNCHANGED <<europa, pending, found, kill, server>>

Lines(text) == SelectLastInSeq(text, LAMBDA x : x = "nl")

(* The port of the first complete line that has a URL.                      *)
Banner(text) ==
    LET at == SelectInSeq(SubSeq(text, 1, Lines(text)), LAMBDA x : x \in Ports)
    IN  IF at = 0 THEN NoPort ELSE text[at]

BugRemainder(text) == <<>>
Remainder(text) == SubSeq(text, Lines(text) + 1, Len(text))

(* A reader has a chunk: the first banner settles the call and cancels the  *)
(* other reader.                                                            *)
Read(s) ==
    /\ europa = "up" /\ call = "reading"
    /\ \E n \in pos[s] + 1..Len(said[s]) :
          LET text == buf[s] \o SubSeq(said[s], pos[s] + 1, n) IN
          /\ pos' = [pos EXCEPT ![s] = n]
          /\ buf' = [buf EXCEPT ![s] = Remainder(text)]
          /\ found' = Banner(text)
          /\ call' = IF Banner(text) = NoPort THEN "reading" ELSE "probing"
    /\ UNCHANGED <<europa, pending, kill, watchdog, server>>

(* A stream ends when no process holds it; the call fails with the second.  *)
Closed == dog = "exited" /\ jupyter \in {"none", "dead"}

StreamEnds ==
    /\ europa = "up" /\ call = "reading" /\ Closed
    /\ \E s \in Streams : pos[s] = Len(said[s])
    /\ pending > 1
    /\ pending' = pending - 1
    /\ UNCHANGED <<europa, call, buf, pos, found, kill, watchdog, server>>

BothEnd ==
    /\ europa = "up" /\ call = "reading" /\ Closed
    /\ \A s \in Streams : pos[s] = Len(said[s])
    /\ pending = 1
    /\ Fail
    /\ UNCHANGED <<buf, pos>>

(* 30 s are over, or the caller's signal: both readers are cancelled.       *)
Abort ==
    /\ europa = "up" /\ call = "reading"
    /\ Fail
    /\ UNCHANGED <<buf, pos>>

Answers(port) ==
    \/ port = "asked" /\ taken
    \/ port = bound /\ jupyter = "serving"

(* waitForHttpReady: any answer will do.                                    *)
BugProbeAsked ==
    /\ europa = "up" /\ call = "probing"
    /\ Answers("asked")
    /\ call' = "ready"
    /\ UNCHANGED <<europa, pending, buf, pos, found, kill, watchdog, server>>

Probe ==
    /\ europa = "up" /\ call = "probing"
    /\ Answers(found)
    /\ call' = "ready"
    /\ UNCHANGED <<europa, pending, buf, pos, found, kill, watchdog, server>>

BugProbesForever == FALSE /\ UNCHANGED vars

(* Requests were refused, or went unanswered for a while, till 5 s were     *)
(* over.                                                                    *)
ProbeTimesOut ==
    /\ europa = "up" /\ call = "probing"
    /\ Fail
    /\ UNCHANGED <<buf, pos>>

(* kill() of the handle: SIGTERM, wait for the watchdog to exit, and after  *)
(* 5 s SIGKILL for the watchdog alone.  A second call returns at once.  The *)
(* watchdog takes less than 5 s to pass the SIGTERM on.                     *)
Kill ==
    /\ europa = "up" /\ call = "ready" /\ kill = "none"
    /\ IF dog = "exited" THEN kill' = "done" /\ UNCHANGED watchdog
                         ELSE kill' = "waiting" /\ Terminate
    /\ UNCHANGED <<europa, spawning, server>>

Killed ==
    /\ europa = "up" /\ kill = "waiting" /\ dog = "exited"
    /\ kill' = "done"
    /\ UNCHANGED <<europa, spawning, watchdog, server>>

KillTimesOut ==
    /\ europa = "up" /\ kill = "waiting" /\ dog = "ending"
    /\ kill' = "done" /\ dog' = "exited"
    /\ UNCHANGED <<europa, spawning, asked, server>>

EuropaDies ==
    /\ europa = "up" /\ call # "idle"
    /\ europa' = "gone"
    /\ UNCHANGED <<spawning, kill, watchdog, server>>

-----------------------------------------------------------------------------
(* The watchdog.                                                            *)

(* It starts Jupyter, or exits because there is no such program.            *)
Fork ==
    /\ dog = "boot"
    /\ \/ dog' = "forked" /\ jupyter' = "starting"
       \/ dog' = "exited" /\ UNCHANGED jupyter
    /\ UNCHANGED <<europa, spawning, kill, asked, told, deaf, taken, bound, said>>

Listen ==
    /\ dog = "forked"
    /\ dog' = "polling"
    /\ UNCHANGED <<europa, spawning, kill, asked, server>>

(* A turn of the polling loop that ends it: the parent is gone, or the      *)
(* listener has cut the delay short.  A Jupyter that has exited by itself   *)
(* is noticed only now.                                                     *)
BugPollsWhileAsked ==
    /\ dog = "polling" /\ europa = "gone"
    /\ IF jupyter = "dead" THEN dog' = "exited" /\ UNCHANGED told
                           ELSE dog' = "ending" /\ told' = TRUE
    /\ UNCHANGED <<europa, spawning, kill, asked, jupyter, deaf, taken, bound, said>>

StopPolling ==
    /\ dog = "polling" /\ (asked \/ europa = "gone")
    /\ IF jupyter = "dead" THEN dog' = "exited" /\ UNCHANGED told
                           ELSE dog' = "ending" /\ told' = TRUE
    /\ UNCHANGED <<europa, spawning, kill, asked, jupyter, deaf, taken, bound, said>>

(* killChild: Jupyter has exited, or 5 s are over and it gets SIGKILL.      *)
EndJupyter ==
    /\ dog = "ending"
    /\ dog' = "exited"
    /\ jupyter' = "dead"
    /\ UNCHANGED <<europa, spawning, kill, asked, told, deaf, taken, bound, said>>

-----------------------------------------------------------------------------
(* Jupyter, outside the repository.                                         *)

Writes(s, text) == said' = [said EXCEPT ![s] = @ \o text]

Logs ==
    /\ jupyter = "starting"
    /\ \E s \in Streams :
          Len(said[s]) < 2 * MaxLog /\ Writes(s, <<"text", "nl">>)
    /\ UNCHANGED <<europa, spawning, kill, watchdog, jupyter, told, deaf, taken, bound>>

(* The port of the banner is the one it has bound, another one when the     *)
(* port it was given is taken.  It does not answer yet.                     *)
Announces ==
    /\ jupyter = "starting"
    /\ jupyter' = "announced"
    /\ bound' = IF taken THEN "other" ELSE "asked"
    /\ \E s \in Streams : Writes(s, <<"text", bound', "nl">>)
    /\ UNCHANGED <<europa, spawning, kill, watchdog, told, deaf, taken>>

Serves ==
    /\ jupyter = "announced"
    /\ jupyter' = "serving"
    /\ UNCHANGED <<europa, spawning, kill, watchdog, told, deaf, taken, bound, said>>

Heeds ==
    /\ told /\ (~deaf \/ jupyter = "starting") /\ jupyter # "dead"
    /\ jupyter' = "dead"
    /\ UNCHANGED <<europa, spawning, kill, watchdog, told, deaf, taken, bound, said>>

Crashes ==
    /\ jupyter \in {"starting", "announced", "serving"}
    /\ jupyter' = "dead"
    /\ UNCHANGED <<europa, spawning, kill, watchdog, told, deaf, taken, bound, said>>

-----------------------------------------------------------------------------
Reading ==
    \/ \E s \in Streams : Read(s)
    \/ StreamEnds \/ BothEnd \/ Abort

Probing == Probe \/ ProbeTimesOut
Spawning == Reading \/ Probing
Killing == Killed \/ KillTimesOut
Watchdog == Fork \/ Listen \/ StopPolling \/ EndJupyter
Jupyter == Logs \/ Announces \/ Serves \/ Heeds \/ Crashes

Next == Spawn \/ Spawning \/ Kill \/ Killing \/ EuropaDies \/ Watchdog \/ Jupyter

(* The HEAD request of a probe has no timeout of its own: a Jupyter that    *)
(* listens and does not answer may hold it for ever, and the 5 s are looked *)
(* at only between two requests (server-process.ts, waitForHttpReady).      *)
FetchReturns == jupyter # "announced"

(* The timers of a call end, the watchdog runs, and a Jupyter that heeds a  *)
(* SIGTERM exits; nobody need call spawn or kill, die, or be killed, and    *)
(* Jupyter need never serve.                                                *)
FairSpec ==
    /\ Init /\ [][Next]_vars
    /\ WF_vars(Reading) /\ WF_vars(FetchReturns /\ Probing)
    /\ WF_vars(Killing) /\ WF_vars(Watchdog)
    /\ WF_vars(Heeds)

-----------------------------------------------------------------------------
(* However a banner is cut into chunks and whichever stream it comes on, it *)
(* is not read past: a call that still reads has not had all of one         *)
(* (server-process.ts, findStartupLine).                                    *)
BannerNotMissed ==
    call = "reading" =>
        \A s \in Streams : Banner(SubSeq(said[s], 1, pos[s])) = NoPort

(* A handle is given for the server Jupyter really listens on, and not      *)
(* before it answers, though another program took the port that was picked  *)
(* (server-process.ts, waitForHttpReady).                                   *)
ReadyServes ==
    [][call # "ready" /\ call' = "ready" => jupyter = "serving" /\ found = bound]_vars

Gone == jupyter \in {"none", "dead"}

(* When Europa dies, at whatever point of a spawn or a kill, its Jupyter    *)
(* ends, a deaf one too, if the watchdog was alive (watchdog.ts,            *)
(* parent-death-cleanup).  A SIGTERM the watchdog has heard ends Jupyter,   *)
(* whether it came from kill() or from a spawn that failed; a Jupyter that  *)
(* is deaf outlives only a kill(), whose own SIGKILL may come before the    *)
(* watchdog's (watchdog.ts, signal-relay; server-process.ts, kill-2-stage). *)
JupyterEnds ==
    /\ (europa = "gone" /\ dog # "exited") ~> Gone
    /\ (asked /\ (~deaf \/ kill = "none")) ~> Gone

(* The search for a banner ends, by its 30 s at the latest.  A probe ends   *)
(* unless Jupyter listens and never answers: then it has no end, for its    *)
(* requests have no timeout.  A kill ends whatever the processes do         *)
(* (server-process.ts, spawnJupyterServer, waitForHttpReady, kill).         *)
EveryCallEnds ==
    /\ call = "reading" ~> (call # "reading" \/ europa = "gone")
    /\ (call = "probing" /\ FetchReturns) ~>
          (call \in {"ready", "failed"} \/ europa = "gone")
    /\ kill = "waiting" ~> (kill = "done" \/ europa = "gone")
=============================================================================
