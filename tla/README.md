# Formal model of the huashan device tree

This directory specifies, in TLA+, the concurrent programs of
`android_device_sony_huashan`: the device-specific part of LineageOS for the
Sony Xperia SP.  The repository mixes configuration with several programs; the
one with the most state and the most concurrency is `libril`, the radio
interface layer, and it was modelled first.  After it come the services and HALs
of the device that have a state of their own: the doze sensors, the lights and
the music lights.

    tlc -config RilEvent.cfg MCRilEvent      # model-check an instance
    tlapm WakeLockProofs.tla                 # check the proofs of a module

## 1. Inventory

### libril: event loop (`libril/ril_event.cpp`, start-up and pipe in `ril.cpp`)

* State: `timer_list` (sorted), `pending_list`, `watch_table`/`readFds`, the
  wake-up pipe (`s_fdWakeupRead`, `s_fdWakeupWrite`), `s_started`, one
  `UserCallbackInfo` per timer on the heap.
* Operations: `RIL_startEventLoop`, `eventLoop`, `ril_event_init`,
  `ril_event_add`, `ril_timer_add`, `triggerEvLoop`, `ril_event_loop`
  (`calcNextTimeout`, `select`, `processTimeouts`, `processReadReadies`,
  `firePending`), `processWakeupCallback`, `userTimerCallback`.
* Interaction: any thread adds a timer and writes a byte to the pipe; the
  dispatch thread runs the callbacks.
* Hard: `calcNextTimeout` and the copy of `readFds` are not under `listMutex`;
  the pipe is created after the loop announced itself; the pipe's write end
  blocks; both lists share the events' links.
* Correct when: the list stays sorted, each event is in one place, no wake-up
  is lost, nothing runs early, every timer runs.

### libril: wake lock (`ril.cpp`)

* State: the kernel lock `radio-interface`, `s_wakelock_count`,
  `s_wakeLockCountMutex`, `s_last_wake_timeout_info`, each timer's `userParam`.
* Operations: `grabPartialWakeLock`, `releaseWakeLock` (the framework's
  `responseAcknowledgement`, `error_exit`), `wakeTimeoutCallback`,
  `userTimerCallback`, and below protocol version 13 the tail of
  `RIL_onUnsolicitedResponse`.
* Hard: the dispatch thread reads `userParam`, clears the pointer and frees the
  timer without the mutex; freed memory comes back as another timer.
* Correct when: the phone is never kept awake for ever, the count agrees with
  the lock, the pointer never dangles.

### libril: pending requests (`ril.cpp`, dispatch helpers of `ril_service.cpp`)

* State: `s_pendingRequests` of `RequestInfo` objects whose address is the
  vendor's `RIL_Token`; `wasAckSent`.
* Operations: about 140 request methods, all of the shape `addRequestToList`,
  marshal the arguments (`sendErrorResponse` on failure), `CALL_ONREQUEST`;
  `RIL_onRequestAck`, `RIL_onRequestComplete`.
* Hard: the list is searched by address and addresses are reused; `pRI` is used
  after the mutex is released; manual network selection is completed by
  `dispatchStrings` itself.
* Correct when: a response reaches the request it is for, once; every request
  is answered.

### libril: callbacks into the framework (`ril_service.cpp`, `ril.cpp`)

* State: `radioService`/`oemHookService` callbacks, `mCounterRadio`,
  `mCounterOemHook`, `radioServiceRwlock`, `nitzTimeReceived`,
  `s_lastNITZTimeData`.
* Operations: `setResponseFunctions` (twice), every response and indication
  function, `checkReturnStatus`, `onNewCommandConnect`,
  `resendLastNITZTimeData`.
* Hard: a dead phone process is noticed under a read lock that has to be given
  up for the write lock; NITZ data is kept outside the lock; error responses
  take no lock.
* Correct when: a living process stays connected, the lock is balanced, NITZ
  time is delivered once and not lost.

### libril: methods, responses and indications (`ril_service.cpp`, `ril_commands.h`, `ril_unsol_commands.h`)

* State: the request in hand, the memory its arguments took, the client's
  interface version.
* Operations: every method of `IRadio` and `IOemHook`, every response function,
  every unsolicited message; bound together by four tables.
* Hard: each method undoes by hand what it did so far when a step fails; the
  tables are kept by hand; a payload of the vendor may have any length; a client
  of interface 1.0 must not be called on a callback of 1.1.
* Correct when: memory is freed on every path, each request is answered once,
  through its own method's callback, and an old client is never called on a new one.

### libril: SIM access profile (`sap_service.cpp`, `RilSapSocket.cpp`, `rilSocketQueue.h`)

* State: a queue of `SapSocketRequest`, the shared `MsgHeader`, `sapCallback`.
* Operations: eight requests, `dispatchRequest`, `onRequestComplete`,
  `onUnsolicitedResponse`, `setCallback`.
* Hard: the queue is searched by message id and token; the message is used
  after the vendor may have freed it; the callback is reset without a lock.
* Correct when: each request is answered once, to its own token, each object is
  freed once by whom it was allocated for, and a living client is not dropped.

### Device services (`devicesettings/`, Java)

* `SensorsDozeService`: three sensors, four gestures, the display's broadcasts,
  preferences; everything on the main thread, hard because of the order of
  events.  Correct when no sensor runs under a lit display, the motion sensors
  exclude each other, and a gesture is neither missed nor left over.
* `LightsEffectsService`: media sessions, a palette computed in the background,
  the display, preferences; writes two system properties, and init starts the
  program `LightsEffects` that reads them.  Correct when effects run only as the
  user allows, in the colour of the latest song, and the LEDs follow.
* `GloveModeService`, preference fragments, `BootCompletedReceiver`: user
  interface over shared preferences.

### HALs (`hidl/`, `camera/`)

* Lights: one mutex, the sequencer's remembered program, delays and colours;
  correct when the LEDs show the lights that are set now after any sequence of
  calls, although writes that seem unnecessary are skipped.
* GNSS: forwards to a legacy library; its own state is two wake-lock flags and
  a callback pointer.
* Vibrator, glove mode: single writes to sysfs.
* Camera wrapper: forwards to the vendor module, edits parameters.

### Other

`libshims` (copies of platform classes for old binaries, among them `Looper`),
`macaddrsetup` and `boot/mkelf.py` (programs that run once), init scripts,
configuration, overlays, policy.  `PROJECT.json` lists every component with its
state; `hazards` there lists what is hard to test, each at its line.

## 2. Plan

Order: what the phone cannot do without first.

1. `TimerService`, `RilEvent` -- event loop; the loop implements the service, with
   proofs. *Done.*
2. `WakeLock` over `TimerService`, with proofs. *Done.*
3. `RilRequests`, with proofs. *Done.*
4. `RadioService`, with proofs. *Done.*
5. `SapService`: queue by id and token, memory shared with the answer, callback
   reset, with proofs. *Done.*
6. `RilCommands`, `RilDispatch`: every method, response and indication. *Done.*
7. `SensorsDoze`, with proofs. *Done.*
8. `Light`, with proofs about the sequencer and the brightness curve. *Done.*
9. `LightsEffects`: service, init and program composed, with proofs. *Done.*
10. `RequestService`: the service that answers each sent request once, which
   `RilRequests` and `SapService` implement, with proofs. *Done.*
11. Proofs about `RilDispatch`, about `RadioService` with its error responses,
   and of every safety property that a run finds to hold. *Done.*
12. The wake-up pipe at its limit (`WritersNeverWait`), requests that nobody has in
   hand any more (`NoRequestForgotten` of both request modules), the wake lock of
   version 13+ without memory, with proofs. *Done.*
13. Left: the wake-lock flags of GNSS, whose races are known (section 6), and a
   NITZ buffer that is freed while another thread reads it.

A composition of `RilEvent` and `WakeLock` was planned for the write to the pipe
with `s_wakeLockCountMutex` held, which `wakeTimeoutCallback` on the dispatch
thread needs.  It is not needed: `PipeNeverFills` shows that the write does not
wait (section 5), so that nobody waits for the mutex because of the pipe.

Abstract specifications worth stating: the timer service and the request service
(both done), a flag that is held only while something is in progress (for the
wake locks).

## 3. Modules

| module | models | source |
|---|---|---|
| `TimerService` | what a timed callback promises | `internalRequestTimedCallback`, `firePending` |
| `RilEvent` | the event loop and its pipe | `ril_event.cpp`, `ril.cpp` 263-294, 350-429, 868-902 |
| `WakeLock` | the partial wake lock, over `TimerService` | `ril.cpp` 350-364, 662-733, 817-866 |
| `RequestService` | what libril promises for requests: each answered at most once, after it was sent | `addRequestToList`, `RIL_onRequestComplete` |
| `RilRequests` | pending requests and tokens | `ril.cpp` 206-261, 512-660; `ril_service.cpp` 511-778 and the request methods |
| `RadioService` | callbacks, read-write lock, NITZ | `ril_service.cpp` 780-857, 2953-2972, 7116-7139; `ril.cpp` 296-348, 735-866 |
| `SapService` | SIM access requests, their memory, the callback | `sap_service.cpp`, `RilSapSocket.cpp` 200-295, `rilSocketQueue.h` |
| `RilCommands` | the tables: what each method does step by step, how each answer and indication is delivered | `ril_service.cpp`, `ril_service.h`, `ril_commands.h`, `ril_unsol_commands.h` |
| `RilDispatch` | the methods run over those tables, with vendor and clients | `ril_service.cpp` 570-778 and the response and indication functions |
| `SensorsDoze` | the doze service and its sensors | `SensorsDozeService.java`, `ProximitySensor.java`, `PickUpSensor.java`, `OrientationSensor.java` |
| `Light` | the lights HAL | `Light.cpp` |
| `LightsEffects` | the music lights: service, init, program | `LightsEffectsService.java`, `LightsEffectsPreferenceFragment.java`, `LightsEffects.cpp` |
| `MC...` | the instances TLC checks | |
| `...Proofs` | theorems | |

Each action is one step between two points where another thread can act:
a critical section under a mutex is one action unless the dispatch thread reads
or writes the same data without that mutex (`WakeLock`: `TestLast`,
`CancelLast`, `PublishLast`; `LoopTest`, `LoopClear`, `LoopFree`).
`PROJECT.json` maps every definition to its lines.

Operators introduced by a comment "Mutant" are deliberate faults: variants of
the definition that follows, with a plausible bug, never used by the
specification.  For each property there is one under which TLC finds the
property violated; `mutants` in `PROJECT.json` lists them.  They show that the
property depends on the code it is about.

### RilEvent

Time is relative: `left[t]` counts down to -1, "strictly past", and ticks only
while something waits for it, so the state space is finite without a clock.
`head` and `sel` are the two values `calcNextTimeout` and the loop hold across
the unlocked gap.  `rfd` is the descriptor a thread loaded before its write:
`"stdin"` is the static 0 that `s_fdWakeupWrite` holds before `pipe()` ran.
The faults are `pthread_create`, `pipe` and `select` failing, and a signal.
When `pthread_create` fails nobody runs `ril_event_init`, so the first
`ril_timer_add` follows links that are NULL (`RilTimerAddCrashes`).
A user callback returns, and may request timers itself without a write to the
pipe.  `ril_event_del` has no caller; `ril_event_add` has one.

### WakeLock

`ackVersion` is `s_callbacks.version >= 13`; both values are explored.  Below 13
the same steps run without the mutex, from any thread: indications come from the
vendor's threads and, through `onNewCommandConnect`, from the binder thread.
Nothing is assumed about timing: a timer may be run and freed before the thread
that armed it stores it.  `MaxInside` bounds the threads that are inside at a
time, `MaxCount` the counted messages.  The dispatch thread takes any armed timer
next: the order of timers is `RilEvent`'s matter, and every property here holds
for all orders.

### RilRequests

A request is its serial, a token an address.  `heap` and `s_pendingRequests`
are separate since a request answered by a marshalling error stays on the list.
The vendor is the environment: it completes each token it holds once, on any of
its threads or from inside `onRequest`, and acknowledges it at most once; an
acknowledgement may race the completion of the same request on another thread.
`VendorAnswersAll` lifts the one restriction left: that the vendor leaves to
libril the manual selection that libril answers itself.

### RadioService

A phone process is a number; `alive` says whether the latest lives.  `readers`
counts read locks as pthreads does, without owner; `holders` says who is between
its lock and its unlock.  `unlock` by a thread that holds nothing takes another's
read lock away, which is what the code does when `assert` is compiled out.  The
response and indication functions are one action, `Call`: they differ in the
structures they convert.  Error responses are
always part of it.  `KeepNitz` frees the kept NITZ data and then stores the new
copy or finds no memory; between the two the pointer is NULL, and a resend sends
nothing.  What a resend would read from a buffer that is freed under it is left
out.

### SapService

A request is its client process, message id and token.  `reqHeap` and `msgHeap`
are the allocated `SapSocketRequest` and `MsgHeader` objects; `curr` and `msg`
keep the content of a freed object until its address is allocated again, since
that is what a dangling pointer reads.  It may also read what another allocation
wrote there: `Crash`, enabled while `Misuse` holds, ends the process.  `bpc` is
the binder thread in `addPayloadAndDispatchRequest`, `pc` a thread in
`onRequestComplete` or `onUnsolicitedResponse`: the vendor may answer from inside
`onRequest`, so the binder thread can be in both.  `Encode` stands for the eight
request methods, which differ in the structure they encode, and `EncodeFails` for
all their error exits.  `NoResponse` and `EnqueueFails` are the two allocations
whose failure nobody is told of; `dropped` records the request.  The memory of
decoded responses, which `processResponse` never frees, is left out, and so is
the payload.  A disconnect indication that cannot be decoded reaches
`sendFailedResponse` with a token nobody initialised (`RilSapSocket.cpp` 287):
that answer, whose token may be any number, is left out; `CallCallback` gives the
indication none.

### RilCommands and RilDispatch

A method is a *script*: the request it makes, its steps (each takes some memory
and may fail, with what it undoes and how it answers then) and what is freed at
the end.  The scripts, the binding of requests to response functions, of response
functions to callbacks and of unsolicited messages to indications are data in
`RilCommands`, one entry per row of the C tables, and `RilDispatch` interprets
them: one step of a script is one action, the vendor answers before or after
`onRequest` returns.

A payload is one of four kinds: absent (NULL, length 0), phantom (NULL with a
length), misfit (a length the function refuses, or a row of
`getAvailableNetworks` it cannot read), and fits; each answer says which of them
it refuses.  A pointer with length zero is not produced for an answer; for
indications it is.  What a conversion copies from one structure to the other is
left out.

One request is outstanding at a time, since the pairing of many requests with
their answers is `RilRequests`; indications arrive between calls, and the memory
of an abandoned call is forgotten with it.  The vendor's OEM hook is taken to be
enabled, as it is built; a data profile is one profile.  `setSimCardPower` is answered
through the callback of 1.1 for a client of 1.1, as in the code.  A refused
request stays on `s_pendingRequests` (see `RilRequests`).

Known departures of the code, visible as exemptions in the properties:
`setCarrierInfoForImsiEncryption` leaks three strings (`Leaking`);
`sendDeviceState` and `setIndicationFilter` below version 15 use `pRI` without
the test for NULL, which ends the process (`checked = FALSE`);
`keepaliveStatusInd` (`ril_service.cpp` 8664) tests the cast of a 1.0 client's
indication object only for being ok, not for being NULL.

### SensorsDoze

Everything runs on the main thread, so a callback is one action.  Times are left
out: whether a wave was quick and whether the last pulse was five seconds ago are
choices of the event.  A display change sends a broadcast that may be up to
`MaxBroadcasts` behind (a wake-up by the service itself adds one); a started
service may still get the broadcast of the state `isInteractive` reported.
Preferences change only on a lit display.  `ProcessDies` and `StartService` are
`START_STICKY`.  `onDestroy` is left out: nobody stops the service.  Sensor
objects keep `state` across `disable`, as the classes do; in particular
`mPickUpState` survives a display session.

### Light

`setLight` holds `mLock`, so a call is one action.  A colour is its channels and
the alpha byte; the current of an LED is a fixed multiple of the ratio that
stands for it.  `leds`, `program` and `blinking` are the hardware, which keeps
its contents when the HAL restarts without its memory (`Restart`); the other
variables are that memory.  `StatesOK` is what `LightsService` sends: a dark
light has nothing else, and a light that does not blink by the timer has no
delays a timed light has.  Sequencers 2 and 3 are never used.

Two things the properties leave open on purpose: attention light has no state of
its own in `mLightsState`, so which units show it depends on the light before;
and its colour differs from the other lights' (white), otherwise an unchanged
colour would keep the charging current after it.

### LightsEffects

The service's copies of the settings are the settings while it runs (the
preference listener is synchronous), and what it registered for follows from
them, so neither is a variable.  Songs are numbered as they are heard of, and a
number is the song's colour (never black, which the program would read as off);
0 is the property value `0` or none.  `stale` are
callbacks of earlier session lists, which `onActiveSessionsChanged` and disabling
leave registered until their controllers are collected.  Palette tasks run
concurrently; a cancelled one delivers nothing, since both happen on the main
thread.

init starts the oneshot program for each property change, ignores that while it
runs, and keeps no more than one start waiting: starts that wait together are
executed together.  The program (`process`) reads the value, then the gain, then
writes.  `missed` records an ignored start.

The service starts and restarts (`START_STICKY`) under any display, and the
settings may change while it is down.  `misled` is history: the latest start took
a dark display to be on although the user wants effects on a lit one only, or
found every mode off and left the value of its predecessor alone.  The first
broadcast or preference it handles ends that.  `SetMode` makes the two writes of
"always", which switch two preferences, one step.
  The specification's own names
(`EffectsInit`, `EffectsNext`, `EffectsSpec`) leave `Init`, `Next` and `Spec` to
`Light`, next to which `LightProofs` has it.

## 4. Runs

| run | result | shows |
|---|---|---|
| `RilEvent` | holds | one place for each timer, no lost wake-up, nothing early, every timer runs, writers get on, refinement of `TimerService` |
| `WakeLock` | holds | version 13+ with failing allocations: a release is always coming, count and lock agree unless calloc failed, no dangling pointer, the phone sleeps; below 13 a coming release is lost only by a late cancel |
| `WakeLockLeak` | violated | below 13 one thread is enough to lose the release |
| `RilRequests` | holds | each response to its own request; acknowledgements race completions and go astray only after the answer; no request without somebody who has it; refinement of `RequestService`; every request answered |
| `RadioService` | holds | with unlocked error responses: a living process is never disconnected, no reader is left uncounted, NITZ at most once and never ahead, everything settles |
| `RadioServiceErrors` | violated | an error response gives up a read lock it does not hold |
| `SapService` | holds | tokens stay valid, each response is to its own request, refinement of `RequestService`, nothing leaks, no request is forgotten |
| `RilDispatch` | holds | every method, response and indication: nothing leaks, one answer, through the right callback, old clients never called on new callbacks |
| `RilDispatchMisrouted` | violated | one response function invokes another method's callback |
| `SensorsDoze` | holds | no sensor under a lit display, one motion sensor, no gesture left over, pick-up always sensed |
| `Light` | holds | LEDs and sequencer show the lights set now, whatever was skipped |
| `LightsEffects` | holds | effects only as allowed except after a start that guessed wrong, colour of the latest song, LEDs follow the properties |

### Findings

What the code does against its own words.  The first three have runs of their
own; each of the others is a property TLC finds violated after the change named with it.

* `hangupForegroundResumeBackgroundResponse` invokes
  `hangupWaitingOrBackgroundResponse` (`ril_service.cpp` 3405).
* Below version 13, which is what vendor libraries of this device's age speak,
  `RIL_onUnsolicitedResponse` stores the timer after arming it (`ril.cpp` 827).
  If the timer is run and freed first, the pointer dangles and the next indication
  cancels the timer that has reused the memory, its own: the wake lock stays held
  (`ril.cpp` 770 promises otherwise).  `WakeLockLeak` shows it with one thread;
  `LostOnlyByLateCancel` says that it is the only way.
* `sendErrorResponse` takes no read lock although `checkReturnStatus` releases
  one ("Caller should already hold rdlock", `ril_service.cpp` 787):
  `RadioServiceErrors`.  After such an error with a dead phone process a read lock
  is left over: the next `setResponseFunctions` waits for ever on the only binder
  thread, which is the last case of `Settles`.
* The NITZ copy is made after the lock is released (`ril.cpp` 840): a phone
  process that registers between the call that found no callback and the copy
  finds nothing to be resent, and the copy stays with a client connected,
  against lines 842-844 ("so we can deliver it when it is connected").
  `RadioService` with `MaxClients = 1` and `MaxNitz = 1` violates `NitzNotLost`.
* The fake success for manual network selection frees the `RequestInfo`; a real
  answer afterwards finds whatever request has that address.  `ril.h` says
  later calls are tolerated but ignored.  The code's own comment says the
  vendor's library never answers; under that assumption all is well.
  `RilRequests` with `VendorAnswersAll = TRUE` and two addresses violates
  `LateCompleteIgnored`.
* `SapImpl::checkReturnStatus` has none of the protection its counterpart in
  `ril_service.cpp` has (lock and counter): a failed call to a dead client drops
  the callback of the client that registered meanwhile.  `SapService` violates
  `ResetsDeadCallback` (`SPECIFICATION Spec`).
* `checkAndDequeue` frees by message id and token.  When a restarted client repeats
  an earlier one's tokens it frees the other request, whose message then loses its
  owner: `SapService` with `TokensRestart = TRUE` violates `NothingLeaked`.
* `LightsEffectsService` takes the display to be on whenever it starts: restarted
  (`START_STICKY`) under a dark display, "Only pulse with display on" is not
  kept until the next change.  And when the last mode is switched off before the
  restarted service runs, `applySettings` sees no change and leaves the old value
  in the property.  `EffectsAllowed` without its exception for `misled` is
  violated after one start.
* A property set while the music lights' program runs starts nothing:
  `LedsFollowProperties` without its exception for `missed` is violated, the
  LEDs keep the older value until the next change.
* With version 13+, a timeout that has read its cancel
  mark still drops the lock of the message that cancelled it, and a resent NITZ
  time carries the receive time of the latest indication, not its own.
  `CountMatchesLock` and `NitzNeverAhead` bound what that can do.

### Bounds, and why they are enough

* `RilEvent`: two requesters, two timers and delays up to 2 give lists of two,
  every order of insertion against expiry, a callback that adds a timer while
  another is pending, and one byte of pipe so that the second writer blocks.
* `WakeLock`: three threads, two of them inside at a time (`MaxInside`), and three
  timers: a new one, the one it cancels and one reused; `MaxCount` 3 lets every
  thread hold the lock.  `WakeLockLeak` has one thread, to show that one is enough.
* `RilRequests`: three requests over three addresses, one of them the manual
  selection: reuse needs two requests, an acknowledgement that races a completion a third.
* `RadioService`: two processes, since every race is between a failed call to
  one and the registration of the next; the binder thread and one of the vendor's,
  which can fail at once; two NITZ times so that one can overtake the other.  Two
  vendor threads, or three processes, with one NITZ time hold as well.
* `SapService`: two client processes (the second one's registration against the
  first one's failed calls), two requests that are outstanding together and over
  two addresses of each kind, so that an address is reused while another thread
  still holds it; the binder thread inside `onRequest` and one vendor thread are
  two calls at a time; one indication, which uses the callback without a request.
  `TokensRestart` is FALSE: no two requests have the same id and token.
* `RilDispatch`: all methods and messages, and the versions 3, 14 and 15 between
  which the code chooses; two client versions that replace each other.
* `SensorsDoze`: two broadcasts behind, so that one is overtaken by the next; all
  settings and all sensor events.
* `Light`: three colours, two brightnesses, two blinking times and the delays
  that differ only in one of them; attention and battery in every combination.
  The decisions compare a call with the one before, so longer histories add
  nothing new.
* `LightsEffects`: two songs (a palette and a later song), two gains, two
  broadcasts, one session with a current and a stale callback.  More sessions
  change nothing: all share one callback object and one flag.

`CHECK_DEADLOCK FALSE` where the system may stop: the process was killed, all
requests were sent and answered, or no phone process is left to start.

### Fairness

The operating system runs every thread that can run: weak fairness for each
thread's steps inside libril.  Strong fairness only for a writer that competes
with others for space in the pipe (the kernel queues them) and for the vendor
completing a request (it must find time although its threads are busy
acknowledging).  Time passes.  Nothing makes the environment act: no fairness for
requesting a timer, sending an indication, acknowledging, starting or dying.
Hence the two liveness properties that speak about quiet: `WakeLockReleased`, for
version 13 and later, holds unless messages keep coming, and `Settles` unless
indications or error responses do, or an error response left a read lock behind.

## 5. Proofs

Every theorem holds for all values of the constants that satisfy the modules'
assumptions: any number of threads, timers, requests, addresses, processes.  A
theorem that needs more says so as its hypothesis.

* `RilEventProofs`, for any number of threads and timers, any delays, any capacity
  of the pipe and any of the faults.  The invariant follows the loop through its
  rounds and each requester through the steps of `ril_timer_add` and the write to
  the pipe.  `NoLostWakeup` is not inductive: what is kept is that the head that
  `calcNextTimeout` read is still armed and no timer is earlier, unless the thread
  that added an earlier one still has its write before it or its byte is in the
  pipe (`HeadInv`).
  From it follow `NoWakeupLost`, `CallbacksAreDue`, `OneListEach` and
  `ListIsSorted`, and, step by step, the simulation of `TimerService`
  (`LoopIsTimerService`).
  `PipeNeverFills` is the part with a hypothesis: finitely many threads and timer
  objects, and room in the pipe for three bytes per object and one per thread.  A
  pipe is drained once in a round at most, so fast threads could fill any pipe if
  the timer objects did not run out.  The invariant (`PipeInv`) bounds bytes and
  writers together by the threads, the armed timers, and an allowance for timers
  that left the list since the pipe was last seen empty (`Allowance`): none right
  after that, one walk of `processTimeouts` takes each object off at most once,
  and a second walk may follow before the pipe is drained.  Linux gives a pipe
  65536 bytes, room for more than 20000 timers at a time; so `grabPartialWakeLock`,
  which writes with `s_wakeLockCountMutex` held, gets on without the dispatch
  thread.  TLC agrees with the number: the instance of the run `RilEvent`, with
  `MaxDelay = 1` and no fairness, satisfies `WritersNeverWait` with `PipeCap` 8 (and
  7), and violates it with 6.  The run itself has one byte, so that writers do wait.
* `WakeLockProofs`.  `TypeCorrect` first, with the ownership of the mutex (a
  thread inside its critical section owns it) and the bound of the count.  Then
  the protocol invariant.  `LockHasRelease` alone is not inductive: it must be
  known that the last stored timer is not cancelled unless a thread is about to
  replace it or the lock is free, that a timer a thread still holds is armed or
  firing, and where the dispatch thread is between reading the mark and freeing.
  From it follow `NoWakeLockLeak`, `NoDanglingLast` and `CountIsRight` for version
  13 and later, whether or not allocations fail; `lost` is a history variable, for
  the one way in which a counted message loses the lock early.  Below 13 there is
  no mutex and no such invariant: a finding shows that the lock is lost.
  `LostOnlyThere` says for every version, any threads and any timers where: only in
  `CancelLast`, when the thread's own timer has already gone off, was cancelled, or
  is the one it cancels.  It is an action property, proved one action at a time:
  each other action keeps the timer or the thread that the release was coming from,
  or drops the lock.
* `RilRequestsProofs`, for a vendor that is `WellBehaved` (it leaves manual
  selection to libril).
  The invariant gives each pending request one owner: the vendor's token or one
  thread, never both; an owner's address is allocated and still carries the
  serial its call is about.  Hence `AnswersAreRight`.  An acknowledgement owns
  nothing: another thread may complete and free its request between its lookup and
  its use of `pRI`.  `AckInv` says that until the request has its answer the vendor
  or the thread that completes it still owns it, and with it the address; hence
  `AcksAreRight`.  And
  `AnswersOnce`, the simulation of `RequestService`: the request an owner answers
  was sent and has no answer yet.  `NoneForgotten` goes the other way, from the
  request to its owner: an unanswered one always has one, and an answered one is
  being freed or is one that `sendErrorResponse` leaves on the list.  This is the
  safety half of `EveryRequestAnswered`; the rest is fairness.
* `RilDispatchProofs`, for any methods, vendor versions and messages.  The
  control is proved, the tables are data: what the theorems need of them is
  stated in `RilDispatch` as five facts about single entries (`ScriptsFree`: a
  step that fails frees what the steps before it took, and the end of a method
  frees all; `FailuresAreErrors`; `AnswersFit10`; `IndicationsFit10`;
  `AnswersNamed`: a method's request is bound to a response function that calls
  the method's callback, but for the one `Misrouted`).  They are the hypotheses
  `TablesSound`, and `MCRilDispatch` assumes them, so that TLC evaluates them for
  every method and message and the versions on either side of each of the code's
  distinctions.  The invariant
  (`DInv`) says which places of the binder thread and of the request go together,
  that the script is the method's, that what is allocated was taken by steps
  already done, and that a 1.0 client was told nothing of the 1.1 interface.
  `NoCallLeaks`, `EachCallAnsweredOnce` and `OldClientsAreSafe` follow for every
  order of a failing step, the vendor's answer, the return of `onRequest` and a
  change of clients.  For `AnswersReachTheirMethod` the place of the request tells
  that its response function is the one of the method's script, whoever answers
  and whichever client (`ClientInv`) takes it; the rest is `AnswersNamed`.
* `SapServiceProofs`, for client processes that do not number their requests like
  an earlier one (`~TokensRestart`).  The invariant gives every message one sent
  request and every queued request a message of its own; before `onRequest` only
  the binder thread knows them, then only the vendor, then only the thread that
  answers.  So the entry `checkAndDequeue` finds by id and token is the request of
  the message it is given (`FindsItsOwn`), a token never dangles
  (`VendorTokensLive`), each response is to the request completed
  (`SapAnswersAreRight`), and a request whose message is alive has its answer only
  from the thread about to free it, which makes the service a `RequestService`
  (`SapIsRequestService`), also across a crash; `NoSapLeak` needs that the entry
  is always found.  `NoSapRequestForgotten` follows a request from the binder
  thread to the vendor and to the thread that calls back; a client that sent
  something has registered (`SentInv`), so `setCallback` never brings back one
  that is gone.
* `RadioServiceProofs`, error responses included.  `IInv` ties the counter
  to the registrations: a thread that noted the current value saw callbacks of a
  process that is dead, so resetting them cannot hit a living one
  (`NoLiveClientDropped`).  An error response gives up a read lock that it does
  not hold; `LockNeverShort` bounds what that does (`ReadersAreCounted`): `readers`
  counts one thread too few at most, and only while the binder thread has given up
  and not yet taken back, so that `readers` never falls below zero
  (`RadioTypeCorrect`) and no other thread registers callbacks under a call that
  failed.  It is proved over the cardinality of the set of readers.
  `NInv` is about NITZ times.  `NitzDeliveredOnce` is not inductive: a time is in
  one place, with one thread or kept in `s_lastNITZTimeData` (`HeldInv`); what a
  thread is about to deliver, or found nobody to deliver to, was not sent, and
  neither was the kept one unless it is about to be freed (`UnsentInv`).  Hence
  `NitzSentOnce`; and `NitzTimesOrdered`, as the receive time is always the latest
  (`LatestInv`).
* `SensorsDozeProofs`.  `SensorsOffWhileOn` speaks of broadcasts that were all
  handled; the invariant says what is known while some are under way: the last
  of them tells the display's state, and without one a lit display has been
  handled; a stopped service runs nothing.  `OneMotionSensor` needs that the
  motion sensors start only after the proximity sensor's first reading.
  `GesturesFinish` and `PickUpsNoticed` add what a proximity reading leaves behind
  (`GInv`): before the first one nothing is under analysis.
* `LightProofs`, for any states that satisfy `StatesOK`.  The invariant ties the
  HAL's memory to the hardware: nothing is known before the first call, later the
  remembered delays tell whether the sequencer runs, and if it does its program
  is the one for the remembered target and delays; so a skipped write was
  unnecessary (`BlinkingIsAsked`).  For the LED units (`LInv`): they show what a
  complete write of the remembered light would show now, although `Light.cpp`
  compares colours and delays only.  `ColoursAreShown` has no hypothesis;
  `LightsAreShown`, which is `LedsShowLights` with the current, holds for lights
  among which no notification has both the colour and the alpha byte of an
  attention light (`AttentionApart`).  That is needed: the comparison leaves
  `mLightsState` out, so a notification that equals the attention light shown
  beside the battery's is skipped and keeps the charging current on its units.
  `BacklightMonotone` and `BrightnessIsByte` are about the brightness curve for
  all 256 values.
* `LightProofs`, second part, about the music lights: at most the latest song's
  palette is being computed (`LatestSongWins`); unless a start waits or was
  ignored, the running program has read the current properties
  (`ControllerFollows`); the last broadcast on its way tells the display's state
  and, without one, `mDisplayState` is not true under a dark display that matters,
  and the value is what the user wishes; a start may break either, and `misled`
  records that until the first broadcast or preference after it
  (`DisplayKnown`, `Wished`; hence `NeverAgainstTheUser`, for any starts).

Only model-checked: every liveness property (`EveryTimerFires`, `WriterReturns`,
`WakeLockReleased`, `Settles`, both `EveryRequestAnswered`), since TLAPS has no
reasoning about ENABLED and fairness here; and the facts about single table
entries mentioned above, which TLC evaluates one by one: their records are put
together with an operator of the module TLC that the provers do not know.  Every
invariant and action property of a run that holds is a theorem.  `ListIsSorted`
and `PipeNeverFills` are theorems about properties that no run lists.

## 6. Not modelled

Conversion between C structures and HIDL, logging, the multi-SIM variants (the
device has one slot: `SIM_COUNT` is 1), `RIL_register` (runs before any thread),
and the components marked `not_modelled` in `PROJECT.json`, each with its reason.

GNSS deserves a word: `updateWakelock` (`Gnss.cpp` 326) tests two flags and a
static without a lock, for two threads.  A thread that saw the other's flag set
may acquire after that flag was cleared and the lock released; one that saw both
clear may release after the other set its flag.  A new client inherits
`sWakelockHeld` from the dead one and is not asked to acquire again.  The code
states no property that would hold of this, so there is no module for it.
The kernel, the vendor's library and the phone process appear only as
environment.
