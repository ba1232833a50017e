# Secure serial Modbus: a verification project

TLA+ modules for the prototypes under `protocols/`: three profiles that protect Modbus RTU
with a handshake and encrypted PDUs, their master and slave programs, and the servers that
start them. The modules are translated from the Python source. TLC checks them on small
instances; TLAPS proves the safety properties of the three handshakes, of the encrypted exchange, of the
registers and of the control of processes for all instances.

Paths below are relative to the repository; `ECC/` stands for
`protocols/protocols-ECC/secure_modbus/`.

## 1. The system

| Component | State | Operations | Talks to |
|---|---|---|---|
| ECC handshake (`ECC/session.py`, `sac.py`, `crypto.py`) | per connection and end a `SecureSession` (peer id, DHSK, authentication key, SAC with two counters, content keys); per end one context file named by the Modbus address | `client_handshake`, `server_handshake`: open, re-authentication or certificates with ECDH, SAC, content key update | the other end, frame by frame |
| ECC master (`ECC/master_server.py`) | one `MasterClient` shared by all HTTP handler threads: `lock`, `sock`, `session`, `identity` | `connect`, `close`, `transact`, `read_holding_registers`, `write_single_register`, `status` | slave; HTTP callers |
| ECC slave (`ECC/slave_server.py`) | one thread, one connection at a time, a `RegisterBank` for the life of the process | accept loop, `handle_client`, `handle_pdu` | master |
| ECC encrypted exchange (`session.py`, `crypto.py`) | content key, `tx_content_counter` | `send_encrypted_pdu`, `recv_encrypted_pdu` | the other end |
| ECC framing (`frame.py`, `tlv.py`) | none | RTU frame with CRC, APDU, TLV messages; UART reads and writes | link |
| ECC user interface (`ui_server.py`) | `UiController`: slave process, master object, logs, one lock | `init_pki`, `start_slave`, `stop_slave`, `start_master`, `stop_master`, reads and writes | slave process, `MasterClient` |
| PSK profile (`protocols-psw/`) | per session keys from a password, `send_counter`, `recv_counter` | handshake opened by the master, encrypted reads; a web front end with an embedded slave thread | as above |
| Post-quantum profile (`protocols-mpq/`) | per session KEM secrets, the same counters | handshake opened by the slave, encrypted reads | as above |
| Unified launcher (`unified_server.py`) | processes, ports, one lock | `start_all`, `stop_all`, signal handler, choice of ports | the three user interfaces |

### What is hard

* Two programs, three ways to lose agreement. Both ends keep keys in memory and in a file.
  Frames are lost or garbled, either process dies at any point, also inside `save_context`,
  and files and certificates are replaced under running programs, the latter one file at a time.
* The slave serves one connection at a time and has no timeout. Whatever keeps a connection
  open that nobody uses stops everybody. An exception it does not expect ends it.
* The master's socket, session and lock are shared by threads, and `stop_master` closes the
  session without taking the lock.
* An answer carries no transaction number, and the receiver ignores the counter.
* A call that failed by timeout may still be executed.
* The launcher runs `stop_all` in signal handlers, on top of whatever the main thread was doing, another
  `stop_all` included. What it stops has processes of its own, which a signal may or may not reach.

`PROJECT.json` lists these as hazards at their lines.

### What makes each component correct

* Handshake: when both ends serve, they hold the same keys and know each other; the slave
  serves only masters that finished; nothing kills the slave but a torn file of its own; two ends
  verify each other only with certificates of one generation; an attempt nothing disturbs succeeds; the slave is freed of dead connections.
* Exchange: a request is executed at most once, an answer belongs to its call, no nonce is used
  twice, what a failed call left behind is not executed after a later call, every call returns, and the
  end of the content counter does not end the slave.
* Registers: reads return the last writes, exactly the meaningless operations fail.
* PSK and post-quantum programs: an end that finishes the handshake holds the keys and ids of an
  end that ran it with this one, whatever an earlier run left in the receive buffer; no
  content key comes twice; registers the master reports are those it asked for; an undisturbed run
  succeeds.
* Frames: an undamaged frame is parsed to what was sent, a damaged one raises; frames are accepted
  as they were sent and in order, wherever the receiver starts to read.
* Processes: whatever signals interrupt it, the launcher ends and leaves no project running; no slave
  process runs that nobody knows; every stop and every read is answered; ports are given back.

## 2. The modules

| Module | Models |
|---|---|
| `EccSession` | both ends of the section 6.2 handshake, the context files, the accept loop, incidents |
| `SecureChannel` | abstract: what the handshake of each profile promises about the keys of a connection |
| `EccSession_proof` | theorems and proofs about `EccSession`, and that it implements `SecureChannel` |
| `EccData` | threads of the master, `stop_master`, the encrypted exchange, the slave's service loop |
| `RegisterBank` | `handle_pdu` as operators on the registers |
| `RegisterService` | abstract: what callers of reads and writes are promised |
| `RegisterAccess` | master's register operations against `handle_pdu`, at the numeric boundaries |
| `SerialLine` | the serial line of the PSK and post-quantum programs, record by record |
| `PskSession` | the two programs of the PSK profile: handshake and encrypted read |
| `PqSession` | the two programs of the post-quantum profile: loop of attempts, handshake, encrypted read |
| `RtuFrame` | CRC, RTU frame and APDU on real bytes |
| `UartLink` | one direction of the UART, byte by byte, and what noise does to it |
| `Launcher` | `unified_server.py`: ports, `start_all`, `stop_all`, signal handlers |
| `SlaveControl` | `start_slave` and `stop_slave` of the ECC user interface, and the slave processes |
| `EmbeddedSlave` | a read of the PSK web front end and the slave thread it starts |
| `ProcessTree` | the three together: which signal reaches whom |
| `EccData_proof`, `ProcessTree_proof` | theorems and proofs about `EccData` and `ProcessTree` |
| `RegisterAccess_proof` | theorems and proofs about `RegisterAccess` |
| `SerialLine_proof` | lemmas about the operators of `SerialLine` |
| `PskSession_proof`, `PqSession_proof` | theorems and proofs about `PskSession` and `PqSession`, and that they implement `SecureChannel` |
| `UartLink_proof` | theorems and proofs about `UartLink` |
| `MC*` | values of the constants for TLC |

`EccSession`, `PskSession` and `PqSession` refine `SecureChannel`. `EccData` extends `RegisterBank`, starts where
`EccSession` ends (its handshake is one step, which gives both ends the key of the connection,
which is what `KeyAgreement` and `PromiseKept` establish) and refines `RegisterService`.

`SecureChannel` says what the three handshakes have in common: the master installs a key nobody else holds, the slave installs
that key and does so once, neither serves before the other has it, and a session that ends keeps no key. They differ in who
has the last word, which is its constant `MasterFirst`. In sections 6.2 and 6.3 the master has the slave's last
word before it sends a request, so the slave never serves a master that does not serve. In section 6.4 the master is done when
it has sent AKH, and what it waits for is the answer: it serves, that is believes what it reads, only then. For `EccSession`
the connections are its own; for `PskSession` and `PqSession` connection `n` is run `n` of the master, and the slave's end of it is
the session it established with that run. There the abstract state is computed from the program counters, the contexts and the
history of sessions, so a master that starts again ends its last connection, and a slave that stops ends all of its own.

`PskSession` and `PqSession` extend `SerialLine`, `UartLink` extends `RtuFrame`. What the session
modules assume of the line, that a record arrives whole and in order, is lost, or is found damaged, is
what `UartLink` checks of the bytes.

`ProcessTree` composes `Launcher`, `SlaveControl` and `EmbeddedSlave`, each with variables of its own;
what joins them is that a user interface that ends takes its threads with it, and that Ctrl-C
reaches every process of the terminal. What the slave processes say to a master is the subject of
`EccData`, what the embedded slave says that of `PskSession`.

Names that end in an underscore and a capitalised word (`ServerSaves_BeforeAkh`) are defective
variants of the definition before the underscore. No specification uses them; substituting one for the original makes
the property listed with it in `PROJECT.json` fail, which shows that the property depends on
that line of the code.

### EccSession

Connections are numbered as the master opens them. For connection `n`, `cpc[n]` and `spc[n]`
name the `recv()` at which the master's and the slave's end wait; there is one action per
received frame, which contains everything the code does up to its next `recv()`: checks,
derivations, the reply, every exception. The two exceptions to this grain are `ClientSaves` and
`ServerSaves`: `save_context` is a step of its own, because a crash between it and the frame
sent before it is the interesting case. `Accept` is `server.accept()` with the identity
loaded and `OPEN_REQ` sent.

`csess[n]` and `ssess[n]` are the two `SecureSession` objects. Keys are records that name what
they are derived from (`Dhsk`, `AuthKey`, `SacKey`, `ContentKey`): two keys are equal exactly if
all their inputs are. A random value is represented by the connection it was drawn in, since
each end draws each of its values once per connection.

`cctx` is the master's only context file, `sctx[s]` that of slave `s`: absent, saved or torn.
The file name contains the Modbus address and nothing else (`master_server.py:53`,
`slave_server.py:50`), so all slaves the master reaches at that address share `cctx`. A slave is
a process with its own state directory; `Slaves` with two elements is a slave that has been
replaced, or two that are reached through different ports at the same address.

`pki` is the PKI directory. `init_demo_pki` writes seven files one after another and in place, and `open` cuts
a file to nothing before there is anything to write: each of the two is a step (`WritePki`), so each file is
torn or of a generation, the run of `init_demo_pki` that wrote it. A run may stop after any step, and
another may follow it (`RegeneratePki`); two at the same time are not modelled, `init_pki` holds
the controller's lock. The slave loads root, key, device and brand certificate for each connection, and
what it gets may be made of two generations (`identity`, a generation for each certificate; the private key of a
handshake is ephemeral, that of the device is only loaded). If one of them is torn, `load_identity`
raises what `main()` does not catch, and the slave dies (`AcceptRaises`). The master loads its identity when a
`MasterClient` is made, in `RestartMaster`, and if that raises there is no master until `start_master` is
asked again (`StartMaster`). A load of four files is one step: the root certificate is written first
and read last, so a load that files change under gives an identity that a load between two changes also gives,
or certificates that are no chain, which every peer refuses. The directory is complete to begin with, as it is
in the repository.

Exceptions end an end in three ways. The master drops the session but not the socket, which
`connect()` has not stored yet (`ClientGivesUp`, later `ReleaseSocket`). The slave closes the
connection after `ProtocolError` and `OSError` (`ServerCloses`) and dies of any other exception
(`ServerRaises`: `KeyError`, `InvalidSignature`, `JSONDecodeError`).

Incidents: a frame is garbled (the receiver finds a CRC error) or lost, the master's timeout
expires before a slow slave answers, either process is killed and started again, in particular
while it writes its file, the state directory of a side is deleted, `init_demo_pki` begins.
They are bounded by `MaxIncidents`. `NothingComes` is the timeout that is certain to
expire; it is not an incident. The link carries whole frames in order: this is what the socket
simulation in `frame.py` does and what the callers of `readUART` and `writeUART` need.

### EccData

`tpc[t]` follows a handler thread through `transact`: waiting for the lock, `connect` with its
two assignments (`Dialed` sets `sock`, `Adopt` sets `session`), the two evaluations of
`self.session` (`Encrypt`, `Reread`), the step of the counter and the write (`Write`, after the frame is
encrypted), the answer, the exception handler. `stopper` follows
`stop_master` through `close()`: test, `sock.close()`, `sock = None`, `session = None`. If the
socket disappears between test and use, the `AttributeError` leaves `stop_master` before it
gives up the `MasterClient` (`"raising_..."`).

A socket whose last reference goes is closed by the interpreter (`Collect`); after `stop_master`
the `MasterClient` itself goes with the last handler that uses it. This matters: if
`stop_master` clears `sock` between the two assignments of `connect()`, the object is left with a
session and no socket, every later call dials again, and the slave still serves the first
connection. In this state calls fail by timeout until the object is dropped; `StoppedLetsGo`
shows that dropping it is enough.

`CounterLimit` is the largest content counter that `encrypt_content` can write, 2^32 - 1 in the code. The
end that has used it raises `OverflowError` at its next frame (`RunOut` for the slave). The master turns any
exception into a new connection; the slave catches `ProtocolError` and `OSError` only and would
die. `SlaveOutlastsCounter` states that this does not happen: the master's counter is ahead of the slave's
and ends first.

The number of the call that a frame belongs to is in the model and not in the code; only
properties read it. `answered` and `sealed` are histories.

### RegisterBank, RegisterAccess

`RegisterBank` is `handle_pdu`: words, ranges, exception answers, the slice that would be short
if the range check let it. `RegisterAccess` adds the master's packing and decoding, for integers
that need not be words.

### SerialLine, PskSession, PqSession

`readUART` and `writeUART` are not in the repository. `line[e]` holds the records sent to end `e`
and not yet read. It belongs to the port and not to a program, so a program that starts finds in it
what the last one left, or finds it empty (`OpenedPort`): both are possible with a serial driver.
Noise loses or damages any record under way. `readUART` may return nothing at any time the buffer is
empty (`MasterGivesUp`, `SlaveGivesUp`); the code turns that into `EOFError`. Records carry no time, and
nothing says how long `readUART` waits, so an end may give up before the answer comes.

Each action is the code between two `recv_record` calls: it takes a record, makes all checks up to
the next read and sends the reply. `OpenReqOk`, `DataCnfOk` and the like are the conditions under which no
check raises; `MasterRejects` and `SlaveRejects` are all other records. `parse_encrypted_data_send` of a
record under another key or counter raises `InvalidTag`, which nothing catches: the slave is
`"died"`. A `ProtocolError` ends the PSK slave, whose `serve` on a UART has no loop, and takes the
post-quantum slave to its next attempt.

Points, shared points, KEM ciphertexts and secrets, and hashes are terms; random values carry the
run or attempt that drew them. `Shared(private, peer)` is the unordered pair of the two points, since
both ends compute the same product. `decaps` with another secret key returns an unrelated secret, as
ML-KEM does, and no error.

`clean` is a ghost: this run of the master began with a ready slave at its address and an undisturbed
line, and since then there was no incident and no end gave up on a record still under way. `verified`,
`issued` and `sessions` are histories, of what the ends had derived when.

### RtuFrame, UartLink

`RtuFrame` is `frame.py` on bytes, CRC included. `UartLink` lets the bytes of two records arrive in any
portions; one byte is lost or changed, or a read given up, at any point (`Noise`, `GiveUpEarly`). `Damage`
is noise over more than a byte: every burst shape (first and last bit of up to `MaxBurst`, with all or none
between), every pair of bits and every lost run of bytes. With `Prefixed` the sender writes what
`send_packet` writes, the counterpart of `recv_packet`; without it, what `send_secure_apdu` writes.
After an error the receiver goes on with the next bytes there are, as every loop in the
code does. The second message is chosen so that its CRC also matches one byte early: if a bit of its
length is flipped, the length inside the APDU is the only thing that tells. A payload that
contains a complete record would be taken for one after a loss of synchronisation; with ciphertext
as payload this is a matter of probability, and no message of the instance is such a payload.

### Launcher

`main` follows `main()` from the choice of ports to the callback of `atexit`; `calls` is the stack of
activations of `stop_all`, the innermost last. A signal handler runs in the main thread, so the activation it
starts lies on top, nothing below it moves until it is done, and the `SystemExit` it raises then discards
everything below up to the enclosing `finally` or the exit (`Return`). `Acquire` waits for the lock that an
activation further out may hold: it never gets it. Each step of `stop_all` between which a signal can come is an action:
lock, list of processes, each `terminate()`, each `wait()` with the `kill()` that follows a timeout.
`Handled` says which signals have a handler at which point of `main`; before that, SIGTERM ends the
launcher where it stands, and SIGINT runs the callbacks registered so far.

A project's process binds its port some time after the launcher has found it free (`UiBinds`, `OthersChange`).
The threads that copy the projects' output, and those of the page, hold the lock for moments in which they wait for
nothing, and are left out.

### SlaveControl

One HTTP thread may be in `stop_slave` while others start and stop: `stop_slave` waits for the process
without the lock and assigns `slave_process = None` when it is over, whatever `slave_process` is by then.
`stopping[t]` is the process thread `t` waits for. `overlapped` is a history of the processes
started while somebody waited: these can be forgotten, and the properties say that no others are.

`control` follows the end of the process. `KeyboardInterrupt` ends `serve_forever`, and the main thread is in the
`finally` clause of `main()` (`"leaving"`). There `stop_master` may raise (`StopMasterRaises`: it tests and
closes `MasterClient.sock` without that object's lock, and a transaction that fails at the same time
clears it), and a second Ctrl-C may come: both leave the clause with `stop_slave` not done (`"raised"`).
Otherwise the clause ends with `stop_slave` (`"done"`). The threads of requests are daemons, which nobody joins: they go
on in all three states, and start and stop slaves, until the interpreter has finalized
(`ControlExits`: `"gone"` after the clause, `"killed"` without it). `late` is the history of the processes
started after `serve_forever`; `overlapped` contains those started after the clause, as nothing is left to stop them.

### EmbeddedSlave

A request opens a listener, starts a slave thread, connects, and joins the thread for ten seconds.
`connected` is there because the system makes a connection before `accept()` returns. `Joins` allows the
join to end at any time after the start, since nothing bounds how long the slave takes. Closing the listener while `accept()` waits on it
does not end that call on Linux: the port stays in use (`"leaked"`) until someone connects.

### ProcessTree

The ECC user interface is project 1, the PSK front end project 2. `Follows` ties the controller to its process:
it dies where it stands when the process is terminated or killed. `TerminalInterrupt` is Ctrl-C: launcher, user
interfaces and slaves get SIGINT. `MaxEvents` bounds what comes from outside (requests, signals, ports
taken, processes killed), by the project that gets requests in this behaviour (`used`), and `MaxNested` the depth
of `calls`.

## 3. Runs

| Run | Instance | Shows | Distinct states |
|---|---|---|---|
| `EccSession_safety` | 2 slaves with different ids, 3 connections, 2 incidents of any kind, of which 1 may be a run of `init_demo_pki` | `KeyAgreement`, `ServesOnlyTheReady`, `SlaveSurvives`, `SameGeneration` | 1,430,877 up to symmetry |
| `EccSession_live` | 1 slave, 3 connections, 3 incidents that tear no file and leave the master's in place | `ContextsInStep`, `QuietAttemptSucceeds`, `SlaveFreed`, `AgreementInvariant` (the inductive invariant of the proofs), `PromiseKept` (refinement of `SecureChannel`) | 135,181 |
| `EccSession_lost_context` | as before, the incident is a kill inside `save_context` | `QuietAttemptSucceeds` is violated | |
| `EccData_safety` | 2 threads, 3 calls (so up to 3 connections), a write and a read, counters up to 2, 1 fault: a frame garbled or lost, a timeout, a crash | `TypeOK`, `AtMostOnce`, `NonceNeverReused`, `OldRequestsFirst`, `SlaveOutlastsCounter`, `AnswerMatches`, `ServiceKept` (refinement of `RegisterService`) | 753,224 |
| `EccData_live` | 2 threads, 3 calls, 1 fault, which may also be a duplicated frame | `EveryCallReturns`, `StoppedLetsGo` | 282,996 |
| `RegisterAccess` | 128 registers, numbers at every boundary | `ReadsReturnWrites`, `FailsExactlyOutside` | 8,641 |
| `PskSession_safety` | 3 runs of each program, 2 addresses, 2 slave ids, 2 incidents | `Agreement`, `FreshKeys`, `ReadsWhatItAsked`, `CleanRunSucceeds`, `PromiseKept` (refinement of `SecureChannel`) | 990,209 |
| `PskSession_password` | 1 run of each, two passwords | `SessionsSharePassword` is violated | |
| `PqSession_safety` | 3 runs of the master, 2 of the slave, 4 attempts, 2 slave ids, 2 incidents | `SlaveAgrees`, `ReadsWhatItAsked`, `CleanRunSucceeds`, `PromiseKept` (refinement of `SecureChannel`) | 714,035 |
| `UartLink_records` | 2 messages with lengths, 1 fault: a byte, or a burst of up to 16 bits, any two bits, any run of bytes | `AcceptedWereSent`, `EveryFrameArrives` | 87,124 |
| `ProcessTree` | 2 projects, 4 ports, 2 slave processes, 2 reads; 4 outside events when the ECC project is used, 2 when the PSK project is; 2 nested `stop_all` | `NothingLeftRunning`, `EndsOrHangs`, `ForgottenOverlapped`, `OrderlyEndStopsSlaves`, `StopAnswered`, `CtrlCReachesSlaves`, `OkMeansServed`, `LeaksUnconnected`, `EveryReadAnswered` | 557,044 |
| `UartLink_ecc` | 2 messages without lengths, no fault | `EveryFrameArrives` is violated | |

The types of `EccSession` are a conjunct of `AgreementInvariant`; those of `ProcessTree` are left to the proofs (`TreeTypeCorrect`).

### Why the bounds are enough

The ends of one connection share nothing with those of another but the two kinds of files and
the slave's accept loop. Two connections are needed for a context to be saved and used, a
third for the master's file to be that of another slave, or of a session the slave did not
complete. Two incidents let one spoil the first connection and one the second; the third incident
of `EccSession_live` spoils the connection that replaces a spoiled context. Two generations of the PKI
are one that the ends have and one that replaces it halfway or whole, with an incident left to make the master load
either. `AgreementInvariant` and `PromiseKept`, which `EccSession_live` checks for one slave, are proved for any number.
In `EccData` three calls are a call that fails, one
that is disturbed by what the first left behind, and one that runs at the same time; two threads
are the least that contend for the lock, and the lock makes more of them queue. One register written and all
registers read tell every order of the calls apart. Three calls on one connection use up a counter that ends
at 2. In
`PskSession` and `PqSession` two runs of a program are one that leaves records behind and one that
finds them; the third has both before it. The post-quantum slave needs no restart for this, only
attempts. In `UartLink` one fault in the first
record shifts the reading of the second; addresses and tags do not matter for bursts, because the CRC is linear: what a
bit error does to it depends on the error and the length of the frame alone, and the checks of
address, function and length only add to it. In `ProcessTree` two projects are one that is already
stopped and one that is not when a signal comes; two nested calls of `stop_all` suffice for one
to wait for the lock of the other; four events are a slave started, a stop that waits, a second slave started
meanwhile, and a signal; two reads are one that leaves its port taken and one that wants it. Of
the four ports one is the launcher's, one is taken when it starts, one is preferred and free, one is what the system
gives away. That the two projects are not used in one behaviour loses nothing: their requests share no state.
The slaves of `EccSession_safety` are model values and interchangeable: each is its own id, and no action tells
them apart. The run has no liveness property, so the symmetry is sound.
`CHECK_DEADLOCK FALSE` is set because the bounds on connections, calls, runs,
incidents and events end every behaviour, and because the launcher ends. `RegisterAccess` has no such bound and is
checked for deadlock.

The theorems of section 4 have none of these bounds.

### Fairness

`EccSession`: weak fairness of each end of each connection (both programs run, and the master's
socket has a timeout), of the accept loop, of the restart of a dead slave, which stands for the
operator, and of the master's next connection, which stands for the page that keeps asking.
Nothing is assumed of incidents. `ReleaseSocket` is fair because the interpreter frees the
socket when the exception that holds the frame of `connect()` has been handled.

`EccData`: weak fairness of each thread in a call, of the collection of sockets, of the slave, which is one
thread (`SlaveStep`), of its restart, and of `stop_master` once it has begun. Nothing makes a call or `stop_master` begin.
Weak fairness of a thread that waits for the lock is enough, since calls are bounded; the code
uses `threading.Lock`, which promises no more.

`ProcessTree`: weak fairness of the launcher's main thread together with the start of the projects
(`LauncherStep`), and of the threads of the user interface that gets requests. Nothing is assumed of signals, of
requests, of slave processes, or of a process that was sent SIGTERM: it may be stopped or stuck, and
what ends it then is the `kill()` that follows the timeout of `wait()`, which nothing survives.

### What the violations show

* **Lost context** (`EccSession_lost_context`). The master sends the AKH (`session.py:186`) and saves
  its context after that (`session.py:187`). Killed in between, it leaves the slave with a context of
  which it has none. From then on the slave asks for re-authentication, the master raises "server did
  not provide certificate chain" (`session.py:149-150`), and no attempt completes until someone
  deletes the slave's file. The draft standard has the master answer with zeros, after which the slave
  starts the public key protocol. Deleting only the master's state directory has the same effect.
* **Password** (`PskSession_password`). The password is hashed with a fresh random into the private
  value (`modbus_security_psk.py:201`) and goes nowhere else. The ends exchange points, so they agree
  on the shared point, and S_M and S_H verify, whatever passwords they were started with.
* **ECC over UART** (`UartLink_ecc`). `send_secure_apdu` writes the frame without the length that
  `recv_packet` reads: it takes address and function code for a length of 256 and waits for bytes
  that never come.

### Seen in the code, and not in a run of its own

* **Two slaves at an address.** The master's file is overwritten by the second slave. When the first
  asks for its context, the master does send zeros (`session.py:147`), and then falls through to the
  certificate check of the request it has just answered, which carries none; nothing completes any
  more. `EccSession_live` therefore has one slave; with two it finds `QuietAttemptSucceeds` violated.
* **Duplicates.** `recv_encrypted_pdu` drops the counter of the frame (`session.py:107`), so a frame
  delivered twice is executed twice. `EccData_safety` checks `AtMostOnce` without this fault,
  `EccData_live` includes it. A duplicate also takes the slave's counter past the master's.
* **A signal inside the lock.** `stop_all` takes its list of processes under a lock that is not
  reentrant (`unified_server.py:101`). A second SIGTERM or SIGINT at that moment starts a `stop_all` that waits for the lock
  for ever. `EndsOrHangs` says that this is the only way the launcher fails to end.
* **A signal before the callbacks.** Between `start_all` and `atexit.register`
  (`unified_server.py:528-531`) a signal ends the launcher and leaves the projects running;
  `NothingLeftRunning` is about launchers that came as far as that line.
* **SIGTERM leaves slaves.** `stop_all` ends the ECC user interface with SIGTERM, for which it has no handler: its
  `finally` clause does not run and its slave process goes on and keeps its port. With Ctrl-C the slave
  gets the signal itself (`CtrlCReachesSlaves`).
* **A slave nobody knows.** A slave that is started while `stop_slave` waits for the last one is forgotten
  when the wait is over: it keeps the port, and no request can stop it. The same is true of one that a request
  starts after the `stop_slave` of the `finally` clause (`ui_server.py:664`) and before the interpreter is gone.
  `ForgottenOverlapped` and `OrderlyEndStopsSlaves` except the slaves of these two intervals; what they say is that
  nothing else leaves one behind, in particular not a start between Ctrl-C and that `stop_slave`.
* **A clause cut short.** If `stop_master` raises (`ui_server.py:663`), or a second Ctrl-C comes, the clause
  never gets to `stop_slave`. `OrderlyEndStopsSlaves` is about clauses that came to their end. `CtrlCReachesSlaves`
  is about all of them: the slaves have got SIGINT themselves, and only those started later remain.
* **A torn PKI file.** A slave that serves a connection while `init_demo_pki` writes, or after one that was stopped
  halfway, dies: `JSONDecodeError` and `ValueError` are not caught (`slave_server.py:48`, `82`). A torn context file
  has the same effect. `SlaveSurvives` names these two, and says that nothing else of the handshake ends a slave, an identity made of
  two generations included.
* **Two projects, one port.** `find_available_port` compares the requested port with those reserved,
  but not the one it takes from the system (`unified_server.py:118-127`), which may be one that is reserved for a project that has
  not bound it yet; the second to bind it ends.
  No property forbids it.
* **A read without an answer.** `do_POST` of `web_frontend.py` catches `OSError`, `ProtocolError` and
  `ValueError`; `EOFError` and `InvalidTag` of the master's half pass, and the browser gets no response. A read
  whose connection was never made leaves its listener's port in use, and every later read fails with "address in use".
* **--once.** The PSK slave always ends after one connection, the post-quantum slave never: the
  argument is read only in the socket code that is quoted out. Both models follow the code.
* **AKM.** The post-quantum master is done when it has sent AKH. Nothing it received depends on its
  KEM secrets, so the records of an attempt the slave has given up are enough for it to finish.
  `ReadsWhatItAsked` shows that registers it then reports do come from a slave that verified its AKH.

## 4. Proofs

### EccSession

`EccSession_proof` proves, for any set of slaves, any ids, any number of connections, incidents
and PKI generations, and any subset of the incidents:

* `TypeCorrect`: `Spec => []TypeOK`
* `AgreementInductive`: `Spec => []AgreementInvariant`
* `KeysAgree`: `Spec => []KeyAgreement`
* `ServedIsReady`: `Spec => []ServesOnlyTheReady`
* `TakeTurns`: `Spec => []TurnInvariant`
* `AcceptLoopSurvives`: `Spec => SlaveSurvives`
* `HandshakeKeepsPromise`: `Spec => PromiseKept`, the refinement of `SecureChannel`

and, for one slave (`OneSlave`) and incidents that neither tear nor delete the master's file (`MasterFileSafe`):

* `ContextsStayInStep`: `Spec => []ContextsInStep`

The only assumption on the constants in the first seven is `ConstantsAssumption` (the bounds are natural numbers, the
incidents are of the named kinds), which TLC evaluates in every run. The two hypotheses of the last are those of
`EccSession_live`; without either the property is false, as `EccSession_lost_context` and the two slaves at one
address of section 3 show.

**Why an invariant.** `KeyAgreement` speaks of the moment when both ends are ready. It is not
inductive: nothing in it says that the SAC_SYNC frame that makes an end ready comes from an end
with the same keys. `AgreementInvariant` adds, for each connection (`Agreed(n)`, `KeysHeld(n)`):

* what an end holds at each point of the handshake: its SAC key is derived from the
  DHSK and authentication key in its session, its counters are those of its program counter
  (`Keyed`, `ClientSide`, `ServerSide`);
* what is on its way: a `SAC_DATA_REQ` carries the slave's id and KP of this connection, a
  `SAC_DATA_CNF` the master's, under a key that is still the master's (`FramesToServer`, `SameSac`), and a
  `SAC_SYNC_CNF` is only on its way if the master is ready;
* where a content key is (`KeysHeld`): an end that has not updated its key, or is over, has none, and a
  `SAC_SYNC_REQ` is only on its way if the slave has its key or is gone;
* that a connection nobody opened is untouched, and that the functions and records have the
  fields the code gives them (`Shapes`).

The crux is `SameSac`: the master's end answers for the key of its SAC from the moment its
`SAC_DATA_CNF` is on its way. A slave that could check the MAC of that frame has the same SAC
key, and since keys are equal only if their inputs are, the same DHSK and authentication key,
whether they came from certificates or from files. The contents of the context files
need no invariant for this at all.

**Why the accept loop survives.** `server_handshake` looks up `CERTS`, `RH` and others in a `DATA_CNF` without testing for
them, and `main()` does not catch `KeyError`. Every `DATA_CNF` has the same tag, so what saves the slave is that it
never reads the answer to another question. `Conversation(n)` is why: while the slave's end is there, at most one frame is on
its way (`Lone`), and it is a question that fits the point the slave is at (`Asking`, `FitsRequest`) or the answer to it
(`Answering`, `IsReply`), with the master's end where it belongs (`MasterAsked`, `MasterReplied`). Noise takes frames
away or makes them unreadable; the master's exits leave at most one answer. In particular what comes under the SAC comes under
the slave's key, so that no MAC check raises. Each step of the slave then keeps the conversation and raises nothing, unless its own
context file is torn (`ServerHandshakeConverses`, `Unharmed`). The identities enter only through the outcome of
`verify_peer_chain`, whose failure is a `ProtocolError`, so the argument holds whatever `WritePki` and `RegeneratePki` do; outside
the handshake the slave can die in `AcceptRaises` alone. This is why `SlaveSurvives` can name the two loads of
a torn file as all there is (`SurvivesStep`).

**Why the contexts stay in step.** The master sends the AKH before it saves. `Holds(key)` says that the master's file holds
`key` or is about to; `SavedHeld` and `SavingHeld` say this of the key each slave has saved, and of the one it will save
when it has read the AKH under way. What makes them inductive is that nothing replaces the master's file meanwhile:
`InOrder` (the master uses one connection at a time, the slave serves them in turn, so that an end the master has left behind
cannot save after a newer one), `KnowsPeer` and `KnowsFile` (with one slave the ids always match, so re-authentication is
answered with the stored key), and `NoOther(n, key)`: a slave that has saved `key` asks for no certificates, and the answer to
its re-authentication carries `key`. A step is a step of the handshake of one connection, and every other connection stands by
(`StepOfConnection`, `Bystands`).

**Layout.** Lemmas about queues and session records; one summary per handshake step
(`ClientHandshakeMoves`, `ServerHandshakeMoves`: which variables move, and between which
program counters); preservation of the types; preservation of `Agreed`, of `KeysHeld`, of `Conversation` and of
`ContextInvariant` with one lemma per action or kind of action; the temporal theorems by PTL.

**The refinement.** An end is "opening" until its key update, "keyed" until the last synchronisation, then
"ready", and "over" when it has failed or closed. The last part of `EccSession_proof` first shows which changes of the mapped
state are steps of `SecureChannel` (the `Promised...` lemmas), then that every step of the programs is one of these or
changes nothing (the `...Kept` lemmas). A key is of its connection because it is derived from KP of
that connection (`KeyOfItsOwn`). The master serves only after a keyed slave by `KeysHeld`, the slave
installs the master's key by `SameSac`, and serves only after a ready master by `FramesToServer`.

### EccData

`EccData_proof` proves, for any set of threads, any requests, any number of calls, connections and faults,
any width of the counter and any number of registers:

* `DataTypeCorrect`: `Spec => []TypeOK`
* `OldRequestsExecuteFirst`: `Spec => []OldRequestsFirst`
* `NoncesNeverReused`: `Spec => []NonceNeverReused`

and, if the line does not duplicate frames (`"duplicate" \notin Faults`; with duplicates all four are false):

* `SlaveOutlasts`: `Spec => SlaveOutlastsCounter`
* `ExecutedAtMostOnce`: `Spec => []AtMostOnce`
* `AnswersMatch`: `Spec => AnswerMatches`
* `LinkKeepsService`: `Spec => ServiceKept`, the refinement of `RegisterService`: every step is one of the abstract
  service, or changes nothing of it.

The assumptions are `DataAssumption` and `SizeAssumption`, which TLC evaluates in every run.

**Invariants.** `DataShapes` is the type of every variable with what the lock excludes: at most one
thread is between `Acquire` and its return, and it is the one in `lock` (`Exclusive`), and there are never more connections than calls
(`Dials`). `OneServed`: only the connection the slave serves has requests queued, and all older ones are closed; this is
`OldRequestsFirst` for the frames still to come. `Numbered`: every frame of the master is behind its
counter, or is the one that has been encrypted and not yet counted; without the second case the
invariant is lost between `Encrypt` and `Write`. `Counted`: the slave's counter plus the requests on their way is at most
the master's.

The last three theorems need more, because answers carry no number. Why does a late answer not reach the next
call? A call that fails closes the connection; but `stop_master` clears `sock` and `session` in two steps while a thread
is at work, so that a failing call may find nothing to close. `Attributes` says what a call can find there, in particular
that `sock` and `session` do not name two connections except between the two assignments of `connect()`.
`Traffic`: a connection carries at most one frame, in one direction or the other, and one that a thread may still
write to (`Writable`) carries none. `Tracked`: a request that is not sent is not answered, and no two threads have the same call.
`Carried`: the request on a connection is the one its call asked, not yet executed, and the answer on a connection is the one
that was computed for the call of whoever waits there. `Calm` is the conjunction.

The refinement maps a thread that has a call to an open call, and a request still queued whose call is over to
a late call of `RegisterService` (`OpenCalls`, `LateCalls`). The lemmas `LateNow` and `LateThen` say what these sets
are in terms of the heads of the queues; then each action is a step of the service: `Serve` is
`TakeEffect` or `LateEffect`, a crash of the slave is `Reset`, the loss of a late frame is `Forget`, the rest
stutters, begins or ends a call.

### RegisterAccess

`RegisterAccess_proof` proves, for any number of registers a 16-bit address can name and any integers as addresses, quantities and values:

* `AccessInductive`: `Spec => []AccessInvariant`
* `ReadsReturnLastWrites`: `Spec => []ReadsReturnWrites`
* `OnlyMeaninglessFail`: `Spec => []FailsExactlyOutside`

The assumptions are `SizeAssumption` and `AccessAssumption`. The work is in the boundaries: that the exception bit is never set
in an echoed function code, that the slice of a range the slave has checked is not cut short, that masking a register to 16
bits leaves a word alone, and which of `pack`'s and `handle_pdu`'s checks an operation meets first.

### PskSession

`PskSession_proof` proves, for any number of runs and incidents, any passwords, addresses, ids and requests, under
`PskAssumption`:

* `PskInductive`: `Spec => [](Shapes /\ IInv)`
* `PskAgreement`: `Spec => []Agreement`
* `PskFreshKeys`: `Spec => []FreshKeys`
* `PskReadsWhatItAsked`: `Spec => []ReadsWhatItAsked`
* `PskCleanRunSucceeds`: `Spec => []CleanRunSucceeds`
* `PskOnce`: `Spec => []Once`
* `PskKeepsPromise`: `Spec => PromiseKept`, the refinement of `SecureChannel`

The receive buffers outlive the programs, so nothing can be said of when a record was sent. `RequestTrue` and `AnswerTrue` are what
holds of a record of any age: its points carry the number of a run that has drawn them, its confirmation was computed by
a master that verified, its ciphertext is under a key an old session had. What joins a record to *this* handshake is that the
values are new: from the moment the master's point is sent, the reply to it is the last record in its buffer (`OfferLast`);
after it has verified, no record but the right one can carry this confirmation (`ConfirmsThis`); and what is encrypted
under its content key is its own request and the answer to that (`AnswersThis`).

`CleanRunSucceeds` is about a run without trouble. `CleanRun` lists its phases: exactly one record is under way, which is
named, and both programs are where they must be (`Opening`, `Offering`, `Replying`, `Finishing`, `Confirming`, `Asking`, `Answering`).
In none of them does a program reject what it reads.

`SecureChannel` has one session per connection, and nothing so far says how often something happens: the records in the
buffers are true, but a record read twice would be as true the second time. `Once` says that a run of the master verifies at most once
(`VerifiedOnce`), that a run of the slave which is still in its handshake has no session (`EstablishedOnce`), and that a slave which serves does
so with a session it established (`ServesSession`). The step that needs it is `SlaveEstablishes`: the confirmation it
accepts was computed by a master run that verified (`FinalFrom`), and the slave's point is in both contexts; no older session has
it, because the older session belongs to an older run of the slave, so that the connection is still opening at the slave's end.
That the slave serves only after a ready master is `AskedFirst`: a request under this key was sent by a master that has read the
last message.

### PqSession

`PqSession_proof` proves, for any number of runs, attempts and incidents, any addresses, ids and requests, under `PqAssumption`:

* `PqInductive`: `Spec => [](Shapes /\ IInv)`
* `PqSlaveAgrees`: `Spec => []SlaveAgrees`
* `PqReadsWhatItAsked`: `Spec => []ReadsWhatItAsked`
* `PqCleanRunSucceeds`: `Spec => []CleanRunSucceeds`
* `PqOnce`: `Spec => []Once`
* `PqKeepsPromise`: `Spec => PromiseKept`, the refinement of `SecureChannel`

AKH covers the unicast secret and the two ids, and neither the broadcast secret nor the attempt. That a slave which accepts it agrees on the broadcast key
too is because the two ciphertexts of a run are made together for the pairs of one attempt (`TwinOf`): decapsulation succeeds for
both or fails for both, and if it fails the secret is one no master has. `Linked` carries this through the contexts, and through records of any age.
The master finishes without hearing from the slave. Its key names its run, so nothing older is encrypted under it, and
an answer under it comes from a slave that established that session (`Serves`), which only an AKH of this run does.

`Once` is here about runs of the master, which encapsulate at most once (`IssuedOnce`), and attempts of the slave, which establish at most one
session (`PendingOnce`, `EstablishedOnce`). A run's ciphertexts are made for the pairs of one attempt, so the run determines the attempt, and
with it the session (`FirstWithItsRun`). The master serves with the answer: that comes under a key which a session of the
slave holds (`SessionKey`), so the slave's end is past its opening.

In both, lemmas on what each step does to what `Once` depends on (`...Moves`) come first, then its preservation (`...Once`), then, as for
`EccSession`, the changes of the abstract state that are steps of `SecureChannel` (`Promised...`) and one lemma per
action that it makes one of these or none (`...Kept`).

Both proofs rest on `SerialLine_proof`: what taking, losing, damaging and appending records does to the buffers. They have one lemma
per action, and one more where a record is sent that the argument depends on.

### UartLink

`UartLink_proof` proves, for any number of messages with any tags and payloads, any address and any way the line
divides the stream, where the length goes first (`Prefixed`):

* `LinkInductive`: `Spec => []LinkInvariant`
* `PrefixedFramesArrive`: `Spec => []EveryFrameArrives`

The assumptions are `UartAssumption`, that the messages are tags and payloads of bytes for the address of the link, and `FramesFit`,
that no frame is longer than the two bytes of its length can say, without which `to_bytes(2, "big")` raises in the sender. That the frames
without a length do not arrive is what the run `UartLink_ecc` shows.

What the receiver has yet to return is spread over three places: the `part` it has read of the current field, the UART's `buffer`
and the `wire`; and the length of a frame is in none of them once it has been read. `Ahead` puts these together again, and
`Laid` says that `Ahead` is the records of the messages written and not yet received, one after the other, given by
the position at which each begins (`LaidAt`). `Write` adds a record at the end, `ReadFrame` takes the first away (`RecordTaken`), and `Arrive`,
`ReadMore` and `ReadLength` change only the division, for which `OnlyMoved` is enough. Because
`want` and `part` add up to the field that begins at `Ahead`, what is read is the frame `SecureFrame` built, and `ReceivedIsSent` shows that
`Received` takes it apart again: the same CRC of the same body, the function code, and the length in the APDU. Nothing is used of the
CRC but that it is a function.

### ProcessTree

`ProcessTree_proof` proves, for any number of projects, threads, slave processes, reads, events and nested calls:

* `TreeTypeCorrect`: `Spec => []TypeOK`
* `NothingIsLeft`: `Spec => []NothingLeftRunning`
* `OnlyOverlappedForgotten`: `Spec => []ForgottenOverlapped`
* `OrderlyEnd`: `Spec => []OrderlyEndStopsSlaves`
* `CtrlCReaches`: `Spec => []CtrlCReachesSlaves`
* `ServedIfOk`: `Spec => []OkMeansServed`
* `OnlyAcceptLeaks`: `Spec => []LeaksUnconnected`

`NothingLeftRunning` speaks of the end, which any of several activations of `stop_all` may bring about. `WaitsForAll` is what
makes it inductive: every activation that has its list has yet to wait for all processes that are alive, and no
process starts once there is one. `ForgottenOverlapped` needs `WaitsForTheLast`: while a
`stop_slave` waits, nothing runs but the process it waits for and those started meanwhile. `OrderlyEnd` is about
the time from the end of the clause to that of the process, in which requests are still served: what runs then is in
`overlapped`. `OkMeansServed` and
`LeaksUnconnected` need `ListenersClosed`. `CtrlCReachesSlaves` relates two components:
`InterruptedLeaves` says that a user interface that got Ctrl-C while it served is past `serve_forever`, so that what it
still starts is `late`.
Each component has an invariant and lemmas of its own; `TreeInvariant` is their conjunction with the last two.

### Only model-checked

* Liveness, which is out of the prover's reach: `QuietAttemptSucceeds`, `SlaveFreed`, `EveryCallReturns`, `StoppedLetsGo`,
  `EndsOrHangs`, `StopAnswered`, `EveryReadAnswered`.
* `SameGeneration` of `EccSession`: that of two ends which verified each other both have one generation. `EccSession_proof` only
  uses that the certificates do not matter for what it proves.
* `AcceptedWereSent` of `UartLink`. It says that a damaged record is found to be damaged, which no parser can promise for
  arbitrary messages: a CRC detects what it detects, and a payload may contain a record. It holds of the messages of the instance and
  the damage `MaxFaults` and `MaxBurst` allow, which is arithmetic on these bytes.

## 5. What is not modelled

* Bytes beyond those of `RtuFrame`: TLV items, JSON, certificates, ciphers, and the three-byte tags and BER
  lengths that the other two profiles have in their APDUs. Cryptography is ideal: terms are equal or not.
* Broadcast traffic: the broadcast key is derived and compared, no code uses it.
* `MasterClient.status()`, the logs and the status pages, which read what the models contain and change nothing, and the
  validation of parameters in the web servers.
* The web front end of the post-quantum profile: it shows commands and message sequences and keeps no state.
* The quoted-out socket code of the PSK and post-quantum servers.
* The handshake of the embedded slave when both its ends read one UART: with the simulated sockets they have a connection, which
  is what `EmbeddedSlave` takes it to be.
* The elliptic curves, hashes, ciphers and KEM: arithmetic on 256-bit numbers and library calls.

## 6. Plan

Done: all but 8.

1. `EccSession`, `SecureChannel`: the handshake, its hazards and its refinement.
2. `EccSession_proof`: agreement of keys for all instances.
3. `EccData`, `RegisterService`: the exchange under concurrency and faults, with bounded counters.
4. `RegisterBank`, `RegisterAccess`: the registers at their boundaries.
5. `RtuFrame`, `UartLink`: frames and the stream of bytes.
6. `SerialLine`, `PskSession`, `PqSession`: the other two profiles.
7. `Launcher`, `SlaveControl`, `EmbeddedSlave`, `ProcessTree`: processes and signals.
8. The TLV items of `tlv.py` and the BER lengths, against reference definitions over bounded inputs.
9. Proofs about `EccSession`: agreement, that its accept loop survives and its contexts stay in step;
   `EccData` and its refinement of `RegisterService`; `RegisterAccess`; `PskSession`; `PqSession`; `UartLink`; `ProcessTree`.
10. The refinement of `SecureChannel`, as the common abstract specification of the three handshakes, by `EccSession`, `PskSession` and
   `PqSession`.
