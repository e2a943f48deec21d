# bubbler: TLA+ models, checks and proofs

bubbler runs an application in a bubblewrap sandbox. This directory holds a formal model of
it: of the parts that run concurrently, fail half way or end in a particular order, and of
the algorithms that turn a configuration into a sandbox. The TLA+ modules are translated from
`src/crates`; TLC configurations check them on small instances, and the TLA+ proof system
(TLAPS) checks proofs about the core of them for every value of the constants.

`PROJECT.json` is the machine-readable index: components, runs, the mutants each property
must catch, the map from every definition to the source lines it models, the findings, the
hazards and the theorems.

## 1. Inventory of the system

### Processes and crates

| Component | Source | State it keeps | Operations that change it |
|---|---|---|---|
| Supervisor (`bubbler-init`) | `bubbler-init/src/main.rs` | the command, exec'd children with their client's connection, half-read requests with a deadline, the stop flag, the kill deadline, the nested X server and window manager | reap, serve, read a request, accept, begin a stop, wake the display, stop and wait for everything |
| Launcher | `bubbler-core/src/launcher.rs` | handles and guards as local variables: control socket, six sidecars, their directories, raw terminal, cgroup, bwrap, the pipe that holds the sandbox | start, wait until ready, adopt, connect, install rules, release, abort, wait, drop |
| Control socket | `bubbler-core/src/exec.rs`, `launcher.rs`, `bubbler/src/main.rs` | one path per instance: liveness test, claim and rendezvous | connect, unlink a refused socket, bind, listen, remove |
| Terminal relay | `bubbler-core/src/tty.rs` | output held for the host, keys held for the pty, the detach run, window size | relay, drain, hand over, detach, resize; `pump` for a sandbox without a terminal |
| Exec session | `bubbler-core/src/exec.rs`, `bubbler-init/src/wire.rs`, `proto.rs` | a connection with a request and a status in flight | send the request with descriptors, wait for the status, be signalled, detach |
| Wayland proxy | `bubbler-wl-proxy` | object table per client, buffered messages and descriptors in both directions | relay, filter, create and destroy objects |
| Egress proxy | `bubbler-net-proxy` | connections up to a limit, a resolver's answers, two half-tunnels each | accept, parse CONNECT, check the name, resolve, connect, relay |
| Audio holder | `bubbler-init/src/pw_hold.rs` | a PipeWire connection held open | hold, report, end |
| Instance store | `bubbler-core/src/instance.rs`, `fsutil.rs` | a directory per instance, config, backup and version mark; try directories | create, save, reseed, mark, try, keep, sweep, delete |
| Profiles, config | `profile.rs`, `catalogue.rs`, `config.rs`, `service.rs`, `kdl_out.rs` | none (pure) | resolve includes, merge, parse, print |
| Desktop entries, shims | `desktop.rs`, `wrap.rs` | files bubbler owns among files it does not | install, remove, roll back |
| Run log | `run_log.rs` | a capped file written by a thread | copy, cap, end |
| Cgroup | `cgroup.rs` | the scope a run's processes live in | find, move, release |
| Assembly | `bwrap.rs`, `seccomp.rs`, `wayland.rs`, `pipewire.rs`, `network.rs`, `dbus*.rs`, `forward.rs` | none | build arguments, filters, policies |
| Command line, reports, UI | `bubbler`, `bubbler-ui`, `lint.rs`, `explain.rs` | screen state of the UI | list, edit, run, explain |

### How they interact

* A `bubbler run` or `bubbler exec` first **connects** to the instance's control socket. If
  somebody accepts, the command is sent there; if not, a run **binds** the path, starts its
  sidecars, spawns bwrap around the supervisor and hands it the listening socket.
* The launcher holds a sandbox with an isolated network at bwrap's `--block-fd` until pasta,
  the ruleset and the egress proxy are in place, then closes the **pipe**.
* Afterwards it waits for bwrap, relaying the terminal, and forwards a caught **signal** to
  the supervisor; the supervisor sends SIGTERM to its children and SIGKILL a grace later.
* Everything the launcher made is undone by **destructors**, in reverse order of declaration.

### What is hard

Signals that arrive between two looks at a flag; several deadlines in one loop; a stop
racing an exec request, a display client or the release of a held sandbox; one of six
sidecars failing after others were started; the order of destructors as the only statement
of a teardown protocol; a path used as lock, name and liveness test; a terminal that stops
taking output while the status arrives; processes that ignore SIGTERM or are SIGKILLed.
`PROJECT.json` lists these under `hazards`, each at its line, with the properties that would
catch it, or with a note where none does yet.

### What makes each component correct

* *Supervisor*: no SIGKILL without SIGTERM and a whole, single grace; one disposal per
  client, a status exactly when its child was reaped; the display outlives its clients;
  nothing starts once the run was asked to end; nothing is left; the end comes.
* *Launcher*: rules before route; release only with every grant in place and no stop
  seen at the last look; sidecars outlive the sandbox; clients before servers on the way out; nothing
  left; no signal to a reaped pid.
* *Control socket*: the run that bound the path is the one reached there; only a killed run
  leaves it behind; nobody hangs on it.
* *Terminal relay*: no output lost unannounced, bounded memory, keys once and in order, the
  last window size, an end that does not depend on the host.
* *Egress proxy*: a tunnel only to an address of a granted name and port, data before its
  end, slots that come back, an accept loop nobody can hold up.
  Each of its tunnels is a stream.
* *Wayland proxy*: what reaches the compositor is what it showed and the gates let through; an
  honest client is cut off for no bookkeeping but the cap; queues stay bounded,
  descriptors ride with their message, and the loop comes to rest when there is nothing to do.
* *What bubblers share on disk*: a config is whole after any crash and what it replaced is
  beside it; no registry line and no other instance's directory is lost; the run's pipe is
  drained whatever happens to the log, as long as somebody reads the stderr it is copied to.
* *Configuration*: what is written reads back; a toggle changes its own line; a layer never
  takes a filter off by saying nothing.
* *Assembly*: nothing reserved or masked is shown, every share is there in its mode, the linter
  knows beforehand, path arguments lead to the same files; packets, system calls, descriptors
  and launcher entries are as the configuration says.
* *Formats*: whatever one process writes, the other reads as meant, in one piece or in many.
* *Text interface*: nothing but the user takes the user's input away.

## 2. Modules

An MC module puts parts side by side that share a run: a variable says which part a behaviour
is of, and no part reads a variable of another. Such a run explores each part completely and
none of their products.

| Module | Models | State and steps |
|---|---|---|
| `Supervisor` | `bubbler-init` `main.rs` | the loop, statement group by statement group |
| `ControlSocket` | `exec.rs`, `launcher.rs`, `main.rs` | every system call on the path, by any number of runs and probes, killed anywhere |
| `Launcher` | `start_and_wait()` and the wait loops | sidecars, pipe, sandbox, destructors |
| `TtyRelay` | `relay()`, `drain()`, `Out`, `Escape`; raw mode, non-blocking descriptors, what the sandbox gets for fds 0, 1, 2 (its part *Stdio*) | one pass of the loop in its statements; three descriptors over shared descriptions, killed anywhere |
| `NetProxy` | `bubbler-net-proxy` threads, resolver, tunnels | one connection per thread, one accepting thread |
| `Stream` | (abstract) a one-way stream | give, take, close, end |
| `Connect`, `Dns` | request, allowlist; question and answer | pure functions over tokens and bytes |
| `Marshal`, `WlWire`, `ExecWire` | the formats of D-Bus, Wayland and the control socket | pure functions; `ExecWire` also the reading in pieces |
| `ChildArgs` | argument lists bubbler writes and its children read; the UI's typed line | pure functions |
| `WlPolicy` | `policy.rs`, `objects.rs` | object table, gates and registry, messages in flight both ways |
| `WlRelay` | `relay.rs` | poll loop, queues, descriptors, admission, ends |
| `DbusSession` | `dbus_wire.rs` client | a call at a time, a service that leaves, a stranger that answers |
| `Forward` | `forward.rs` | opening and exporting the candidates among the arguments |
| `InstanceStore` | `instance.rs`, `fsutil.rs` | every command as a process, a system call a step, killed anywhere |
| `Shims` | `wrap.rs` | lock, registry and links, a system call a step |
| `RunLog` | `run_log.rs` | pipes and copying threads of any number of bubblers on one log, cap, caller's stderr |
| `Grammar`, `ConfigDoc` | `config.rs`, `kdl_out.rs`; the UI's `detail.rs` | a node's parser; a whole file read and written, and its rows and toggles in the editor |
| `App` | the UI's `app.rs`, `main.rs` | screens, dialogs, children, reloads |
| `Profile` | `profile.rs` | layers found and read one at a time while one is edited; the merge |
| `Sandbox`, `Lint` | `service.rs`, `bwrap.rs`, `dbus.rs`, the plan of `forward.rs`; `lint.rs` | the host as a tree with links; from grants to a mount tree; which arguments are left, renamed or forwarded; findings |
| `Egress`, `Seccomp` | `network.rs`; `seccomp.rs` | ruleset against packets; program against calls |
| `Cgroups`, `SidecarDirs`, `SpawnFds`, `Desktop` | `cgroup.rs`; `launcher.rs`; `fds.rs`; `desktop.rs` | the leaves of runs; the directory made afresh; a descriptor table; entries under several commands |
| `MC*`, and the last section of `TtyRelay`, `Forward`, `WlRelay` and `RunLog` | | instances and composition for TLC |
| `*Proofs` | | theorems about `Supervisor`; `Launcher`, `Cgroups` and `SpawnFds` (`LauncherProofs`); `NetProxy`; `TtyRelay` (`TtyProofs`); `Forward`; `WlPolicy` and `WlRelay` (`WlProofs`); `Profile` and `App` (`ConfigProofs`); `ControlSocket`, `InstanceStore`, `Shims` and `RunLog` (`StoreProofs`) |

The `map` of `PROJECT.json` names the operations and the tables of each module; a small helper
used inside one operation stands within the lines of that operation.

The parts meet at these assumptions of one about another. `Launcher` takes the sandbox as a
process that ends after SIGTERM, which is what `RunEnds` of `Supervisor` shows;
`ControlSocket` takes `start_and_wait()` as bind, start, wait, stop sidecars, unguard, in
the order `Launcher` has them; `TtyRelay` takes the status as something that may arrive at
any time, which in a run is `CheckExit` of `Launcher` and in an exec the answer of
`Supervisor`; `NetProxy`, `WlRelay` and `DbusSession`'s bus are insides of `Launcher`'s
sidecars and peers; `WlRelay` takes any verdict for a message, `WlPolicy` says which;
`NetProxy` takes a request as whole, part or bad and an answer as its records, `Connect` and
`Dns` say what the bytes come to; `Forward` takes a plan as any list of entries, `Sandbox`
says which list an argument list comes to.

### Supervisor

`pc` names the group of statements of the loop about to run: `wait` (the command),
`x11`, `reap`, `poll`, `stop`, `wake`, `read`, `accept`, and after the loop `shutdown`,
`grace`, `killwait`, then the same three for the window manager and for the server. Between
any two of them a child may exit, a client connect, write a piece of a request or hang up,
a signal set the flag and the clock tick. A deadline is the number of ticks left, so that
the set of states stays finite without a clock. Children are the command, the X server, the
window manager and one exec'd child per connection, named by it. Requests are `none`,
`part`, `good`, `noexec` (well formed, but its program cannot be run) or `bad`. What
`poll()` returned is kept in `polled` until it has been served, because the code acts on it
after the world has moved on.

Left out: the arms for a failing `try_wait` (an unreaped child of the process itself gives
no error), argument parsing and descriptor sweep (one step with two outcomes).

### ControlSocket

Each process walks through the calls of `main.rs` and `start_and_wait()`: probe, unlink if
refused, probe again, bind, **then** listen (two system calls in `UnixListener::bind`),
start, wait, stop sidecars, unguard. SIGKILL is an action available at every point; the
sandbox dies with its launcher. `foreign` is a history variable: somebody has removed the
path of a socket that was still open.

### Launcher

`grants` is the set of services of the instance and never changes. `at` counts through
`Starts` (the sidecars in start order) on the way in and through `DropSteps` (what is
dropped, in order) on the way out; `DropSteps` begins with `abort_sandbox()` and then has
the locals of `start_and_wait()` from the last declared to the first. Each sidecar is
`none`, `up`, `zombie` or `gone`, and may die at any moment. The sandbox is `none`, `held`,
`running` under bwrap, `orphan` (bwrap died under it and `--die-with-parent` is on its
way), `stray` (let go without bwrap) or `dead`. `block` says whether the
pipe at `--block-fd` is still open. A readiness timeout is a step that may be taken at any
time. The last look for a stop (`LastCheck`) and `release_block()` (`Release`) are two steps;
`early` is a history variable, true once a stop has come before that look. The probe of the
compositor and the creation of the security context (`Probed`, `ContextCreated`) and the
write of the ruleset to nft (`FeedRules`) are steps of their own, because the code waits for
them without a deadline.

Left out: argument lists, descriptor allocation, ruleset text, removal of a directory tree
entry by entry, reuse of pids.

### TtyRelay

One pass of the loop is `until`, `winch` (with `getsize` and `setsize`, since a resize can
fall between the two ioctls), `out`, `type`, `stdin`, `feed`, `pty`; after the status
`drain` and `finish`. Output is counted in units; keys are `x` or the escape. What the pty
was polled for is recorded, because a hang-up is reported whether or not it was asked for
and then the pty is read although the buffer is full. Any other readiness is looked at when
it is served rather than in one `poll()`: what could be served later could also have become
ready later. The host takes any number of units at each offer, or fails and is replaced by
the sink.

`RelayAssumption` has what the code's constants have: `PENDING_MAX` is a whole number of
chunks and the kernel's pty buffer is no larger than it (`tty.rs` reads the rest of the pty
at the end on the strength of that).

The second half of the module, *Stdio*, is what surrounds the relay: raw mode, and the reopening
of the host's descriptors as non-blocking ones.

Left out: `pump()`, a resize between `allocate()` and the registration of SIGWINCH, and a sandbox
that opens its terminal again after the last close. A sink that fails is taken to have accepted
what was offered, as `Out::failed` does.

### NetProxy

A connection is `queued` until the one accepting thread takes it, then `turned` (the 503
is being written by that thread) or served by a thread of its own: `request`, `judge`,
`ask`, `dial`, `open`, `relay` or `refuse`, `drop`. A request is what has arrived of it:
`none`, `part`, `bad` or `whole`. A DNS answer says whether it is ours (id and question),
its code, whether it was cut short, and its records; `Chain` follows CNAMEs in it, as one
recursive function of the hops left. `Vouched` says the same without the walk: there is a
linked list of records from the name asked for to the address. A
direction of the tunnel has what is in the source's socket, what the relay holds and what
the sink took. Every deadline is a step that may be taken at any moment of its phase. A
pass of the relay is taken apart into its reads, writes and closes: each concerns one
direction, and nothing else changes what it was polled for.

Left out: the log and its rate limit (the bytes of CONNECT requests and of DNS messages are
`Connect` and `Dns`), the 200 as distinct from the write behind it, failures to set a socket
option (they end the thread as `Open`'s failure does).

### Other modules

* **WlPolicy.** Each side has a FIFO socket to the proxy, so an event the compositor sent for
  an object can arrive after the client destroyed it. The proxy's table is compared with the
  object tables of both ends. The protocol tables are generated; `Table` is a constant, of which
  is assumed that versions are positive and that it has the two interfaces the code names
  (`TableAssumption`); ids are split by who allocates them (`IdsAssumption`), and a global's name
  is no reason for which a connection is ended (`NamesAssumption`). An honest client binds what
  it has been told, at any version up to the one in the event it read (`client.seen`), so a proxy
  that offers more than its tables have shows; a client that is not honest binds any version up
  to `MaxVersion`. `closed` has the name of the global for whose bind the connection was ended.
  `quiet` is a history variable, the ticks since input went past, against which the gate's own
  `age` is compared.
* **WlRelay.** A message has a size and one descriptor with its own number, so a descriptor
  that rides with another message shows; what is on its way to the proxy remembers where in its
  peer's stream it began (`from`, history, read by no step of the code). Peers read as much as they
  like, half-close, vanish or say nonsense. `RelayAssumption`: the queue's limit and a `recvmsg`
  are not nothing.
* **DbusSession, Forward.** A message is the header fields `call_by()` reads. The stranger
  sends any answer at any time; the service may leave and come back under another name. The
  file system may change between plan and open. `PlansAssumption`: a plan begins with the
  program, which is never forwarded, and a file is a regular one or is not.
* **InstanceStore, Shims.** One system call per step; a pid is used again once its process has
  ended. A text is a number, torn while it is written in place.
* **RunLog.** Bytes are counted. The size is asked for in one call (`AskSize`) and the write is
  another (`AppendCapped`), so two writers can both fit under the cap and exceed it together
  (divergence 14): `LogCapped` allows each further writer what one turn of its loop can append after
  it asked. `Shows` is the write to the caller's stderr, which waits for a reader; at the end
  of the run the process may leave with the thread still waiting (`Abandons`).
* **Grammar, ConfigDoc.** KDL is taken as nodes with typed values; a check on the
  characters of a string is membership in a set of tokens. Everything between nodes and grants
  is modelled, and the way back.
* **Profile.** Each lookup reads the files again; `profile edit` may fall between two.
  `ProfileAssumption`: the depth is a number and an `include` names a string, which is what
  `parse_include()` accepts.
* **Sandbox, Lint.** A path is a sequence of components, links are
  resolved as the code does it (`canonicalize`), and `bwrap` is what its options do to a tree,
  in order; it fails on a source that is not there, and on a mount point that is not there and
  lies in a tree mounted read-only (`Fails`, `Unmade`). A device may be unplugged and a link
  planted between building and starting.
* **Marshal.** Values, and whole messages: header and body are encoded, framed from their first
  16 bytes and decoded. The instance has limits a call of one or two arguments can exceed.
* **Shims.** `unwrap` looks whether a link is bubbler's and removes it in two system calls: a
  file the user puts there in between is removed, which no property of the project excludes.
* **Egress, Seccomp.** What the ruleset says is compared with what the configuration says, per
  packet of a small address space with both families; likewise a filter, per call and ABI.
* **Cgroups, SpawnFds.** Directories and cgroups are told apart, since a name is used again and
  a cgroup's id is not (`CgroupAssumption`: every run has an instance's name and a pid). A
  descriptor is a number in one table, inherited or not, and a number is used again after a
  close (`SpawnAssumption`: there are numbers for what the caller left open and
  for the control socket).
* **App.** A handler is a function from the interface and the files to the interface, the files
  and the command it asks for; other processes change the files at any time.

## 3. Runs

| Run | Instance | Properties |
|---|---|---|
| `sup_exec` | `Supervisor`: two clients, table of one, grace 2, timeout 1 | `TermFirst`: nobody is SIGKILLed without a SIGTERM and the one, whole grace. `NobodyForgotten`: a status exactly when the child was reaped; nothing unreaped at the end |
| `sup_x11` | one client, display and window manager, fairness | `ServerOutlivesClients`; `NothingStartsLate`: no child after a stop was seen; `RunEnds`: a stop, a lost display and every connection come to their end |
| `store` | three runs and a probe at a socket; two pids on a store; two shells on the shims; two bubblers, one with a tee, on a log of 3 | `ClaimIsThePath`, `GuardCleans`, `ProbesEnd` of the socket; `StoreKept`: no text or directory is lost to a crash or another command; `ShimsKept`: registry and links agree; `LogKept`: the cap for two writers, and nobody blocked for it |
| `launch` | six sets of grants; rules, calls, cgroups, directories, descriptors, entries | `StartGated`: rules before route, release with every grant ready, and never after a stop that came before the last look; `TornDown`; `StopEnds`: a stop ends the run, unless it waits for good for a compositor or for nft, with the application not begun; of what a start prepares `FiltersAsWritten`: packets and calls as the config says; `GateIsProxys`: what the ruleset lets out is this run's proxy; `EachItsOwn`: descriptors reach the process they were made for; `LeftoversShrink`; `Contained`: a launcher entry starts bubbler and nothing else |
| `net` | two connections, one slot, eight kinds of answer, two units each way; short inputs of five formats | `TunnelTrue`: only to a granted address, nothing lost, slots counted; `ServedInTime`; `TunnelsAreStreams`; `Understood`, `AllowedAsWritten`: both ends of every format mean the same, in one piece or in many |
| `tty` | chunk, limit and pty of 2, five units, two keys, detach run of two; every sharing of three descriptors | `OutputKept`: accounted for, bounded, room for the drain, keys in order; `GivenBack`: flags and modes as they were; `RelayEnds` |
| `wl` | two client ids, one server id, the paste gate, versions up to 2; one connection with queue limits of one | `PolicyKept`: an honest client is ended only by the cap or for a global withdrawn under its bind, nothing hidden is bound, the dead ids are counted, a clipboard read passes exactly when its gate is open or input is recent; `RelayKept`, `RelayRests` |
| `bus` | two argument lists, one swap of owner, one message waiting | `ForwardedOwn`: a rewritten path is the caller's own file; `ForwardEnds` |
| `conf` | lines of every kind of node; two profiles, one edit; two files under the UI | `RoundTrip`, `ToggleInPlace`, `ProfileLayers`, `InputKept` |
| `plan` | up to three grants on hosts with and without links | `KeptOut`, `Delivered`, `LintForetells`, `ArgumentsReach` |
| `ui_stuck` | as `conf` | finding 1, violated |
| `doc_link` | as `plan` | finding 2, violated |

Every property has a mutant in `PROJECT.json`: one definition changed the way a plausible slip
in the code would change it, under which TLC finds the property violated in the same run.

### The refinement

`NetProxy` with the mapping `EndToEnd` (`PerStream`) implements `Stream` (`TunnelsAreStreams`):
client socket, relay buffer, two threads' worth of polling, half-closes and idle deadlines
between them, each direction of each tunnel is a stream whose units arrive at most once and in
order, and whose end is seen only behind the last of them.

### Bounds, and why they are enough

* *Supervisor.* Two connections with room for one are the smallest instance in which one
  client evicts another and one child is running while the next request is read. `Grace` 2
  distinguishes a deadline that is set again from one that is not; 1 is enough where only
  the end matters.
* *ControlSocket.* Three runs: one that leaves, one that replaces it and one that races the
  second. A probe is the fourth party.
* *Launcher.* The six sets of grants hold none, all, and the four combinations that share
  guards; the theorems are for every set.
* *TtyRelay.* With a chunk of two units the held output can overshoot its limit and can be
  read in part. Five units fill the buffer past the limit with a full pty behind it. Two
  resizes are needed to lose one; two keys to lose one to a pty that takes no more; and a
  detach run of two to hold back one escape. The code's assumption that a pty buffers less
  than `PENDING_MAX` is `PtyMax <= PendingMax`.
* *NetProxy.* One slot and two connections reach the limit and turn one away; threads share
  nothing but the count. A chunk of two units can be written in part, and two units leave one
  in the socket behind a buffered one. What a client sends before it is accepted is modelled as
  sent after.
* *WlPolicy, WlRelay.* Two client ids let one be destroyed and used again while an event for
  the first is in flight. A queue limit of one message and a cap of one descriptor are reached
  at once. With one connection the total limit and the choice of the fattest queue are not
  reached; connections share nothing else but the admission count. Versions up to 2 are the
  least that tell an offer clamped to the tables from one that is not.
* *RunLog.* Two writers, because the cap is about a second one; one of them copies to a stderr.
* *InstanceStore, Shims.* Two processes, since every hazard is a pair; three starts so that a
  pid is used again; five texts so that a save, a reseed and an edit can each replace another.
* *Forward.* Three files of both permissions against `MaxCallFds` 2, and two behind an argument
  that needs no portal.
* *Grammar, Profile.* Every kind of node with every kind of argument it distinguishes; files of
  up to three lines; a profile that includes itself one layer down, and a cycle.
* *Sandbox.* Up to three grants: two that meet and one between them. Hosts in which each of the
  directories the code resolves is plain or behind a link.
* *Pure functions.* All inputs up to the length at which every branch has been taken, and for
  byte formats all single-byte changes of what the writer writes.
* Names that begin with `Max` are bounds of the model where they have no counterpart in the
  code (`MaxOut`, `MaxUnits`, `MaxTexts`, `MaxEdits`, ...), scaled constants of the code where
  they have (`MaxTunnels`, `MaxPending`, `MaxQueue`, `MaxLog`, ...).

Deadlock is checked where the system may not stop before its end (`sup_exec`, `sup_x11`, `tty`,
`bus`); elsewhere the environment may simply have nothing more to do.

### Fairness, and why the code justifies it

* The single thread of each program is scheduled (`WF` on its step as a whole).
* The clock ticks: `poll` and `waitpid` loops have timeouts.
* A process sent **SIGKILL** exits. Nothing is assumed of one that was only sent SIGTERM,
  except in `Launcher`, where the supervisor ends after SIGTERM: that is `RunEnds` of
  `Supervisor`. bwrap ends after its sandbox.
* In `TtyRelay` deadlines pass; the host is never assumed to take a unit, and a hand-over
  is fair only where it no longer depends on the host (`FinishAlone`).
* In `ControlSocket` a command that reached a live run ends because that run ends or is
  killed: `RunStep` is fair, i.e. sandboxes end at some time.
* In `NetProxy` threads are scheduled and deadlines pass; no read or write of a client, a
  resolver or an upstream is fair. A tunnel that never falls silent keeps its slot, by
  design: there the bound on units stands for an application that stops at some time.
* In `Launcher` nothing is assumed of the compositor's answers or of an nft that is to read its
  ruleset: those three waits have no deadline (`wayland.rs:331`, `launcher.rs:2260`). Readiness
  waits, nft's own end and the looks for the supervisor have one.
* In `RunLog` the copying thread is scheduled, except where it waits for the caller's stderr to
  be read (`run_log.rs:240`).
* In `WlRelay` the loop thread is scheduled and the compositor keeps reading; nothing is
  assumed of a client.
* In `DbusSession` and `Forward` the only wait is a `poll` with a deadline, and time passes;
  nothing is assumed of the bus, the service or the stranger.

### Findings

Two runs show the code doing something other than a comment of it says. Each is a run that
must be violated.

1. `ui_stuck` (`app.rs:354`, against the comment at `app.rs:81`): a reload behind a viewer
   drops the detail of a file it cannot open and pops the viewer in its place. The detail
   screen is left with nothing to show and answers no key, Esc included.
2. `doc_link` (`forward.rs:492`, against the comment at `forward.rs:101`): an argument that is
   a link into a tree bound at its own path is left as given, and the sandbox does not have
   the link.

Further disagreements met while modelling, described here and excepted by the properties
where they touch one (of the last three TLC has shown that, without its exception, the property
is violated):

1. A burst of connections beyond `MAX_PENDING`, accepted in one iteration, drops the oldest
   before anything was read from it, though its request has arrived in full; the comment
   speaks of stalled clients (`bubbler-init/src/main.rs:798`).
2. Between another run's `bind(2)` and `listen(2)` its socket refuses connections like a dead
   run's, and `connect()` unlinks it (`exec.rs:52`, against `:45`). `ClaimIsThePath` excepts
   exactly this (`foreign`).
3. Without the pid of the sandbox `abort_sandbox()` kills bwrap only; the held process goes on
   when the pipe closes (`launcher.rs:1956`). `StartGated` and `TornDown` except it (`stray`);
   `TornDown` also excepts an error returned between the spawn and the wait (`null_stdio()?`,
   the relay's errors), which drops the sidecars under a running sandbox until bubbler exits.
4. `sweep()` takes an empty leaf away from a run that has made it and not yet entered it, of
   its own instance or of one whose name begins with this one's and a dash (`cgroup.rs:303`; the
   comment there takes a directory in use to refuse).
5. Removing or turning off `dbus` (or `portals`) in the editor keeps a `portals` (or `camera`)
   that needs it, and the file it would write is one the parser refuses (`detail.rs:475`,
   against `:4`).
6. A pointer of a DNS name points strictly backwards, but labels move forward again, so a loop
   is bounded by `MAX_NAME` and `MAX_JUMPS` rather than impossible (`dns.rs:506`, against `:475`).
7. An `optional` share that is reserved and absent is reported as refused by the linter and
   skipped by the launcher (`lint.rs:154`). `LintForetells` excepts it, and the share whose
   link leads out of the home, which the linter does not look for.
8. `pipewire` and `pipewire { microphone }` are both accepted in one file (`config.rs:1839`,
   against `:733`).
9. A `profile edit` in the middle of a resolve can be reported as a cycle that neither version
    has: every lookup reads the files again.
10. Turning a `/-` line of a one-per-file node back on over a held one changes more than its
    own line; `ToggleInPlace` excepts it.
11. `deny "personality" errno="ENOSYS"` answers `EPERM`: both rules judge the call, and
    `SyscallsAsked` allows either.
12. The egress proxy's count of swallowed log lines goes out with the next line, not when the
    window rolls (`bubbler-net-proxy/src/main.rs:538`).
13. Ctrl-R's own message replaces "unsaved edits kept" in the text interface.
14. Two bubblers that ask for the log's size before either writes both take the room that is
    left, and the log is over its cap (`run_log.rs:321`, against `:7`). `LogCapped` says by how
    much at most.
15. The Wayland proxy forgets a withdrawn global at once, so a bind the client sent before it
    heard of it is refused with the whole connection, although the name was advertised to it
    (`policy.rs:336`, against `:110`). `HonestServed` excepts exactly a withdrawn global.
16. With `etc "host"` there is no tmpfs on `/etc` but the host's tree, read-only; where the host
    has no `/etc/resolv.conf`, or a dangling link, bwrap cannot make the mount point and the
    sandbox does not start (`service.rs:236`, against `:217`). `Delivered` excepts exactly that
    bind.

## 4. Proofs

All proofs are for arbitrary constants satisfying the module's `ASSUME`, which every run
evaluates. Each follows the same argument: an inductive invariant, preserved by every action,
that implies the property.

* **SupervisorProofs.** `Safe` has three parts. *Bookkeeping*: which records of a connection
  exist in which state of its child, needed because an answer alone does not survive a step
  that reaps. *SignalOrder*: in the loop everything that is up has been sent SIGTERM once a
  stop was asked for, and the remaining deadline plus the age of the stop is the grace.
  *EndOrder*: who is gone at each point after the loop. From it `TypeCorrect`,
  `TermFirstHolds`, `NobodyForgottenHolds` and `ServerOutlivesClientsHolds`. The action
  property `NothingStartsLateHolds` needs one part more, *Heard*: between `poll()` and the
  next pass, a stop that `poll()` saw is still pending or has been taken. For any number of
  connections, any table size and any grace.
* **LauncherProofs.** `LauncherInv` has five parts. *Position* (where `at` may be, that an
  outcome is decided exactly when the unwinding begins), *Progress* (what is started and ready
  at each point of the start), *Containment* (what bwrap, the sandbox and the pipe can be at
  each point; the reason a held sandbox cannot run is spread over all three), *Undoing*
  (every finished step of the unwinding has left nothing) and *Pending* (a stop that came before
  the last look for one is still pending or has decided the run, so a sandbox that is let go saw
  none). `StartGatedHolds` and `TornDownHolds` follow for any set of grants; a stop between the
  last look and the release is outside the first, and is what `StopEnds` is about.
  Two parts of a start are proved beside it. *Cgroups*: `CgroupInv` says that an id is given
  once (`IdsOnce`), that runs which are live together have different directories
  (`LiveApart`), that a bubbler and its sandbox are in a sandbox's leaf and in no cgroup a run
  opened for its proxy (`InSandboxLeaf`), that what a run opened is its own proxy's
  (`OpenedOwn`) and what exists at each point of a run (`PhaseFacts`). The
  argument turns on the cgroup held open: another run's sweep may take the directory away, but
  only this run could make it again, and does not. `GateIsProxysHolds` follows for any
  runs, names and pids, killed anywhere.
  *SpawnFds*: `SpawnInv` ties the table to the allocators both ways (`AllocsOpen`,
  `OpenAlloced`), says what is allocated for the spawns to come and for the one at hand
  (`AllocsLater`, `SocketKept`, `AllocsNow`), that in the window between clearing the flag and
  setting it again nothing but this spawn's numbers can be inherited (`WindowShut`), and what
  the children have (`HeldOwn`, `SoleGiven`). `EachItsOwnHolds` follows for any numbers and any
  strays of the caller, with every step that may fail failing.
* **StoreProofs.** Four parts that share nothing. *Socket*: `ClaimIsThePath` and `GuardCleans`
  are inductive together with `SocketPhases`, which ties a process's position to the state of
  its socket; for any set of runs and probes. *Store*: `StoreInv` is *StoreTypes*, *Texts*
  (what a command puts in a file's place is a text of its own) and *Backed* (until the backup
  is renamed, the text that was read is the config; from then on it is the backup);
  `StoreKept` is an action property and follows from it, for any set of pids and directories.
  *Shims*: `Locked` (only the holder of the flock is between read and write), `Current` (so
  what it read is still the registry), `Undoable` (a link that is there has its line in what
  would be written back) and `LinkRegistered`. *Log*: `LogInv` is a budget. Of the
  writers that asked for the size and have not written yet there is one whose debt fits, beside
  a whole burst of every other; so `LogCappedHolds` is for any number of writers, truncations
  and failures, and with one writer it is `MAX_BYTES` itself.
* **NetProxyProofs.** `IInv` is *TypeOK*, *SlotsCounted* (the count is the number of threads
  that hold a slot), *Flow* (what is buffered and closed at each point of a connection) and
  *Route* (the name was allowed, and every address still to be dialled is vouched for by the
  records of an answer to it). `Chain` is a recursive function: that all it returns is vouched
  for is proved by taking the least number of hops for which it would not be. From it
  `TunnelTrueHolds`. `TunnelsAreStreamsHolds` is the refinement of `Stream`, each action of
  the proxy being mapped to a step or a stutter of every stream; for any number of
  connections, slots, attempts and units, and any allowlist.
* **TtyProofs.** `IInv` is *Control* (what holds of position, result and deadline),
  *Accounted* (written, held, lost and unread units add up), *Room* (the buffer's bound at
  each point of a pass, where the whole number of chunks in `PENDING_MAX` is used) and *Keys*:
  what the pty was given followed by what is still held is what was typed (*Plain*), or that
  with the one end-of-file put in (*Split*). `OutputKeptHolds` follows for any chunk, limit
  and run length.
  For the *Stdio* part, `StdioInv` is *Shapes*, *Owed* (a flag is off only where one of the fds on it
  knows that it was on, which is why all flags are read before any is changed), *Freed* (every
  destination looked at has a description of its own or one that does not block) and *Modes*
  (raw only between `RawGuard` and its restore). `GivenBackHolds` follows for any descriptions
  behind the three fds and any sharing of them.
* **ForwardProofs.** Who may have said what. *Naming* and *Mail* say which messages in the
  inbox can be taken for an answer to the call that is open (serial and unique name), *Wire*
  that a service answers a call with what was exported for it, *Calling* and *Files* what the
  caller has asked and opened, *Answering* and *Rewriting* that an identifier accepted or
  written into an argument is one exported for the very file opened for that argument. Any set
  of plans and messages of the stranger, any swaps of the service's owner.
* **WlProofs.** The policy's invariant has two layers. `Base` holds whatever the client does:
  shapes, what the two ends and the proxy's map hold, and that every global the client knows
  was shown to it (`Shown`). `InProtocol` holds for a client that has kept the protocol: an object
  is in one place (`OnePlace`), an id is in flight at most once (`Once`), every message in
  flight can be decoded when it arrives, whatever the proxy has handled by then (`Decodable`:
  by `Awaited`, `Arrived`, `Held` and `OwnRange`), nothing that concerns an id follows its
  destructor (`LastWords`), and an event concerns an object of the interface on which both
  ends agree by the time it is judged (`Announced`: `Foretold`, `Agreed`, `Promised`). Every
  step is first reduced to what it does to the queues (`Pops`, `Puts`) and to the map
  (`SameMap`, `Gains`, `Loses`), and the parts are proved once per such effect rather than
  once per message. What an honest client knows of a global lasts until its removal is read
  (`Lasts`), which leaves a withdrawn global as the only bind that is refused; and `quiet` is
  `age`, so the gate judges by the input that really went past.
  `PolicyKeptHolds` is for any ids, table, globals, versions, gates and number of messages in
  flight. `MapBoundedHolds`, from the same invariant: the map has at most `MaxObjects` live
  objects and as many dead ids.
  The relay's is `RelayInv`: *RelayTypes*; *AllSound* (from a
  peer that sent no more and no fewer descriptors than its messages own, the descriptors held are
  those of the messages begun and not yet looked at, what is on its way goes on from there, and
  a frame of which nothing was written has its message's descriptor); *AllWithin* (what waits
  for a side is below the limit plus the whole messages one more `recvmsg` completes, since the
  limit is looked at before a read and not after); *Round* (a side that `poll()` woke has room
  to be read into, or its peer is gone and the next write to it fails).
  `RelayKeptHolds` is for any connections, limit, batch and size of the peers' sockets.
* **ConfigProofs.** *Text interface*: `UiOK` has the six stacks of screens there can be,
  *Detailed* (under a buffer lies its own screen) and *Prompted* (a dialog is over no viewer, a
  line being typed has its row under it, and among the choices of a dialog only `y` discards).
  Every handler returns a `Fair` result: one that keeps `UiOK` and an edited buffer unless the
  key is one of those that may change it; the commands a handler asks for, the children that
  end and the changes from outside then cannot do more than a handler does. `InputKeptHolds` is
  an action property and follows with no assumption on the constants. *Profiles*: `LayerInv` is
  *LayerTypes*, *Standing* (a layer that is open or merged still exists and is the text that was
  read: `profile edit` only makes a layer that was not there), *OncePlaced* (a layer is once
  in the chain or in what is merged), *Followed* (of what an open layer includes, everything
  before the one at hand is merged) and *IncludesMerged*. `IncludedFirstHolds` is one half of
  `ProfileLayers`; the other, `FilterIsFloor`, is about a merged text that is written and
  parsed again, which is an induction over data.

Each inductive invariant was first checked by TLC as an invariant of the run's instance.
Induction over a queue or a number is by a least counterexample or by a set of indices, since
the library's induction theorems take an operator.

Only model-checked, and why:

* every liveness property (`RunEnds`, `ProbesEnd`, `StopEnds`, `ServedInTime`, `RelayEnds`,
  `RelayRests`, `ForwardEnds`, the draining half of `LogKept`): fairness is out of the prover's
  reach;
* the formats (`Understood`, `AllowedAsWritten`: `Marshal`, `Connect`, `Dns`, `WlWire`,
  `ExecWire`, `ChildArgs`) and what is read back from a file (`RoundTrip`, `ToggleInPlace`, the
  `FilterIsFloor` half of `ProfileLayers`): recursive over their input;
* `FiltersAsWritten`, `KeptOut`, `Delivered`, `LintForetells` and `ArgumentsReach`: a first-match
  or last-wins evaluation of a list, again an induction over data;
* `LeftoversShrink` (the size of a tree, summed over it) and `Contained` (folds over the lines
  and words of an entry): likewise.

## 5. Plan

To model: `pump()` with several `Out`s for a sandbox without a terminal, the audio holder, and
`Supervisor`, `Launcher` and `ControlSocket` composed for one run.

Every safety property that is not an induction over data is proved; proofs to add come with
what is modelled next.

## 6. Not modelled

* The audio holder (`pw_hold.rs`) is a sequence of calls into a library that is loaded at run
  time; what it reports is a readiness of `Launcher`.
* Reports (`explain.rs`, listings, manual pages) and error texts are formatting.
* The host environment (`env.rs`, `paths`) is lookups that fail or not; where a failure leads
  is modelled at the caller.
* Generated protocol tables, KDL's own syntax, the text of rulesets and policies, drawing and
  terminal set-up of the UI, and straight-line system calls between fork and exec.
* Reuse of a pid that `check_exit()` and `abort_sandbox()` hold (`launcher.rs:3523`, `:1957`).
