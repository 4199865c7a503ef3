# DRAIN in TLA+

DRAIN makes a mesh network deadlock-free without escape channels or turn restrictions. Every
`spin_freq` cycles the whole network is halted, all flits are moved along a fixed closed path
through all links (the *drain path*, or *spin ring*), and the network resumes. The repository
implements it in gem5's Garnet 2.0 (`src/gem5/src/mem/ruby/network/garnet2.0/`, below `G/`). This
directory models that network and what feeds it, checks the models with TLC and proves most
of their safety properties with TLAPS, for every value of the constants.

## The system

| part | state | operations | correct when |
|---|---|---|---|
| drain control (`G/Router.cc`) | `halt_` per router, `lock` of the network, the cycle modulo the period | halt at the threshold, drain 3 cycles later, resume | all routers halt and resume together; links are quiet at the drain; every halt ends |
| drain path (`G/GarnetNetwork.cc`) | `spinRing` with its `flit_` pointers | `init_spinRing`, `doSpin`, `set_flit_time` | the path is the file's; a spin is one rotation: no flit lost, duplicated or moved twice, all credits fit |
| input units, virtual channels | flits per VC | take a flit off the link, route it, buffer it; send credits | a flit only arrives at an idle VC |
| output units, `OutVcState` | state and credits per output VC | take credits, allocate VCs | credits missing = flits and credits downstream |
| switch allocator, crossbar | requests of one wakeup, round-robin pointers | SA-I, SA-II, traversal, `check_for_wakeup` | frozen while halted; a ready flit always has a wakeup; a request is granted in the end |
| flit and credit links | source queue, link buffer | move after one cycle, deliver after `m_latency` | the consumer is awake when an item arrives |
| network interface | protocol buffers, `m_ni_out_vcs`, output VC state, stall queue | pick up, choose a VC, inject, eject, stall, take and return credits | every destination served once, in order; every VC freed once; no buffer overrun |
| routing unit | routing table | table lookup, five algorithms by direction | each hop minimal; turn-restricted algorithms have no cyclic wait |
| topology | weights | shortest paths in place, routing tables | distances are shortest; tables lead to every destination |
| traffic generator, `RubyPort`, `Sequencer`, cache controller | `retryPkt`, retry list, request tables, mandatory queue | generate, refuse, retry, complete, check for deadlock | a refused packet is retried or replaced; nothing is injected twice; a stuck request is reported |
| `Consumer` / event queue | scheduled wakeups | schedule, run | no lost wakeup |

Parts interact through wakeups (a link schedules its consumer), through links and buffers, and
through direct calls: the router that drains changes buffers, credits and states of *every* router;
a completed request retries a refused packet in the middle of its callback. The hard behaviours are
the order in which the consumers of a cycle run, what is still in flight when the network halts,
the two loops of `doSpin` between which all bookkeeping is out of step, credits that could be
returned twice, messages served in parts, sizes that are those of the start of the cycle, and
progress: cyclic waits, misrouting by drains, lost wakeups, starvation. `PROJECT.json` lists them
as hazards, at their lines.

## Modules

| module | models |
|---|---|
| `MeshRing` | router ids, ports and links of an irregular mesh, the drain path, shortest-path routing tables; `MeshAssumption` is what a spin-ring file must satisfy |
| `DrainNetwork`, `DrainNetworkProofs` | the whole network as one state machine over `MeshRing`, and its theorems |
| `DrainControl`, `DrainControlProofs` | the halt-and-drain protocol alone, for any routers, channels, latency and period, and its theorems; `DrainNetwork` implements it |
| `AtomicSpin` | what one `doSpin` promises: one rotation in one step |
| `DoSpin`, `DoSpinProofs` | `doSpin` loop iteration by loop iteration, and its theorems; implements `AtomicSpin` |
| `VcFlow` | credit flow control of one VC of one link; every VC of `DrainNetwork` follows it |
| `NiEjection` | the ejection half of the network interface with bounded protocol buffers |
| `NetworkInterface`, `NetworkInterfaceProofs` | the whole interface: `NiEjection` and the injection half in one handler; theorems about both |
| `SwitchAllocator` | the two-stage allocator of one router with its pointers |
| `DelayLine` | what a link promises: an item is delivered `1 + m_latency` cycles later, a credit of an interface perhaps one cycle earlier |
| `NetworkLink` | a link with its source queue, buffer and two consumers, which implements `DelayLine` |
| `RouterProofs` | theorems of `SwitchAllocator`, `NetworkLink` and `VcFlow` |
| `RoutingUnit` | the six routing algorithms as operators |
| `PacketRoute`, `PacketRouteProofs` | a packet on its way, and the chain of packets waiting for each other, with their theorems |
| `SpinRingReader` | `init_spinRing`, token by token |
| `TopologyPaths` | `extend_shortest_path`, cell by cell, and the tables made from it |
| `Startup`, `StartupProofs` | the constructor and `init()` of `GarnetNetwork`: the reader, then the paths; theorems about both |
| `TrafficInjection`, `TrafficInjectionProofs` | traffic generator, port, `Sequencer` and cache controller of one node, and their theorems |
| `MCDrainNetwork`, `MCNetworkInterface`, `MCSwitchAllocator`, `MCStartup` | instances for TLC |

### DrainNetwork and the code

A *channel* is named by the input port it ends in, `<<router, side>>`; `<<r, "Local">>` is the
injection and `<<r, "Eject">>` the ejection link of router `r`. `outvc[c]` is the `OutVcState` at
the unit that feeds channel `c`, `pipe[c]` its flits, `inbuf[c]` the input VCs at its end, `crd[c]`
its credits on the way back. Times are relative: every flit, credit and wakeup carries the number
of cycles until it is due, `phase` is `curCycle() % m_spin_thrshld` and `started` tells whether the
first threshold has been reached. A link is a delay line of `1 + LinkLatency` cycles, which
`NetworkLink` shows the code's links to be; a credit of an interface may take one cycle less, past
no other credit (`CreditDelays`, see below). A flit with
`1 + LinkLatency` cycles left is in the source queue of its link; with `LinkLatency` left it goes to
the buffer in this cycle, before or after the router runs, and `chck_link_state` counts it as there.
`spinMult` is `spin_mult`, a parameter of the run.

`Router::wakeup` is three steps that `running` chains without interruption:

1. `RouterReceive`: all input units take and route a flit, all output units take a credit;
2. `RouterHalt` (threshold), `RouterDrain` (more than two cycles later, lock held) or
   `RouterNoSpin` (otherwise);
3. `RouterAllocate`: `SwitchAllocator::wakeup` and `CrossbarSwitch::wakeup`.

`RouterDrain` holds the loops over spins and VCs, `set_flit_time`, the release of the lock and the
wakeup of all routers. `InterfaceWakeup` is `NetworkInterface::wakeup`, `SendMessage` a controller
that enqueues a message, `Tick` the event queue moving to the next cycle.

Modelled by what they do, or left open:

- Every packet is one flit (`num_flits = 1` in `flitisizeMessage`), so every credit carries the
  free signal and an input VC is ACTIVE exactly when it holds a flit. (A flit that is not a tail
  would run into `assert(0)`, `G/NetworkInterface.cc:292`.)
- Routing may take any minimum-weight candidate, arbitration any round-robin position. Both
  over-approximate the code, so safety that holds here holds whatever the pointers and `random()`
  do. `SwitchAllocator` and `RoutingUnit` have the detail.
- One interface per router, with protocol buffers large enough never to be full: their default size
  is 1000 (`src/gem5/src/mem/ruby/network/MessageBuffer.py:38`). `NiEjection` has small ones.
- `assert(halt_ = true)` in `Router::wakeup` is an assignment; that `halt_` already is
  true there is `LockMatchesHalt` of `DrainControl`. `GarnetNetwork::wakeup`, which the drain schedules, is empty.
- `uTurn_crossbar` is 1 (the default: U-turns are allowed).

### NetworkInterface and the code

`NiWakeup` is `NetworkInterface::wakeup`, one step. Its injection half (`InjectHalf`) picks up a
message per vnet (`flitisizeMessage`, unless the network is locked), serves one flit from
`m_ni_out_vcs` (`scheduleOutputLink`) and takes a credit. `Served` states the outcome of the nested
loops: a request (`Precedes` is the order of the loops) and an idle VC (`Turn` is the order in which
`calculateVC` finds them) of the same rank are paired, so with `k` idle VCs the first `k` destinations
asked for get one, and a message that runs out keeps the others. `m_ni_out_vcs_enqueue_time` is only
compared, so it is an order, `older`. `flits` and `sent` are history: how often a flit was made, and
the ones that left. The
ejection half (`NiEjection!Wakeup`) delivers a stalled or an arriving flit, or stalls it. `Dequeue`
is a controller taking a message, with the dequeue callback. A buffer record keeps what
`areNSlotsAvailable` looks at: messages that count until the next cycle although they were dequeued
in this one.

`load` is the workload: which ejection VCs are in use, the messages, `inj_single_vnet`, `ni_inj`,
how often a drain locks the network, and `busy`, whether other traffic keeps waking the interface.
`busy` matters: see Observations.

### SwitchAllocator and the code

`Wakeup` is `arbitrate_inports` and `arbitrate_outports` in one step, with `m_round_robin_invc`,
`m_round_robin_inport`, `send_allowed`, `vc_allocate` and `disallow_uturn`. Arrivals ask for any
output port, because a drain may put a flit anywhere. `get_outport(vc)` of the input VC is never
set any more (`G/InputUnit.cc:120`), so the ordering check compares with -1, as the code does.

### Startup, routing, links, injection

`ReadEntry` is one iteration of the reader's loop; a file is its tokens and whether white space
follows them, and `eof()` is what the stream says, not whether tokens are left. `Relax` is one cell
of `extend_shortest_path`, in place: a cell uses cells that the same sweep has already changed.
`Startup` orders them as constructor and `init()` do, for a network with `--spin`.

`RoutingUnit` keeps each algorithm as the set of directions it may return, given the free VCs of
the ports where it looks at them. `PacketRoute!Forward` includes the lookup in
`m_outports_dirn2idx`, which yields port 0, a local port, for a direction that is missing. Packets
start on any link, since a drain leaves them on any. `WaitFor` passes from a waiting packet to one
that may hold the VC it waits for; a chain that returns to its first link, over links routing
itself uses, is a routing deadlock.

`NetworkLink` keeps heaps as sets of timed entries. `stamp` distinguishes flit links (items ready in
the next cycle) from credit links (ready at once). `eager` marks the credit link of an interface,
which `NetworkInterface::wakeup` schedules whenever a credit is queued (`G/NetworkInterface.cc:313`),
also when it has sent none (`WakeAgain`). Such a link may be awake with nothing to move, and if it
runs after the interface it takes a credit in the cycle in which it is queued. `DelayLine` promises
of it only that a credit takes `m_latency` or `1 + m_latency` cycles and that none meets or passes
another. `DrainNetwork` lets its interfaces choose either (`CreditDelays`), and its theorems hold for
both.

`TopologyPaths!Topologies` are all matrices `createLinks` may fill: each direction of a link is set
on its own, so links may be one-way, as those of the endpoints are, or weigh more in one direction,
as in `Mesh_westfirst.py`. The weights of `RoutingUnit` are those of `Mesh_XY.py`, 1 and 2; see
Observations for `irregularMesh_XY.py`.

`TrafficInjection` folds what one event does into one step: a controller wakeup is up to
`TransitionsPerCycle` transitions, each with its callback, and the callback retries the refused
packet, which may enter the mandatory queue before the completed one is popped. Controller,
deadlock check and interface run in any order, the generator's `tick` last (its priority). The
generator has no limit (`num_packets_max` is -1 by default), and may send or not in every tick. Names
of packets are used again once they are free: `live` are the packets made, not yet injected and not
replaced in `retryPkt`, of which there are never more than `MaxOutstanding + 1`.

## Runs

| run | instance | checks |
|---|---|---|
| `drain_line` | 1 x 2, one VC, three packets, every order of consumers, any sending time | credits, packets, wakeups, refinement of `DrainControl` (hence halt and lock together, nothing sent while halted, quiet links at the drain), `HaltEnds`, `EveryPacketArrives` |
| `drain_deadlock` | full 2 x 2, one VC, four packets corner to corner | a cyclic wait is reached and resolved: `EveryPacketArrives` |
| `drain_vcs` | 1 x 2, two vnets of two VCs, all drained, 2-stage routers, `spin_mult` 3 and 0 (random spins, base VCs only) | refinement of `VcFlow`, wakeups after the longer hold-back |
| `drain_control` | 2 routers, 1 channel, latency 2 | the inductive invariant and the theorems' statements |
| `do_spin` | 4 ports, 3 flits, spins and traffic without end | the inductive invariant (type correctness included), asserts, refinement of `AtomicSpin` |
| `interface` | buffers of one message, two vnets, one ordered; three workloads: ejection over three VCs, multicasts with a drain, `inj_single_vnet` | capacity, one credit per flit, stall counts and callbacks, each destination once, no flit overwritten, order in both directions, every message sent, every VC freed |
| `switch` | a corner router, two input and two output ports, two vnets, no U-turns | a grant always finds its VC, the stages do not block each other, a request that stage one keeps making is granted |
| `link` | latency 3, five items, flit links, credit links and credit links of an interface | refinement of `DelayLine` |
| `routing` | 3 x 4 mesh, all six algorithms | every hop nearer, ejection at the destination only, no wait cycle for the turn-restricted algorithms and the weighted table |
| `startup` | all files of up to 4 tokens over 7 words, topologies of 4 switches: all with paired links of weights 1 and 3, all with one-way links of weight 1, and a square with weight 1 or 3 for each direction | an accepted path is the file's, every start ends, distances are shortest, tables lead |
| `injection` | two lines, two vnets, 2 outstanding requests, packets without end, buffers of one message | retry list, every packet in one place, deadlock report in time, every refused packet issued or replaced |
| `drain_slow_links` | latency 3 | **violated**: `SpinSafe` |

Bounds. `Packets` are sent once each, so runs are finite but for time, which is cyclic. Three
packets on the line fill the injection VC, the link and the input VC and meet oncoming traffic;
four corner packets are what a cyclic wait needs in a 2 x 2 mesh (with `SpunInPlace`, a drain that
moves nothing, `drain_deadlock` finds them stuck). `SendPhases` limits when controllers send:
every phase in `drain_line`, elsewhere phases from which packets are on their way when the network
halts. `Priority` limits the order of consumers within a cycle: not at all in `drain_line`,
interfaces in a fixed order before the routers elsewhere. The drain period is a few cycles instead
of thousands, so that drains hit every stage of a packet's journey. That the shipped 4 x 4 file is
a drain path (what `MeshAssumption` asks) is the assumption `ShippedPathAssumption` of
`MCStartup`.

The period must leave packets time to advance. On the line a period of 6 resonates with the drain:
each drain carries a packet back exactly as often as it moves forward, and it never arrives. The
code does not exclude such periods; `EveryPacketArrives` is checked for periods that do.

In `interface`, two VCs for three or four destinations make every multicast run out of VCs, and
buffers of one message make every second arrival stall. In `switch`, two inputs that ask for the
same two outputs are the smallest case in which both pointers matter, and the corner is where a
deflection has one side to go to. In `link`, five items are as many as can be under way at latency
3. Among four switches, detours of two links (weight 1) beat a direct one (weight 3), detours of
three tie with it, switches may be out of reach, and the way there need not be the way back. Two
lines and two outstanding requests fill the request table and alias lines, and the generator
replaces waiting packets again and again; four names are as many as that needs. The deadlock
threshold is 3 cycles, not 500000: long enough that requests complete under it in bursts and short
enough that it is also reached, which `DeadlockNoticed` needs. `EveryRetryEnds` excludes runs that
end in a report, so behaviours in which the interface stays away for more than 3 cycles count for
it only up to there. `locks` bounds the drains of an interface workload, `MaxFree` the free VCs a port
is seen to have (algorithms only compare them).

Fairness.

- `DrainNetwork`: weak fairness of `System`, the event queue keeps running. Nothing is assumed of
  the order of consumers, of arbitration, of routing or of controllers sending.
- `NetworkInterface`: scheduled consumers run and the cycle goes on; controllers take the messages
  they can take; a lock is released (`HaltEnds`); the router returns credits again and again
  (`EveryPacketArrives`), strong because ticks without a credit come between; a busy interface is
  woken again and again.
- `SwitchAllocator`: the router is woken while it holds flits (`NoLostWakeup`), halts end, credits
  come back. Nothing is assumed of when they come back, so `EveryRequestGranted` is about a VC that
  stage one keeps choosing, not about every VC that may be sent: see Observations.
- `Startup` is straight-line code. `TrafficInjection`: scheduled events run, and the interface takes
  messages of every vnet (`EveryMessageSent`). The fairness of `TickIdle` only makes the tick come: a
  tick that sends satisfies it too, so the generator may send in every cycle.

What one module assumes another one checks, on its own small instance: `HaltEnds` and
`EveryPacketArrives` of `DrainNetwork`, whose interface is simpler, justify the fairness of
`NetworkInterface` and `SwitchAllocator`, and `EveryMessageSent` that of `TrafficInjection`. The
chain is an argument, not a checked composition.

## Findings

**Links of more than two cycles** (`drain_slow_links`). The wait before the drain is 2 cycles for any
latency. A flit that left just before a halt is still on a link of latency 3 at the drain, and
`assert(spin_safe_)` (`G/Router.cc:184`) fails there. The theorem `HaltIsDisciplined` shows the links
quiet at the drain for latencies 1 and 2, and `SpinIsSafe` shows the assert to hold there in the whole
network.

## Observations

Places where code and comment, option or assert disagree, met while modelling. The models are
faithful to the code; the named change of a configuration shows the case.

- `G/Router.cc:246`: "an additional assert that there is nothing on the link" (line 244) fails at
  latency 2 when the router that holds the lock runs before the receiver, although the links are
  quiet at the drain. `NothingOnLinks` as invariant, `LinkLatency = 2`, `SpinThreshold = 12` in
  `drain_line`.
- `G/Router.cc:166`: with `--spin-freq` of at most 3, `curCycle() % spin_freq > 2` never holds and the
  first halt never ends; the constructor only excludes 0. `SpinThreshold = 3` in `drain_line` violates
  `HaltEnds`.
- `G/GarnetNetwork.cc:425`: the loop under "clean ring." (line 424) assigns to copies, so stale
  pointers remain in `spinRing`. `RingIsClean` fails in `do_spin`; `DoSpinIsAtomic` shows that no
  later spin is affected.
- `G/SwitchAllocator.cc:347`: "should not come to this condition" is reached with
  `--uTurn-crossbar=0` in an irregular mesh: a packet that a drain carried past its way back may be
  at a router without a port to either side; `disallow_uturn` is `NoPort` there. The `switch`
  run has ports for every deflection.
- `G/SwitchAllocator.cc:217`: the pointer over the VCs of an input port moves only when stage two
  grants the port something. A VC that may be sent at every wakeup can starve: while the port's
  pointer stands, it asks for one output or for the other, depending on which credits have come back,
  and each output's pointer, which moves by one per grant whoever wins, favours another port at
  that moment. It takes three input ports: with a third one, and a flit of the port for either output,
  `[]<>~Sendable(p, v)` fails, while with the two of `switch` it holds. What stage one keeps choosing is
  granted all the same (`EveryRequestGranted`).
- `G/SwitchAllocator.cc:445`: the check that "pt-to-pt ordering is not violated in ordered vnets"
  (line 392) compares with an output port that `InputUnit` no longer sets, so a later flit may
  overtake. `KeepsOrder` fails in `switch` with `NumVnets = 1`, `VcPerVnet = 2`, `Ordered = {0}`,
  `UTurnCrossbar = TRUE`.
- `G/NetworkInterface.cc:284`: a flit may be stalled for a buffer whose last message was dequeued
  earlier in the same cycle, because the slot is free from the next cycle on. The callback "for when
  protocol buffer is dequeued" (line 277) then comes too late, and the flit waits until something
  else wakes the interface. `EveryVcIsFreed` therefore assumes `busy`; without `busy =>` it fails for
  a workload with `busy |-> FALSE`. It needs a full buffer.
- `G/NetworkInterface.cc`: with `inj_single_vnet` all flits use the VCs of vnet 0, and whether they
  keep their order is decided by the flag of vnet 0, not by that of their own vnet. With only vnet 1
  ordered and three VCs, a multicast of vnet 0 followed by two messages of vnet 1 to one destination
  violates `LeavesInOrder`; hence the hypothesis of `InjectsInOrder`.
- `G/GarnetNetwork.cc:195`: the loop tests `eof()` before it reads. A file that ends in a newline
  has its last entry read again with the long name, and the reader calls
  `fatal("Illegal direction name or format")`.
- `G/GarnetNetwork.cc:228`: the path is closed with `m_num_rows` where the comment (line 220) says
  `col`, "because 'm_num_cols' is initialized later in the code" (line 229): right for square meshes
  only.
- `src/gem5/src/cpu/testers/garnet_synthetic_traffic/GarnetSyntheticTraffic.cc:72`: "RubyPort will
  retry sending", but `tick` goes on, and a second refused packet replaces the first, which was
  counted as sent and is then nowhere. `Replaced` is that packet, and `EveryPacketOnce` admits it. Nor
  does the slot have to become empty: refused packets can replace each other
  for ever, each retried when the line of another has just been freed. `sq.retryPkt # None ~>
  (sq.retryPkt = None \/ panicked)` fails in `injection`; that each of them is issued or replaced is
  `EveryRetryEnds`.
- `G/RoutingUnit.cc:245`: `assert(outport != -1)` does not notice a direction without a port, which is
  looked up as port 0: in an irregular mesh XY, random, West-first and adaptive routing eject the
  packet at the wrong router. `Cut` with a link in `routing` violates `EjectsAtDestination`. Table
  routing, which the shipped scripts use, is not affected.
- `src/gem5/configs/topologies/irregularMesh_XY.py:193`: "XY routing is enforced (using link weights)"
  (line 38) and "weight = 2" (line 180), but vertical links have weight 1. `YWeight = 1` in
  `routing` violates `NoWaitCycle` for the table; a drain resolves the deadlock (`drain_deadlock`).
  The same file uses `num_rows` as the row length of the connection matrix (152, 168, 184, 200).
- `G/NetworkInterface.cc:149`: the maximum latency of marked flits is copied to its statistic before
  line 159 takes the last flit into account. `--marked-flits` (`src/gem5/configs/network/Network.py:86`)
  has no effect: a router's budget is its own parameter (`BasicRouter.py:40`), and the test is
  commented out (`G/NetworkInterface.cc:453`).
- `src/gem5/configs/network/Network.py:67`: the help of the routing option numbers the algorithms
  differently from the code, where 2 is random and 6 custom.

## Proofs

All theorems hold for every value of the constants under the named assumptions.

**DrainControl** (`ControlAssumption`: latency at least 1, period above 3). `LockMatchesHalt` and
`Settled` are not inductive. `IInv` adds `DrainScheduled`, that every router is scheduled for the
drain cycle while the lock is held, so `Tick` cannot pass it; and `FlightTimes`, that an arrival
`d` cycles away at `phase` has `d + phase <= LinkLatency` under a halt, and that nothing was sent in
the threshold cycle before the halt, because the first router to run halts all before it allocates.
From `IInv` follow `LockIsHalt`, `SettledAtDrain` and the action property `HaltIsDisciplined`.

**DoSpin** (`SpinAssumption`: a path of at least one port). `IInv` says of each loop which ports it
has emptied or filled, that `flit_` of the entries passed holds what the ports held at the call,
that `num_pkts` is the number of flits only the entries hold, and that states and credits always
fit the flits. `AssertsNeverFail` and the refinement `DoSpinIsAtomic` follow; the mapping shows the
state at the call until `doSpin` returns.

**VcFlow** (`BufDepth` at least 1). `IInv` is exact credits plus "an ACTIVE VC is held by one flit
or credit"; `FlowControlSafe` derives the asserts. `SpinOut` and `SpinIn` require a quiet link;
that the drain guarantees it is part of `NetworkImplementsFlow`.

**DrainNetwork** (`MeshAssumption`: the path is a drain path; `NetworkAssumption`; `DrainFits`: links
of at most two cycles, a period above 3. `drain_slow_links` shows that the theorems fail for slower
links, and a shorter period never drains.) `CreditsConserved`,
`NetworkImplementsFlow`, `NetworkImplementsControl`, `PacketsConserved`, `NoWakeupLost` and
`SpinIsSafe` hold for any mesh, traffic, order of consumers, routing choice and arbitration. They
rest on `NetworkInv`, which joins what the components owe each other:

- `FlowInv`, the invariant of `VcFlow` for every VC of every channel. A drain moves a flit
  backwards over a link without using it, which is right only if the link carries nothing.
- `HaltInv`: halt and lock agree, every router is scheduled for the drain, and the flits and
  credits under way at a halt are those that arrive before it (`QuietInTime`).
- `Lanes`, for the flits and for the credits of every channel: no two arrive together, and each has
  its consumer scheduled for its arrival, an early credit included. An input unit takes one item per
  wakeup; this is what leaves none behind. It is inductive because a feeder sends at most
  once a cycle: while it is still to run, nothing was sent in this cycle.
- `Routed`: an input VC's flit has an output port the router has, a drained flit included.

`WakeInv` is on top of it: a buffered flit has a wakeup in time (`BuffersAwake`), `check_for_wakeup`
and the hold-back of `set_flit_time` included, and an interface with messages or flits runs in this
cycle or the next (`InterfacesAwake`), although it schedules itself only at the end of its handler.

`NetworkImplementsControl` is the refinement of `DrainControl`: a router's wakeups map to themselves,
a channel to the set of the delays of what it carries. Besides `NetworkInv` it needs `WakeBound`: no
wakeup is further away than `MaxDelay`, which exists because `SpinMults` is finite. A receive, an
ejection or a credit taken must then remove exactly the due delay of its channel, which is where
`Lanes` is used again: two items with one arrival time would leave the delay in the set. With it,
the theorems about `DrainControl` are theorems about the network.

`PacketsConserved` follows from `Conserved`: every packet is held once by a layout, which gives each
place (message buffer, interface VC, input VC, flit link) its queue, or is fresh,
or delivered. A step is a change of layout: heads of queues move to the ends of others, all at once
(`HeadsMoved`); a packet joins (`Joined`) or leaves (`Delivered`); an interface's wakeup is such
changes in a row (pick, inject, eject); a drain permutes the queues (`Turned`). `SpinsPermute` shows,
from what a remainder is, that any number of spins permutes the positions of the path. `NetworkInv`
is needed because `doSpin` moves one flit of a VC: a VC with two would leave one behind.

**NetworkLink** (`LinkAssumption`: latency at least 1). `LinkIsDelayLine` is the refinement. A link
moves one item per wakeup; that this leaves none behind is what the invariant is for. `LinkInv` says
that the source queue holds at most one item of this cycle and one of the last, that the link is
scheduled for those and the consumer for every item of the buffer, that no two items of the
buffer are due together, and that items are distinct. An item's due time in the delay line depends
on whether the link is still to run in this cycle and has it at its top (`Leaves`), which is how an
early credit shows; where the link is not `eager` it is scheduled for those items only, and there is
none.

**NetworkInterface, NiEjection** (`EjectionAssumption`, `InterfaceAssumption`). To the three
invariants `EjectionInv` adds `OnePlace` (the flit of an ACTIVE VC arrives, is stalled or has become
a credit, one of them and once; counts alone would not survive the removal of a stalled flit),
`SizeAtStart` (the size that `areNSlotsAvailable` remembers is not below what is left) and
`AwakeForFlit`. `EjectionSafe` is for `NiEjection` alone; `InterfaceSafe` carries the same invariant
through the injection half, which shares the handler and the wakeups. `InterfaceInOrder` is an
action property: of two flits of a vnet, one `Ahead` of the other in the stall queue or stalled
while the other arrives, the first stays ahead as long as it waits. `checkStallQueue` delivers the
first flit whose vnet has a slot, and a slot depends on the vnet alone, so neither a stalled nor an
arriving flit passes one of its vnet.

The injection half has its own invariant, `InjectionInv`, preserved by ejection because they share no
state but the wakeups. `VcsHeld` ties a VC's state to its flit, its credits and the credit coming
back. `InOrder` says that a buffer holds its vnet's messages by age, each with a part of its
destinations. `MadeOnce` says exactly when a flit has been made: when its destination is on no
message waiting. `KeptOnce` says exactly where it then is, in one VC or gone, and `QueuedFlits`,
`OlderFirst` and `LeftBefore` compare the ages of what is in a buffer, in a VC and gone. The step that
matters is a wakeup, in which several messages ask for VCs of one vnet: the ranks of requests are
distinct (`RequestRank`), those of idle VCs too (`VcRank`), so a VC serves at most one request and a
request takes at most one VC, and both were free. `MulticastServedOnce` and `FlitsKept` follow from
`MadeOnce` and `KeptOnce`. `InjectsInOrder` adds `LeftInOrder` (nothing younger has left than what is
queued for the same destination) and shows that `scheduleOutputLink`, which passes over a VC while
another of its vnet holds a flit of an earlier cycle, sends the oldest of a vnet first. It assumes
`OrderedStaysOrdered`: with `inj_single_vnet`, vnet 0 is ordered if any vnet is. Without it the
theorem does not hold, see Observations.

**SwitchAllocator** (`AllocatorAssumption`). `AllocInv` only says that buffers, VC states and
pointers have their types; the work is in lemmas about one wakeup. `AllocationSucceeds`: a request
passed `send_allowed` in stage one, when a VC of its vnet was idle, and stage two grants an output
port once, so no other grant has taken it. `AllocatorWorks`: a scan that starts anywhere and wraps
once passes every VC and every port, so a flit that may be sent leads to a request and a request to
a grant.

**PacketRoute** (`RoutingAssumption`). `RoutedToDestination` and `RoutesMinimal` assume a whole mesh
(`Cut = {}`); in a cut one they do not hold, see Observations. They rest on what a productive
direction is: it has a port in a whole mesh, and the hop reduces the distance by one.
`RoutingDeadlockFree` needs for the table what Mesh_XY.py sets, vertical links heavier than
horizontal ones; for the other algorithms it needs nothing, cut links included. `NoWaitCycle` is not
inductive, since a chain says nothing of the links it has left. `ChainInv` says that every wait goes
to a link strictly `Ahead` in an order of the links: the westward ones first, then column by column
to the east, in a column the vertical links before the eastward one. The order is transitive and
irreflexive, so the chain never returns.

**Startup** (`SetupAssumption`, `ReaderAssumption`). `ReaderInv`: while the reader goes on, it has
pushed one entry for every two tokens, the one the file describes there, and the string it reads
directions into holds no letter, so a read that fails cannot repeat an entry. `PathInv` bounds the
matrix from both sides: a distance is at most the weight of the direct link, and at least the
difference of any potential, that is, of any assignment of numbers to switches whose differences no
link's weight is below. Links are one-way and weighed per direction throughout. The distances to a
fixed switch are such a potential, so neither walks nor induction over them are needed. `SweepInv`:
the cells behind a sweep that has not changed anything satisfy the triangle inequality, all of them
when it ends. `MatrixIsShortest` and `TablesLeadThere` follow.

**TrafficInjection** (`InjectionAssumption`). `InjectionInv` holds between any two events; its part
`Coherent` also between any two transitions of a controller wakeup and inside a callback. It relates
what every party remembers: a message has its entry and an entry its message (`Recorded`,
`InQueue`), the ids in queue and retry slot are distinct and are those of the live packets
(`DistinctIds`, `IdsPlaced`), and the age of an entry plus the cycles to the next check stay below
twice the threshold (`Young`), which is what makes `DeadlockNoticed` inductive. `PopCommutes` shows
that a retry which joins the queue in the middle of a callback, before the completed message is
popped, does the same as one after it.

`Loop` of `TrafficInjection` is a recursive function. That it is defined, and what it preserves,
is proved by the least counterexample (`WFMin`), which needs no operator as a parameter.

Only model-checked:

- all liveness;
- that a given spin-ring file satisfies `MeshAssumption`, which TLC evaluates.

## Not modelled

- Statistics, marked flits and the end of a simulation, traces and debug output: they do not
  influence the network.
- The fault model: a table that is printed and never used.
- `recycle`, `delayHead` and `stallMessage` of `MessageBuffer`, locked and linked accesses of the
  `Sequencer`, coherence data: Garnet_standalone uses none of them. Functional accesses.
- Networks without `--spin`, in `Startup`.
- The custom routing algorithm, a stub that asserts. The latencies and intermediate switches of
  `Topology`, which Garnet never reads.
- The rest of gem5 (CPUs, ISAs, other memory systems, other networks) and the code it vendors:
  the repository takes it unchanged, and the drain does not involve it.

## Plan

1. done: `MeshRing`, `DrainNetwork`, `DrainControl`, `AtomicSpin`/`DoSpin`, `VcFlow`, their runs,
   the first theorems.
2. done: network interface, switch allocator, links, routing, topology, spin-ring reader, traffic
   injection, with their runs and refinements.
3. done: theorems for links, interface, allocator, routing, startup, injection, and the composed
   network: credits, packets, refinement of `VcFlow` and `DrainControl`, wakeups.
4. done: the injection half of `NetworkInterface` for every workload.
5. Left: liveness, which needs a prover that handles fairness.
