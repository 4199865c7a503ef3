------------------------------- MODULE VcFlow -------------------------------
(***************************************************************************)
(* Credit flow control of one virtual channel of one link: the OutVcState  *)
(* at the unit that feeds the link, the flits of the VC on the link and in *)
(* the input VC at its end, and the credits on their way back.  The feeder *)
(* is an output unit or a network interface (which first buffers the flit  *)
(* in m_ni_out_vcs), the end is an input unit or a network interface.      *)
(* Every packet is one flit, so every credit carries the free signal.      *)
(***************************************************************************)
EXTENDS Integers

CONSTANT BufDepth   \* buffers of the VC, and its initial credits

VARIABLES
  state,     \* OutVcState::m_vc_state
  credits,   \* OutVcState::m_credit_count
  waiting,   \* flits in the interface's m_ni_out_vcs
  flits,     \* flits on the link
  buffered,  \* flits in the input VC
  back       \* credits on the way back

vars == <<state, credits, waiting, flits, buffered, back>>

Init ==
  /\ state = "IDLE"
  /\ credits = BufDepth
  /\ waiting = 0 /\ flits = 0 /\ buffered = 0 /\ back = 0

\* NetworkInterface::flitisizeMessage takes an idle VC for a message.
Pick ==
  /\ state = "IDLE"
  /\ state' = "ACTIVE"
  /\ waiting' = waiting + 1
  /\ UNCHANGED <<credits, flits, buffered, back>>

\* NetworkInterface::scheduleOutputLink puts a waiting flit on the link.
Send ==
  /\ waiting > 0
  /\ credits > 0
  /\ waiting' = waiting - 1
  /\ credits' = credits - 1
  /\ flits' = flits + 1
  /\ UNCHANGED <<state, buffered, back>>

\* SwitchAllocator::vc_allocate and the traversal that follows; also an
\* interface that picks and sends in one wakeup.
AllocateAndSend ==
  /\ state = "IDLE"
  /\ state' = "ACTIVE"
  /\ credits' = credits - 1
  /\ flits' = flits + 1
  /\ UNCHANGED <<waiting, buffered, back>>

\* InputUnit::wakeup
Arrive ==
  /\ flits > 0
  /\ flits' = flits - 1
  /\ buffered' = buffered + 1
  /\ UNCHANGED <<state, credits, waiting, back>>

\* SwitchAllocator::arbitrate_outports: the flit leaves, a credit goes back.
Forward ==
  /\ buffered > 0
  /\ buffered' = buffered - 1
  /\ back' = back + 1
  /\ UNCHANGED <<state, credits, waiting, flits>>

\* NetworkInterface::wakeup hands the flit to the protocol buffer.
Eject ==
  /\ flits > 0
  /\ flits' = flits - 1
  /\ back' = back + 1
  /\ UNCHANGED <<state, credits, waiting, buffered>>

\* OutputUnit::wakeup, or the credit part of NetworkInterface::wakeup.
TakeCredit ==
  /\ back > 0
  /\ back' = back - 1
  /\ credits' = credits + 1
  /\ state' = "IDLE"
  /\ UNCHANGED <<waiting, flits, buffered>>

Quiet == waiting = 0 /\ flits = 0 /\ back = 0

\* GarnetNetwork::doSpin takes the flit out of the input VC, or puts one in.
\* It does not look at the link: that it is quiet is the drain's promise.
SpinOut ==
  /\ Quiet
  /\ buffered > 0
  /\ buffered' = buffered - 1
  /\ credits' = credits + 1
  /\ state' = "IDLE"
  /\ UNCHANGED <<waiting, flits, back>>

SpinIn ==
  /\ Quiet
  /\ buffered = 0
  /\ buffered' = buffered + 1
  /\ credits' = credits - 1
  /\ state' = "ACTIVE"
  /\ UNCHANGED <<waiting, flits, back>>

Next ==
  \/ Pick \/ Send \/ AllocateAndSend \/ Arrive \/ Forward \/ Eject
  \/ TakeCredit \/ SpinOut \/ SpinIn

Spec == Init /\ [][Next]_vars

-----------------------------------------------------------------------------
\* The values every variable ranges over.
TypeOK ==
  /\ state \in {"IDLE", "ACTIVE"}
  /\ credits \in 0 .. BufDepth
  /\ waiting \in Nat /\ flits \in Nat /\ buffered \in Nat /\ back \in Nat

\* The credits missing upstream are the flits and credits downstream.
CreditsExact == credits = BufDepth - flits - buffered - back

\* An ACTIVE VC is held by exactly one flit or credit, an IDLE one by none.
OnePacket == waiting + flits + buffered + back = IF state = "IDLE" THEN 0 ELSE 1

IInv == TypeOK /\ CreditsExact /\ OnePacket

(***************************************************************************)
(* The asserts of the flow control: a flit arrives at an IDLE, empty input *)
(* VC (InputUnit::wakeup, doSpin), a feeder with a flit has a credit for   *)
(* it (OutVcState::decrement_credit), and a credit that comes back was     *)
(* missing (increment_credit).                                             *)
(***************************************************************************)
NoOverrun ==
  /\ flits > 0 => buffered = 0
  /\ waiting > 0 \/ state = "IDLE" => credits > 0
  /\ back > 0 => credits < BufDepth
=============================================================================
