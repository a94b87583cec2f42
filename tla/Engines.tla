------------------------------- MODULE Engines -------------------------------
(***************************************************************************)
(* The engine interface (engine.h) with the engines that engine.c can list *)
(* besides nftables: npf.c, ipset.c, iptables.c with command.c, dummy.c,   *)
(* and pf.c by what module PfEngine shows of it.                           *)
(*                                                                         *)
(* An engine is asked to open a context, to handle addresses, and to close *)
(* its context.  What it changes is the firewall: the sets of ipset, and   *)
(* the networks that a set or a table lists.                               *)
(***************************************************************************)
EXTENDS Integers, Sequences

CONSTANTS
  Available,  \* available_engines: the names of the engines compiled in
  Addr        \* results of parse_addr: [family, host, net], net for a prefix

EngineName == {"pf", "npf", "ipset", "iptables", "dummy"}

ASSUME EnginesAssumption ==
  /\ Available \in Seq(EngineName) /\ Available # <<>>
  /\ Addr \subseteq
       [family : {"v4", "v6"}, host : {a.host : a \in Addr}, net : BOOLEAN]

VARIABLES
  engine,  \* the engine in use
  ctxt,    \* its context: NULL, allocated, freed, or the number one
  fits,    \* whether commands with the table's name fit run_command's buffer
  sets,    \* the families whose ipset exists
  table    \* what the sets, or the table of the firewall, list

engineVars == <<engine, fits, sets, table>>

EnginesTypeOK ==
  /\ engine \in EngineName
  /\ ctxt \in {"null", "heap", "freed", "one"}
  /\ fits \in BOOLEAN
  /\ sets \subseteq {"v4", "v6"}
  /\ table \subseteq [family : {"v4", "v6"}, host : {a.host : a \in Addr}, net : BOOLEAN]

EnginesInit ==
  /\ engine = Available[1]
  /\ ctxt = "null"
  /\ fits \in BOOLEAN
  /\ sets = {}
  /\ table = {}

\* get_engine_by_name
Named(name) == \E i \in 1..Len(Available) : Available[i] = name

\* The fields of the engine_t records.
HasOpen == engine \in {"pf", "npf", "ipset"}
HasClose == engine \in {"pf", "npf"}
DropPrivileges == engine \in {"pf", "npf", "dummy"}
-----------------------------------------------------------------------------
\* A command that is too long is not run, and reported as a success; system()
\* runs the others, which do what they are for (Effect) or fail.
RunCommand(status, Effect) ==
  \/ /\ ~fits /\ status = 0
     /\ UNCHANGED <<sets, table>>
  \/ /\ fits /\ status = 0
     /\ Effect
  \/ /\ fits /\ status = 1
     /\ UNCHANGED <<sets, table>>

\* ok is false from the start, so "ok &= ..." leaves it false and the block
\* ends after the first command, whatever its result.  !ok is the context.
IpsetOpen ==
  /\ \E status \in {0, 1} :
       RunCommand(status, sets' = sets \cup {"v4"} /\ UNCHANGED table)
  /\ ctxt' = "one"

\* The address itself, without its prefix.
HostOf(a) == [a EXCEPT !.net = FALSE]

\* ipset -A: the set of the address's family has to exist.  The command is given
\* humanrepr, the text of the address up to the '/'.
IpsetAdd(a) ==
  a.family \in sets /\ table' = table \cup {HostOf(a)} /\ UNCHANGED sets

\* Variant: the test of the status is inverted, as it is in ipset_open.
IpsetHandleInverted(a, ok) ==
  \E status \in {0, 1} : RunCommand(status, IpsetAdd(a)) /\ ok = (status # 0)

IpsetHandle(a, ok) ==
  \E status \in {0, 1} : RunCommand(status, IpsetAdd(a)) /\ ok = (status = 0)

\* run_command gets its arguments one place late: the text of the command is
\* the name of the table.  An int is returned where a bool is read.
IptablesHandle(ok) == ok \in BOOLEAN /\ UNCHANGED <<sets, table>>

\* pf_open and npf_open: malloc and the device, or NULL.
DeviceOpen == ctxt' \in {"heap", "null"} /\ UNCHANGED <<sets, table>>

\* NPF_NO_NETMASK: the address itself, whatever its prefix.
NpfHandle(a, ok) ==
  /\ \/ ok /\ table' = table \cup {HostOf(a)}
     \/ ~ok /\ UNCHANGED table
  /\ UNCHANGED sets

\* pf_handle can fail after the network got into the table.
PfHandle(a, ok) ==
  /\ \/ table' = table \cup {a}
     \/ ~ok /\ UNCHANGED table
  /\ UNCHANGED sets

DummyHandle(ok) == ok /\ UNCHANGED <<sets, table>>

\* engine->open
EngineOpen ==
  /\ \/ engine = "ipset" /\ IpsetOpen
     \/ engine \in {"pf", "npf"} /\ DeviceOpen
  /\ UNCHANGED <<engine, fits>>

\* engine->handle, which returns ok
EngineHandle(a, ok) ==
  /\ \/ engine = "ipset" /\ IpsetHandle(a, ok)
     \/ engine = "iptables" /\ IptablesHandle(ok)
     \/ engine = "npf" /\ NpfHandle(a, ok)
     \/ engine = "pf" /\ PfHandle(a, ok)
     \/ engine = "dummy" /\ DummyHandle(ok)
  /\ UNCHANGED <<engine, ctxt, fits>>
=============================================================================
