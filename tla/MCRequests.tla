----------------------------- MODULE MCRequests -----------------------------
(***************************************************************************)
(* Small instances of the two ends of a request, the client's state        *)
(* machine and the server's handling, checked together: in an initial      *)
(* state one of them is at its start and the other is at rest.             *)
(***************************************************************************)
EXTENDS Client, Server

CONSTANTS h1, h2
MCSeeds == <<h1>>
MCMembers == <<h1, h2>>

Get == [op |-> "GET", key |-> 1]
Set(k, v) == [op |-> "SET", key |-> k, value |-> v]
SetNx(k) == [op |-> "CAS", key |-> k, value |-> 1, old |-> <<>>]
Pay(n) == [op |-> "FCALL", from |-> 1, to |-> 2, amount |-> n]

\* Commands on several keys and on ranges.
MSet(K, v) == [op |-> "MSET", writes |-> [i \in DOMAIN K |-> [key |-> K[i], value |-> v]]]
MDel(K) == [op |-> "MDEL", keys |-> K]
RSet(b, e, v) == [op |-> "RSET", begin |-> b, end |-> e, value |-> v]
RDel(b, e) == [op |-> "RDEL", begin |-> b, end |-> e]
Del(k) == [op |-> "DEL", key |-> k]
Cmp(k, v, w) == [op |-> "CAS", key |-> k, value |-> w, old |-> <<v>>]

\* Transfers among plain writes; a transfer that fails, between a lock and a read; writes of several
\* keys around a transfer.
MCScripts == {<<Pay(1), Set(3, 0), Pay(1), Set(3, 1)>>,
              <<SetNx(3), Pay(3), Pay(1), Get>>,
              <<MSet(<<3, 4>>, 0), Pay(1), RSet(<<3>>, <<>>, 1), RDel(<<>>, <<4>>)>>,
              <<Cmp(1, 2, 3), MDel({2, 3}), Pay(1), Del(1)>>}
Transfers == {<<Pay(1), Pay(1)>>}
\* A client whose commands have all been answered.
ClientAtRest ==
  /\ app = [sock |-> "open", connected |-> TRUE, hosts |-> Seeds, at |-> 1,
            pend |-> <<>>, next |-> MaxRequests + 1, discovering |-> FALSE, flush |-> FALSE,
            reconnect |-> FALSE, preserve |-> FALSE, retry |-> FALSE, delay |-> 0, count |-> 0,
            sent |-> <<>>, answers |-> <<>>, result |-> [i \in Ids |-> "ok"], cut |-> FALSE]
  /\ up = Hosts /\ leader = Seeds[1] /\ runs = [i \in Ids |-> 1] /\ faults = MaxFaults

\* A server that was stopped before any request arrived.
ServerAtRest ==
  /\ cmd = <<>>
  /\ s = [arrived |-> 0, is_leader |-> FALSE, admission |-> FALSE,
          gate_closed |-> FALSE, gate |-> <<>>, write |-> <<>>,
          live |-> {}, conn |-> {}, entry |-> <<>>, answer |-> <<>>, fork |-> <<>>,
          leads |-> FALSE, hint |-> FALSE, running |-> FALSE, change |-> FALSE,
          log |-> <<>>, commit |-> 0, applied |-> 0, tree |-> 1 :> 2 @@ 2 :> 0,
          pending |-> {}, barriers |-> {}, results |-> <<>>]
  /\ changes = MaxChanges /\ drops = 0

RequestsInit ==
  \/ ClientInit /\ ServerAtRest
  \/ ClientAtRest /\ Init

RequestsNext ==
  \/ ClientNext /\ UNCHANGED vars
  \/ Next /\ UNCHANGED cvars

RequestsSpec == RequestsInit /\ [][RequestsNext]_<<cvars, vars>> /\ ClientFair /\ Fairness
=============================================================================
