--------------------------------- MODULE Rpc ---------------------------------
(***************************************************************************)
(* What the control channel promises its callers, with no files, polls or  *)
(* timeouts: in a connection calls are numbered from 1, the server         *)
(* executes them in that order and answers what it executed; a call        *)
(* returns only an answer given to it in this connection; it is declared   *)
(* crashed only when the server is down and the answer will never come;    *)
(* otherwise the caller may give up.                                       *)
(***************************************************************************)
EXTENDS Integers

CONSTANT Calls   \* bound: calls per connection

VARIABLES
  connection,  \* number of the connection
  serverUp,    \* its server is running
  call,        \* the last call made in it
  executed,    \* calls the server executed
  replied,     \* calls whose answer is available
  verdict      \* of the last call

rpcVars == <<connection, serverUp, call, executed, replied, verdict>>

Init ==
  /\ connection = 0 /\ serverUp = FALSE /\ call = 0
  /\ executed = {} /\ replied = {} /\ verdict = "none"

Connect ==
  /\ ~serverUp /\ verdict # "pending"
  /\ connection' = connection + 1 /\ serverUp' = TRUE /\ call' = 0
  /\ executed' = {} /\ replied' = {} /\ verdict' = "none"

Call ==
  /\ connection > 0 /\ verdict # "pending" /\ call < Calls
  /\ call' = call + 1 /\ verdict' = "pending"
  /\ UNCHANGED <<connection, serverUp, executed, replied>>

Execute ==
  /\ serverUp
  /\ \E c \in (1..call) \ executed :
       /\ 1..(c - 1) \subseteq executed
       /\ executed' = executed \cup {c}
  /\ UNCHANGED <<connection, serverUp, call, replied, verdict>>

Reply ==
  /\ serverUp
  /\ \E c \in executed \ replied : replied' = replied \cup {c}
  /\ UNCHANGED <<connection, serverUp, call, executed, verdict>>

Return ==
  /\ verdict = "pending" /\ call \in replied
  /\ verdict' = "answered"
  /\ UNCHANGED <<connection, serverUp, call, executed, replied>>

DeclareCrash ==
  /\ verdict = "pending" /\ ~serverUp /\ call \notin replied
  /\ verdict' = "crashed"
  /\ UNCHANGED <<connection, serverUp, call, executed, replied>>

GiveUp ==
  /\ verdict = "pending"
  /\ verdict' = "gaveup"
  /\ UNCHANGED <<connection, serverUp, call, executed, replied>>

ServerDies ==
  /\ serverUp
  /\ serverUp' = FALSE
  /\ UNCHANGED <<connection, call, executed, replied, verdict>>

Next == Connect \/ Call \/ Execute \/ Reply \/ Return \/ DeclareCrash
        \/ GiveUp \/ ServerDies

Spec == Init /\ [][Next]_rpcVars

=============================================================================
