----------------------------- MODULE HttpClient -----------------------------
(***************************************************************************)
(* nstl::http::Client (nstl/nstl/http_client.cpp): objects that own a curl *)
(* easy handle and a header list.  The options of a handle outlive the     *)
(* call that sets them: a request is sent with whatever is set by then.    *)
(*                                                                         *)
(* libcurl (external) is its easy handles: httpheader and errorbuffer are  *)
(* pointers it is given and follows during a transfer.  Not here: the      *)
(* options every request sets anew, in which no earlier call can be seen   *)
(* (url, method and its body, verification, bandwidth limit, redirects,    *)
(* keepalive, where the response goes), those that change no request (no   *)
(* signal, verbose), and a failing curl call, which throws.                *)
(***************************************************************************)
EXTENDS Integers, FiniteSets

CONSTANTS
  Clients,            \* Client objects
  Handles, Lists,     \* the easy handles and header lists that may be allocated
  Callbacks,          \* header callbacks
  Timeouts,           \* the timeouts requests are made with
  DefaultPeriod,      \* _bw_period of a new object
  Null

HttpAssumption ==
  /\ Null \notin Handles \cup Lists \cup Clients \cup Callbacks
  /\ Timeouts \subseteq Nat
  /\ DefaultPeriod \in Nat \ {0}

VARIABLES
  client,             \* each object: _curl, _headers, _cbs.line_cb, _bw_period (and _bw_speed)
  options,            \* the options of each handle; Null for one that is not allocated
  liveLists,          \* the allocated header lists
  request,            \* the transfer of the last step, if it made one
  asked,              \* history: the last timeout asked of a handle since it was new or reset
  cleared             \* history: the handles whose client called reset_hdrs() since then

httpVars == <<client, options, liveLists, request, asked, cleared>>

Moved == [curl |-> Null, headers |-> Null, cb |-> Null, period |-> DefaultPeriod]

\* The options of curl_easy_init and curl_easy_reset.
Defaults == [httpheader |-> Null, timeout |-> 0, errorbuffer |-> Null]

Init ==
  /\ client = [c \in Clients |-> Moved]
  /\ options = [h \in Handles |-> Null]
  /\ liveLists = {}
  /\ request = Null
  /\ asked = [h \in Handles |-> 0]
  /\ cleared = {}
-----------------------------------------------------------------------------
(* Life and moves.                                                         *)

Construct(c) ==
  /\ client[c].curl = Null
  /\ \E h \in Handles :
       /\ options[h] = Null
       /\ client' = [client EXCEPT ![c] = [Moved EXCEPT !.curl = h]]
       /\ options' = [options EXCEPT ![h] = [Defaults EXCEPT !.errorbuffer = c]]
  /\ request' = Null
  /\ UNCHANGED <<liveLists, asked, cleared>>

\* curl_easy_cleanup and curl_slist_free_all of what c owns.
Release(c) ==
  LET h == client[c].curl IN
  /\ options' = IF h = Null THEN options ELSE [options EXCEPT ![h] = Null]
  /\ liveLists' = liveLists \ {client[c].headers}
  /\ asked' = IF h = Null THEN asked ELSE [asked EXCEPT ![h] = 0]
  /\ cleared' = cleared \ {h}
  /\ request' = Null

Destruct(c) ==
  /\ Release(c)
  /\ client' = [client EXCEPT ![c] = Moved]

\* Mutant: the header list is not moved along.
AssignHandle(c, d) ==
  /\ c # d
  /\ Release(c)
  /\ client' = [client EXCEPT ![c].curl = client[d].curl, ![c].headers = Null,
                              ![c].cb = client[d].cb, ![d].curl = Null, ![d].cb = Null]

\* _assign: the error buffer is set on the handle that is given up, and the bandwidth
\* limits stay behind.
Assign(c, d) ==
  /\ c # d
  /\ Release(c)
  /\ client' = [client EXCEPT ![c].curl = client[d].curl, ![c].headers = client[d].headers,
                              ![c].cb = client[d].cb,
                              ![d].curl = Null, ![d].headers = Null, ![d].cb = Null]
-----------------------------------------------------------------------------
(* Settings.                                                               *)

\* curl_slist_append: a list of its own for the first header.
AddHeader(c) ==
  /\ client[c].curl # Null
  /\ client[c].headers = Null
  /\ \E l \in Lists \ liveLists :
       /\ client' = [client EXCEPT ![c].headers = l]
       /\ liveLists' = liveLists \cup {l}
  /\ request' = Null
  /\ UNCHANGED <<options, asked, cleared>>

ResetHdrs(c) ==
  /\ client[c].headers # Null
  /\ liveLists' = liveLists \ {client[c].headers}
  /\ client' = [client EXCEPT ![c].headers = Null]
  /\ cleared' = cleared \cup {client[c].curl}
  /\ request' = Null
  /\ UNCHANGED <<options, asked>>

\* reset(): curl_easy_reset
Reset(c) ==
  /\ client[c].curl # Null
  /\ options' = [options EXCEPT ![client[c].curl] = Defaults]
  /\ asked' = [asked EXCEPT ![client[c].curl] = 0]
  /\ cleared' = cleared \ {client[c].curl}
  /\ request' = Null
  /\ UNCHANGED <<client, liveLists>>

MinimumBandwidth(c, period) ==
  /\ client[c].curl # Null
  /\ client' = [client EXCEPT ![c].period = period]
  /\ request' = Null
  /\ UNCHANGED <<options, liveLists, asked, cleared>>

\* setHdrCb
SetHdrCb(c, cb) ==
  /\ client[c].curl # Null
  /\ client' = [client EXCEPT ![c].cb = cb]
  /\ request' = Null
  /\ UNCHANGED <<options, liveLists, asked, cleared>>
-----------------------------------------------------------------------------
(* Requests.                                                               *)

\* _common: a timeout of zero keeps the one that is set.
Common(c, timeout) ==
  [options[client[c].curl] EXCEPT
     !.timeout = IF timeout > 0 THEN timeout ELSE @,
     !.httpheader = IF client[c].headers # Null THEN client[c].headers ELSE @]

\* get() and post(): curl_easy_perform sends what is set.
Request(c, timeout) ==
  LET h == client[c].curl IN
  /\ h # Null
  /\ options' = [options EXCEPT ![h] = Common(c, timeout)]
  /\ request' = [client |-> c, sent |-> Common(c, timeout)]
  /\ asked' = [asked EXCEPT ![h] = IF timeout > 0 THEN timeout ELSE @]
  /\ cleared' = IF client[c].headers # Null THEN cleared \ {h} ELSE cleared
  /\ UNCHANGED <<client, liveLists>>

Next ==
  \E c \in Clients :
    \/ Construct(c) \/ Destruct(c) \/ AddHeader(c) \/ ResetHdrs(c) \/ Reset(c)
    \/ \E p \in {0, DefaultPeriod} : MinimumBandwidth(c, p)
    \/ \E cb \in Callbacks : SetHdrCb(c, cb)
    \/ \E d \in Clients : Assign(c, d)
    \/ \E t \in Timeouts : Request(c, t)

Spec == Init /\ [][Next]_httpVars
-----------------------------------------------------------------------------
(* Properties.                                                             *)

(***************************************************************************)
(* However clients are used, moved, reset and destroyed: every handle and  *)
(* every header list that is allocated is one client's own; until          *)
(* reset_hdrs() a handle points at no list but its own client's; and a     *)
(* request has the timeout its call asked for or, for a timeout of zero,   *)
(* the one the last call with a timeout asked for since the handle was new *)
(* or reset(), by whichever client.                                        *)
(***************************************************************************)
ClientOwnsWhatItSends ==
  /\ \A h \in Handles :
       Cardinality({c \in Clients : client[c].curl = h}) = IF options[h] = Null THEN 0 ELSE 1
  /\ \A l \in Lists :
       Cardinality({c \in Clients : client[c].headers = l}) = IF l \in liveLists THEN 1 ELSE 0
  /\ \A c \in Clients :
       client[c].curl # Null /\ client[c].curl \notin cleared =>
         options[client[c].curl].httpheader \in {Null, client[c].headers}
  /\ request # Null => request.sent.timeout = asked[client[request.client].curl]

(***************************************************************************)
(* README.md:84: the client is "movable" and has "`reset_hdrs()` to clear  *)
(* just the accumulated headers".  The headers a request carries, or at    *)
(* least the buffer its error message is written to, are those of the      *)
(* client that makes it: the weaker of the two claims, so that what        *)
(* refutes it refutes both.                                                *)
(***************************************************************************)
PointersAreTheClients ==
  request # Null =>
    \/ request.sent.httpheader = client[request.client].headers
    \/ request.sent.errorbuffer \in {Null, request.client}
=============================================================================
