------------------------------- MODULE Socks5 -------------------------------
(***************************************************************************)
(* The SOCKS5 handshake between the client of core/src/hev-socks5-client.c *)
(* and the server of core/src/hev-socks5-server.c, with the objects of     *)
(* hev-socks5-authenticator.c and hev-socks5-user.c the server refers to.  *)
(*                                                                         *)
(* A message is a sequence of three parts or of two, read part by part.    *)
(* All messages of a handshake fit into the socket buffers, so a send      *)
(* writes its whole message or fails.                                      *)
(***************************************************************************)
EXTENDS Integers, Sequences

CONSTANTS
  User,           \* users of the authenticator
  Stranger,       \* a name the authenticator does not know
  Pass(_),        \* the password of a user
  Wrong,          \* a password nobody has
  NoCred          \* no user and no password

Right == {<<u, Pass(u)>> : u \in User}
Cred == Right \cup {<<u, Wrong>> : u \in User} \cup {<<Stranger, Wrong>>}
Type == {"TCP", "UDP_IN_TCP", "UDP_IN_UDP"}

(* A wrong password is wrong, and no user is mistaken for a mark of obj.   *)
ASSUME Socks5Assumption ==
  /\ Stranger \notin User /\ \A u \in User : Pass(u) # Wrong
  /\ NoCred \notin Cred /\ {"none", "auth"} \cap User = {}

VARIABLES
  \* client
  cpc,            \* the call that runs next or waits, "ok", "fail", "closed"
  pipeline, type, cred,
  cin,            \* parts of the answer already read
  owner,          \* of the request's address: "self", "none", "leak"
  \* the connection: parts under way, and the ends that were closed
  c2s, s2c, cshut, sshut,
  \* server
  spc, sin,
  guarded,        \* it was given the authenticator
  method,         \* what read_auth_method returned
  req, rep,       \* the request, and the reply to it
  stype,          \* HevSocks5.type of the server
  obj,            \* the union of obj, auth and user: "none", "auth" or a user
  \* objects
  users,          \* the tree of the authenticator
  aref, uref,     \* reference counts
  admin,          \* the application still holds the authenticator
  \* history
  excuse          \* what may make a handshake fail

options == <<pipeline, type, cred>>
client  == <<cpc, options, cin, owner>>
server  == <<spc, sin, guarded, method, req, rep, stype>>
objects == <<obj, users, aref, uref, admin>>
net     == <<c2s, s2c, cshut, sshut>>
vars == <<client, server, objects, net, excuse>>

-----------------------------------------------------------------------------
(* Messages.                                                               *)

Command(t) == CASE t = "TCP" -> "CONNECT" [] t = "UDP_IN_TCP" -> "FWD_UDP"
                [] t = "UDP_IN_UDP" -> "UDP_ASC"

Methods == <<"v5", "one", IF cred = NoCred THEN "NONE" ELSE "USER">>
Creds   == IF cred = NoCred THEN <<>> ELSE <<"v1", cred[1], cred[2]>>
Request == <<"v5", Command(type), "addr">>

CWrites == {"w_methods", "w_creds", "w_request"}
CReads  == {"r_method", "r_creds", "r_response"}
SWrites == {"w_method", "w_user", "w_response"}
SReads  == {"r_methods", "r_user", "r_request"}

Message(p) ==
  CASE p = "w_methods" -> Methods [] p = "w_creds" -> Creds [] p = "w_request" -> Request

Init ==
  /\ pipeline \in BOOLEAN /\ type \in Type /\ cred \in Cred \cup {NoCred}
  /\ cpc = "w_methods" /\ cin = <<>>
  /\ owner = IF type = "TCP" THEN "self" ELSE "none"
  /\ c2s = <<>> /\ s2c = <<>> /\ cshut = FALSE /\ sshut = FALSE
  /\ spc = "r_methods" /\ sin = <<>> /\ guarded \in BOOLEAN
  /\ method = "DENY" /\ req = <<>> /\ rep = "SUCC" /\ stype = "NONE"
  /\ obj = IF guarded THEN "auth" ELSE "none"
  /\ users = User /\ admin = TRUE
  /\ aref = (IF guarded THEN 2 ELSE 1) /\ uref = [u \in User |-> 1]
  /\ excuse = {}

-----------------------------------------------------------------------------
(* hev_socks5_client_handshake_standard, _pipeline                         *)

(* Mutant: the pipelined client skips the answer to its credentials.       *)
After_Skip(p, m) ==
  CASE p = "w_methods" -> IF pipeline THEN "w_creds" ELSE "r_method"
    [] p = "w_creds" -> IF pipeline THEN "w_request" ELSE "r_creds"
    [] p = "w_request" -> IF pipeline THEN "r_method" ELSE "r_response"
    [] p = "r_method" -> IF pipeline THEN "r_response"
                         ELSE IF m = "USER" THEN "w_creds" ELSE "w_request"
    [] p = "r_creds" -> IF pipeline THEN "r_response" ELSE "w_request"
    [] p = "r_response" -> "ok"

(* Mutant: the other client reads the answer to credentials it never sent. *)
After_Early(p, m) ==
  CASE p = "w_methods" -> IF pipeline THEN "w_creds" ELSE "r_method"
    [] p = "w_creds" -> IF pipeline THEN "w_request" ELSE "r_creds"
    [] p = "w_request" -> IF pipeline THEN "r_method" ELSE "r_response"
    [] p = "r_method" ->
         IF m = "USER" THEN "r_creds"
         ELSE (IF pipeline THEN "r_response" ELSE "w_request")
    [] p = "r_creds" -> IF pipeline THEN "r_response" ELSE "w_request"
    [] p = "r_response" -> "ok"

(* The call after p; m is the method the server chose.                     *)
After(p, m) ==
  CASE p = "w_methods" -> IF pipeline THEN "w_creds" ELSE "r_method"
    [] p = "w_creds" -> IF pipeline THEN "w_request" ELSE "r_creds"
    [] p = "w_request" -> IF pipeline THEN "r_method" ELSE "r_response"
    [] p = "r_method" ->
         IF m = "USER" THEN (IF pipeline THEN "r_creds" ELSE "w_creds")
         ELSE (IF pipeline THEN "r_response" ELSE "w_request")
    [] p = "r_creds" -> IF pipeline THEN "r_response" ELSE "w_request"
    [] p = "r_response" -> "ok"

CGo(p) == cpc' = p /\ cin' = <<>> /\ UNCHANGED options

(* The session ends and hev_socks5_client_tcp_destruct frees the address.  *)
CFail(o) == CGo("fail") /\ cshut' = TRUE /\ owner' = IF o = "self" THEN "none" ELSE o

ServerSide == UNCHANGED <<server, objects, sshut>>

(* write_request takes the address and frees it once it was sent.          *)
Keep(p) == IF p = "w_request" THEN "none" ELSE owner

CSend ==
  /\ cpc \in CWrites
  /\ c2s' = c2s \o Message(cpc)
  /\ CGo(After(cpc, "none"))
  /\ owner' = Keep(cpc)
  /\ ServerSide /\ UNCHANGED <<s2c, cshut, excuse>>

(* The server closed: an error.  write_request does not free the address.  *)
CSendFail ==
  /\ cpc \in CWrites /\ Message(cpc) # <<>> /\ sshut
  /\ CFail(IF cpc = "w_request" THEN "leak" ELSE owner)
  /\ ServerSide /\ UNCHANGED <<c2s, s2c, excuse>>

(* Mutant: the reply is not looked at.                                     *)
Accept_Any(p, a) ==
  CASE p = "r_method" -> a[1] = "v5" /\ a[2] \in {"NONE", "USER"}
    [] p = "r_creds" -> a = <<"v1", "SUCC">>
    [] p = "r_response" -> a[1] = "v5"

Accept(p, a) ==
  CASE p = "r_method" -> a[1] = "v5" /\ a[2] \in {"NONE", "USER"}
    [] p = "r_creds" -> a = <<"v1", "SUCC">>
    [] p = "r_response" -> a[1] = "v5" /\ a[2] = "SUCC"

(* The address of a response is read only if the reply is accepted.        *)
Complete(p, a) ==
  \/ Len(a) = 3
  \/ Len(a) = 2 /\ (p = "r_response" => ~Accept(p, a))

(* set_upstream_addr may fail for a client of type UDP_IN_UDP.             *)
CRecv ==
  /\ cpc \in CReads /\ s2c # <<>>
  /\ s2c' = Tail(s2c)
  /\ LET a == Append(cin, Head(s2c))
     IN  \/ /\ ~Complete(cpc, a)
            /\ cin' = a /\ UNCHANGED <<cpc, options, owner, cshut, excuse>>
         \/ /\ Complete(cpc, a) /\ Accept(cpc, a)
            /\ CGo(After(cpc, a[2]))
            /\ UNCHANGED <<owner, cshut, excuse>>
         \/ /\ Complete(cpc, a) /\ ~Accept(cpc, a)
            /\ CFail(owner) /\ UNCHANGED excuse
         \/ /\ Complete(cpc, a) /\ cpc = "r_response" /\ type = "UDP_IN_UDP"
            /\ CFail(owner) /\ excuse' = excuse \cup {"socket"}
  /\ ServerSide /\ UNCHANGED c2s

(* Nothing more arrives: the server closed, and what it did not read makes *)
(* the close a reset.                                                      *)
CRecvFail ==
  /\ cpc \in CReads /\ sshut /\ (s2c = <<>> \/ c2s # <<>>)
  /\ CFail(owner)
  /\ ServerSide /\ UNCHANGED <<c2s, s2c, excuse>>

(* The time limit of a read, or hev_socks5_session_terminate.              *)
CExpire ==
  /\ cpc \in CReads
  /\ CFail(owner)
  /\ excuse' = excuse \cup {"limit"}
  /\ ServerSide /\ UNCHANGED <<c2s, s2c>>

(* The session of a client that succeeded ends.                            *)
CClose ==
  /\ cpc = "ok"
  /\ CGo("closed") /\ cshut' = TRUE
  /\ ServerSide /\ UNCHANGED <<owner, c2s, s2c, excuse>>

-----------------------------------------------------------------------------
(* The objects.                                                            *)

(* hev_object_unref of the authenticator; hev_socks5_authenticator_clear   *)
(* follows the last one.  held are the counts of the users before it.      *)
UnrefAuth(held) ==
  /\ aref' = aref - 1
  /\ users' = IF aref = 1 THEN {} ELSE users
  /\ uref' = [u \in User |-> held[u] - IF aref = 1 /\ u \in users THEN 1 ELSE 0]

(* Mutant: the password is not compared.                                   *)
Known_Name(name, pass) == name \in users

(* hev_socks5_authenticator_get, hev_socks5_user_check                     *)
Known(name, pass) == name \in users /\ pass = Pass(name)

(* Mutant: the session does not refer to its user.                         *)
TakeUser_NoRef(u) == obj' = u /\ UnrefAuth(uref) /\ UNCHANGED admin

(* The session refers to its user instead of the authenticator.            *)
TakeUser(u) ==
  obj' = u /\ UnrefAuth([uref EXCEPT ![u] = @ + 1]) /\ UNCHANGED admin

(* hev_socks5_server_destruct                                              *)
Release ==
  /\ obj' = "none" /\ UNCHANGED admin
  /\ CASE obj = "none" -> UNCHANGED <<aref, users, uref>>
       [] obj = "auth" -> UnrefAuth(uref)
       [] OTHER -> uref' = [uref EXCEPT ![obj] = @ - 1] /\ UNCHANGED <<aref, users>>

(* The application deletes a user, adds one or gives up the authenticator. *)
DelUser(u) ==
  /\ admin /\ u \in users
  /\ users' = users \ {u}
  /\ uref' = [uref EXCEPT ![u] = @ - 1]
  /\ excuse' = excuse \cup {"deleted"}
  /\ UNCHANGED <<client, server, obj, aref, admin, net>>

AddUser(u) ==
  /\ admin /\ uref[u] = 0
  /\ users' = users \cup {u}
  /\ uref' = [uref EXCEPT ![u] = 1]
  /\ UNCHANGED <<client, server, obj, aref, admin, net, excuse>>

DropAuth ==
  /\ admin /\ admin' = FALSE
  /\ UnrefAuth(uref)
  /\ UNCHANGED <<client, server, obj, net, excuse>>

-----------------------------------------------------------------------------
(* hev_socks5_server_handshake                                             *)

ClientSide == UNCHANGED <<client, cshut>>

SGo(p) == spc' = p /\ sin' = <<>> /\ UNCHANGED guarded

SEnd ==
  /\ SGo("done") /\ sshut' = TRUE /\ Release
  /\ UNCHANGED <<method, req, rep, stype>>

(* hev_socks5_server_read_auth_method                                      *)
Choose(a) ==
  LET m == IF obj = "none" THEN "NONE" ELSE "USER"
  IN  IF a[1] = "v5" /\ a[3] = m THEN m ELSE "DENY"

(* hev_socks5_server_read_auth_user                                        *)
ReadUser(a) ==
  IF a[1] = "v1" /\ Known(a[2], a[3]) THEN TakeUser(a[2]) /\ UNCHANGED method
  ELSE method' = "DENY" /\ UNCHANGED objects

SRecv ==
  /\ spc \in SReads /\ c2s # <<>>
  /\ c2s' = Tail(c2s)
  /\ LET a == Append(sin, Head(c2s))
     IN  \/ /\ Len(a) < 3
            /\ sin' = a /\ UNCHANGED <<spc, guarded, method, req, rep, objects>>
         \/ /\ Len(a) = 3 /\ spc = "r_methods"
            /\ method' = Choose(a)
            /\ SGo("w_method") /\ UNCHANGED <<req, rep, objects>>
         \/ /\ Len(a) = 3 /\ spc = "r_user"
            /\ ReadUser(a)
            /\ SGo("w_user") /\ UNCHANGED <<req, rep>>
         \/ /\ Len(a) = 3 /\ spc = "r_request"
            /\ req' = a
            /\ rep' = IF a[1] = "v5" THEN "SUCC" ELSE "FAIL"
            /\ SGo("act") /\ UNCHANGED <<method, objects>>
  /\ ClientSide /\ UNCHANGED <<s2c, sshut, stype, excuse>>

(* A read ends early.  A broken method or user message is answered, and so *)
(* is a request of which the first five bytes came.                        *)
SRecvFail ==
  /\ spc \in SReads
  /\ \/ cshut /\ c2s = <<>> /\ UNCHANGED excuse
     \/ ~cshut /\ excuse' = excuse \cup {"limit"}
  /\ \/ /\ spc = "r_methods" /\ method' = "DENY"
        /\ SGo("w_method") /\ UNCHANGED <<req, rep, objects, sshut>>
     \/ /\ spc = "r_user" /\ method' = "DENY"
        /\ SGo("w_user") /\ UNCHANGED <<req, rep, objects, sshut>>
     \/ /\ spc = "r_request" /\ Len(sin) = 2 /\ rep' = "ADDR"
        /\ SGo("w_response") /\ UNCHANGED <<method, req, objects, sshut>>
     \/ /\ spc = "r_request" /\ Len(sin) < 2 /\ SEnd
  /\ ClientSide /\ UNCHANGED <<c2s, s2c, stype>>

(* The type that follows a command, even if serving it fails.              *)
Served(c) ==
  CASE c = "CONNECT" -> "TCP" [] c = "UDP_ASC" -> "UDP_IN_UDP"
    [] c = "FWD_UDP" -> "UDP_IN_TCP" [] OTHER -> stype

(* Resolving the name, hev_socks5_server_connect, hev_socks5_server_bind   *)
Reply(ok, c) ==
  CASE ok = "name" -> "ADDR"
    [] ok # "name" /\ Served(c) = stype -> "IMPL"
    [] ok = "ok" -> "SUCC"
    [] ok = "no" -> IF c = "CONNECT" THEN "HOST" ELSE "FAIL"

Act(ok) ==
  /\ spc = "act"
  /\ rep' = IF rep = "SUCC" THEN Reply(ok, req[2]) ELSE rep
  /\ stype' = IF rep = "SUCC" /\ ok # "name" THEN Served(req[2]) ELSE stype
  /\ excuse' = IF ok = "ok" THEN excuse ELSE excuse \cup {"destination"}
  /\ SGo("w_response")
  /\ ClientSide /\ UNCHANGED <<method, req, objects, c2s, s2c, sshut>>

Answer(p) ==
  CASE p = "w_method" -> <<"v5", method>>
    [] p = "w_user" -> <<"v1", IF method = "USER" THEN "SUCC" ELSE "FAIL">>
    [] p = "w_response" -> <<"v5", rep, "bound">>

(* What follows a message that was sent.                                   *)
Goes(p) ==
  CASE p = "w_method" -> (CASE method = "USER" -> "r_user" [] method = "NONE" -> "r_request"
                            [] OTHER -> "done")
    [] p = "w_user" -> IF method = "USER" THEN "r_request" ELSE "done"
    [] p = "w_response" -> IF rep = "SUCC" THEN "serve" ELSE "done"

SSend ==
  /\ spc \in SWrites
  /\ s2c' = s2c \o Answer(spc)
  /\ \/ Goes(spc) = "done" /\ SEnd
     \/ /\ Goes(spc) # "done" /\ SGo(Goes(spc))
        /\ UNCHANGED <<method, req, rep, stype, objects, sshut>>
  /\ ClientSide /\ UNCHANGED <<c2s, excuse>>

SSendFail ==
  /\ spc \in SWrites /\ cshut
  /\ SEnd
  /\ ClientSide /\ UNCHANGED <<c2s, s2c, excuse>>

(* hev_socks5_server_service ends, and with it the session.                *)
ServeEnd ==
  /\ spc = "serve"
  /\ SEnd
  /\ ClientSide /\ UNCHANGED <<c2s, s2c, excuse>>

-----------------------------------------------------------------------------
CStep == CSend \/ CRecv \/ CRecvFail
SStep == SSend \/ SRecv \/ (cshut /\ SRecvFail) \/ \E ok \in {"ok", "no", "name"} : Act(ok)
Done == cpc \in {"closed", "fail"} /\ spc = "done"
Finished == Done /\ ~admin /\ UNCHANGED vars

Next ==
  \/ CSend \/ CSendFail \/ CRecv \/ CRecvFail \/ CExpire \/ CClose
  \/ SSend \/ SSendFail \/ SRecv \/ SRecvFail \/ ServeEnd
  \/ \E ok \in {"ok", "no", "name"} : Act(ok)
  \/ \E u \in User : DelUser(u) \/ AddUser(u)
  \/ DropAuth \/ Finished

Spec == Init /\ [][Next]_vars

(* Both sides run and read what was sent or that the other side closed; no *)
(* time limit is needed.                                                   *)
FairSpec == Spec /\ WF_vars(CStep) /\ WF_vars(SStep)

-----------------------------------------------------------------------------
(* Properties.                                                             *)

(* Types of the state.  At most one reference to a user and one to the     *)
(* authenticator are held beside the tree and the application.             *)
TypeOK ==
  /\ cpc \in CWrites \cup CReads \cup {"ok", "fail", "closed"}
  /\ spc \in SWrites \cup SReads \cup {"act", "serve", "done"}
  /\ owner \in {"self", "none", "leak"}
  /\ method \in {"DENY", "NONE", "USER"} /\ stype \in Type \cup {"NONE"}
  /\ rep \in {"SUCC", "FAIL", "HOST", "ADDR", "IMPL"}
  /\ Len(cin) < 3 /\ Len(sin) < 3 /\ Len(c2s) <= 9 /\ Len(s2c) <= 7
  /\ obj \in {"none", "auth"} \cup User /\ users \subseteq User
  /\ aref \in 0..2 /\ \A u \in User : uref[u] \in 0..2

(* A client whose handshake succeeds has the server at work for exactly    *)
(* its request: the pipelined answers are read in step.                    *)
Agreement ==
  cpc = "ok" => spc \in {"serve", "done"} /\ req = Request /\ stype = type /\ rep = "SUCC"

(* A server that was given an authenticator serves only a client that gave *)
(* a user and his password, and refers to that user.                       *)
Authentic ==
  spc = "serve" => req = Request /\ IF guarded THEN cred \in Right /\ obj = cred[1] ELSE obj = "none"

(* Every reference is accounted for: the tree, the application and the     *)
(* session hold one each.  So nothing the session refers to is freed,      *)
(* whatever the application deletes while the handshake waits, and nothing *)
(* is left over when all are done.                                         *)
RefsExact ==
  LET One(b) == IF b THEN 1 ELSE 0
  IN  /\ aref = One(admin) + One(obj = "auth")
      /\ \A u \in User : uref[u] = One(u \in users) + One(obj = u)
      /\ aref = 0 => users = {}

(* The address of the request is not freed twice nor lost, unless the      *)
(* request could not be written: write_request then loses it.              *)
AddressOnce ==
  /\ owner = "self" => cpc \in CWrites \cup {"r_method", "r_creds"}
  /\ owner = "leak" => cpc = "fail" /\ spc = "done" /\ req = <<>>
  /\ cpc = "w_request" /\ type = "TCP" => owner = "self"

(* No object and no address is freed too early, twice or never, but for    *)
(* that one loss.                                                          *)
OwnershipExact == TypeOK /\ RefsExact /\ AddressOnce

(* With the credentials the server wants, only a time limit, a deleted     *)
(* user, the destination or a socket can make the handshake fail.          *)
NoFalseRefusal ==
  cpc = "fail" /\ excuse = {} => IF guarded THEN cred \notin Right ELSE cred # NoCred

(* The handshake ends on both sides without the help of a time limit:      *)
(* neither waits for a message the other one will not send.                *)
Ends == <>(cpc \in {"ok", "fail", "closed"}) /\ <>(spc \in {"serve", "done"})
=============================================================================
