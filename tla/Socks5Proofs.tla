---------------------------- MODULE Socks5Proofs ----------------------------
(***************************************************************************)
(* Proofs about Socks5, for every set of users and passwords.              *)
(*                                                                         *)
(* Whatever the server chooses, the parts a client sends are a prefix of   *)
(* one stream: its methods, its credentials, its request.  The parts under *)
(* way continue what the server has read of that stream, and the answers   *)
(* under way continue what the client has read of the answers.  HandInv    *)
(* states both positions, so that a part is never read as another one.     *)
(***************************************************************************)
EXTENDS Socks5, TLAPS

(* Lengths of the credentials and of the answer to them.                   *)
CL == IF cred = NoCred THEN 0 ELSE 3
AL == IF cred = NoCred THEN 0 ELSE 2

(* The one method the client offers.                                       *)
Offered == IF cred = NoCred THEN "NONE" ELSE "USER"

(* The k-th part of what the client sends.                                 *)
Stream(k) ==
  IF k <= 3 THEN Methods[k]
  ELSE IF k <= 3 + CL THEN Creds[k - 3] ELSE Request[k - 3 - CL]

(* How many parts the client has sent, and the server has read.            *)
Wrote ==
  IF cpc = "w_methods" THEN 0
  ELSE IF cpc = "w_creds" \/ (cpc = "r_method" /\ ~pipeline) THEN 3
  ELSE IF cpc = "w_request" \/ (cpc = "r_creds" /\ ~pipeline) THEN 3 + CL
  ELSE 6 + CL
SBase == IF spc = "r_methods" THEN 0
         ELSE IF spc \in {"w_method", "r_user"} THEN 3 ELSE 3 + CL
SPos == SBase + Len(sin)

(* How many parts the server has answered, and the client has read.        *)
Answered ==
  IF spc \in {"r_methods", "w_method"} THEN 0
  ELSE IF spc \in {"r_user", "w_user"} THEN 2
  ELSE IF spc \in {"r_request", "act", "w_response"} THEN 2 + AL ELSE 5 + AL
CBase ==
  IF cpc \in {"w_methods", "r_method"} \/ (pipeline /\ cpc \in CWrites) THEN 0
  ELSE IF cpc \in {"w_creds", "r_creds"} THEN 2 ELSE 2 + AL
CPos == CBase + Len(cin)

CEnded == cpc \in {"ok", "fail", "closed"}

(* What the k-th part of the answers may be.                               *)
Served5 == req = Request /\ stype = type
AnswerAt(k, x) ==
  /\ k = 1 => x = "v5"
  /\ k = 2 => x \in {Offered, "DENY"}
  /\ k = 3 /\ AL = 2 => x = "v1"
  /\ k = 4 /\ AL = 2 => x \in {"SUCC", "FAIL"}
  /\ k = 3 + AL => x = "v5"
  /\ k = 4 + AL => spc \in {"serve", "done"} /\ x = rep /\ (rep = "SUCC" => Served5)

Word == {"v5", "v1", "DENY", "NONE", "USER", "SUCC", "FAIL", "HOST", "ADDR", "IMPL", "bound"}
Part == {"v5", "one", "NONE", "USER", "v1", "CONNECT", "FWD_UDP", "UDP_ASC", "addr"}
          \cup User \cup {Stranger, Wrong} \cup {Pass(u) : u \in User}

(* Types, and what is set only while a side reads.                         *)
Shapes ==
  /\ pipeline \in BOOLEAN /\ type \in Type /\ cred \in Cred \cup {NoCred}
  /\ cpc \in CWrites \cup CReads \cup {"ok", "fail", "closed"}
  /\ spc \in SWrites \cup SReads \cup {"act", "serve", "done"}
  /\ method \in {"DENY", "NONE", "USER"} /\ stype \in Type \cup {"NONE"}
  /\ rep \in {"SUCC", "FAIL", "HOST", "ADDR", "IMPL"}
  /\ guarded \in BOOLEAN
  /\ cin \in Seq(Word) /\ s2c \in Seq(Word) /\ sin \in Seq(Part) /\ c2s \in Seq(Part)
  /\ Len(cin) < 3 /\ Len(sin) < 3
  /\ cpc \notin CReads => cin = <<>>
  /\ cpc \in {"r_method", "r_creds"} => Len(cin) < 2
  /\ spc \notin SReads => sin = <<>>
  /\ sshut = (spc = "done") /\ cshut = (cpc \in {"fail", "closed"})
  /\ Len(c2s) <= Wrote /\ Len(s2c) <= Answered

(* The references, with their types.                                       *)
Refs ==
  /\ obj \in {"none", "auth"} \cup User /\ users \subseteq User /\ admin \in BOOLEAN
  /\ aref \in 0..2 /\ uref \in [User -> 0..2]
  /\ RefsExact

(* The address belongs to the client until the request is sent.            *)
Address ==
  /\ owner \in {"self", "none", "leak"}
  /\ owner = "self" => cpc \in CWrites \/ (~pipeline /\ cpc \in {"r_method", "r_creds"})
  /\ owner = "leak" => cpc = "fail" /\ spc = "done" /\ req = <<>>
  /\ type = "TCP" /\ (cpc \in CWrites \/ (~pipeline /\ cpc \in {"r_method", "r_creds"}))
       => owner = "self"

(* The way to the server.                                                  *)
Reading5 == spc \in SReads \/ (spc \in {"w_method", "w_user"} /\ method # "DENY")
UpOK ==
  /\ Reading5 =>
       /\ req = <<>> /\ rep = "SUCC"
       /\ SPos + Len(c2s) <= Wrote /\ (cpc # "fail" => SPos + Len(c2s) = Wrote)
       /\ \A i \in 1..Len(sin) : sin[i] = Stream(SBase + i)
       /\ \A i \in 1..Len(c2s) : c2s[i] = Stream(SPos + i)
  /\ spc \in {"w_method", "w_user"} => req = <<>>
  /\ req # <<>> => req = Request /\ c2s = <<>> /\ Wrote = 6 + CL

(* The way to the client.                                                  *)
DownOK ==
  /\ ~CEnded =>
       /\ CPos + Len(s2c) <= Answered /\ (spc # "done" => CPos + Len(s2c) = Answered)
       /\ \A i \in 1..Len(cin) : AnswerAt(CBase + i, cin[i])
       /\ \A i \in 1..Len(s2c) : AnswerAt(CPos + i, s2c[i])
  /\ cpc = "r_creds" \/ (cpc = "w_creds" /\ ~pipeline) => AL = 2
  /\ cpc = "r_response" /\ Len(cin) = 2 => cin[2] = "SUCC"
  /\ cpc \in {"ok", "closed"} => spc \in {"serve", "done"} /\ rep = "SUCC" /\ Served5

(* What the server knows at each of its steps.                             *)
Entitled == IF guarded THEN cred \in Right /\ obj = cred[1] ELSE obj = "none" /\ cred = NoCred
ServerOK ==
  /\ spc \in {"r_methods", "w_method"} => obj = IF guarded THEN "auth" ELSE "none"
  /\ spc = "w_method" /\ method # "DENY" => method = Offered /\ (method = "USER") = guarded
  /\ spc \in {"r_user", "w_user"} => guarded /\ cred # NoCred
  /\ spc = "r_user" => obj = "auth" /\ method = "USER"
  /\ spc = "w_user" => method \in {"USER", "DENY"} /\ (method = "USER" => Entitled)
  /\ spc \in {"r_request", "act", "w_response", "serve"} => Entitled
  /\ spc = "act" => req = Request /\ rep \in {"SUCC", "FAIL"}
  /\ spc \notin {"w_response", "serve", "done"} => stype = "NONE"
  /\ spc = "w_response" /\ rep = "SUCC" => Served5
  /\ spc = "serve" => rep = "SUCC" /\ Served5

(* With the credentials the server wants, and nothing that excuses a       *)
(* failure, every step succeeds.                                           *)
Granted == excuse = {} /\ IF guarded THEN cred \in Right ELSE cred = NoCred
SmoothOK ==
  Granted =>
    /\ cpc # "fail" /\ rep = "SUCC"
    /\ spc = "w_method" => method = Offered
    /\ spc = "w_user" => method = "USER"
    /\ obj = "auth" => users = User
    /\ admin => users = User
    /\ spc \in {"w_response", "serve", "done"} => req = Request
    /\ spc = "done" /\ ~CEnded => CPos + Len(s2c) = Answered
    /\ \A i \in 1..Len(s2c) : s2c[i] # "DENY" /\ s2c[i] # "FAIL"

(* The inductive invariant.                                                *)
HandInv == Shapes /\ Refs /\ Address /\ UpOK /\ DownOK /\ ServerOK /\ SmoothOK

-----------------------------------------------------------------------------
(* Lemmas about sequences and about the constants.                         *)

(* Reading the first part of what is under way.                            *)
LEMMA Popped ==
  ASSUME NEW S, NEW q \in Seq(S), q # <<>>
  PROVE  /\ Len(q) \in Nat /\ Len(q) >= 1
         /\ Head(q) = q[1] /\ q[1] \in S
         /\ Tail(q) \in Seq(S) /\ Len(Tail(q)) = Len(q) - 1
         /\ \A i \in 1..Len(Tail(q)) : Tail(q)[i] = q[i + 1]
OBVIOUS

(* A part more at the end.                                                 *)
LEMMA Pushed ==
  ASSUME NEW S, NEW q \in Seq(S), NEW x \in S
  PROVE  /\ Append(q, x) \in Seq(S) /\ Len(Append(q, x)) = Len(q) + 1
         /\ Append(q, x)[Len(q) + 1] = x
         /\ \A i \in 1..Len(q) : Append(q, x)[i] = q[i]
OBVIOUS

(* A message more at the end.                                              *)
LEMMA Joined ==
  ASSUME NEW S, NEW q \in Seq(S), NEW m \in Seq(S)
  PROVE  /\ q \o m \in Seq(S) /\ Len(q \o m) = Len(q) + Len(m)
         /\ Len(q) \in Nat /\ Len(m) \in Nat
         /\ \A i \in 1..Len(q) : (q \o m)[i] = q[i]
         /\ \A i \in 1..Len(m) : (q \o m)[Len(q) + i] = m[i]
OBVIOUS

(* A message of two parts.                                                 *)
LEMMA OfTwo ==
  ASSUME NEW S, NEW q \in Seq(S), Len(q) = 2
  PROVE  q = <<q[1], q[2]>>
OBVIOUS

(* A message of three parts.                                               *)
LEMMA OfThree ==
  ASSUME NEW S, NEW q \in Seq(S), Len(q) = 3
  PROVE  q = <<q[1], q[2], q[3]>>
OBVIOUS

(* The credentials of a client.                                            *)
LEMMA Credentials ==
  ASSUME cred \in Cred
  PROVE  /\ cred # NoCred /\ cred = <<cred[1], cred[2]>>
         /\ cred[1] \in User \cup {Stranger}
         /\ cred[2] \in {Wrong} \cup {Pass(u) : u \in User}
         /\ cred \in Right => cred[1] \in User /\ cred[2] = Pass(cred[1])
<1>1. cred # NoCred
  BY Socks5Assumption
<1>2. CASE cred \in Right
  <2>1. PICK u \in User : cred = <<u, Pass(u)>>
    BY <1>2 DEF Right
  <2> QED BY <1>1, <2>1
<1>3. CASE cred \in {<<u, Wrong>> : u \in User}
  <2>1. PICK u \in User : cred = <<u, Wrong>>
    BY <1>3
  <2>2. cred \notin Right
    <3> SUFFICES ASSUME cred \in Right PROVE FALSE
      OBVIOUS
    <3>1. PICK v \in User : cred = <<v, Pass(v)>>
      BY DEF Right
    <3> QED BY <2>1, <3>1, Socks5Assumption
  <2> QED BY <1>1, <2>1, <2>2
<1>4. CASE cred = <<Stranger, Wrong>>
  <2>1. cred \notin Right
    <3> SUFFICES ASSUME cred \in Right PROVE FALSE
      OBVIOUS
    <3>1. PICK v \in User : cred = <<v, Pass(v)>>
      BY DEF Right
    <3> QED BY <1>4, <3>1, Socks5Assumption
  <2> QED BY <1>1, <1>4, <2>1
<1> QED BY <1>2, <1>3, <1>4 DEF Cred

(* The messages of the client, and their place in its stream.              *)
LEMMA Messages ==
  ASSUME type \in Type, cred \in Cred \cup {NoCred}
  PROVE  /\ Methods \in Seq(Part) /\ Len(Methods) = 3
         /\ Creds \in Seq(Part) /\ Len(Creds) = CL
         /\ Request \in Seq(Part) /\ Len(Request) = 3
         /\ CL \in {0, 3} /\ AL \in {0, 2}
         /\ \A i \in 1..3 : Stream(i) = Methods[i]
         /\ \A i \in 1..CL : Stream(3 + i) = Creds[i]
         /\ \A i \in 1..3 : Stream(3 + CL + i) = Request[i]
<1>1. Methods \in Seq(Part) /\ Len(Methods) = 3
  BY DEF Methods, Part
<1>2. Command(type) \in {"CONNECT", "FWD_UDP", "UDP_ASC"}
  BY DEF Command, Type
<1>3. Request \in Seq(Part) /\ Len(Request) = 3
  BY <1>2 DEF Request, Part
<1>4. Creds \in Seq(Part) /\ Len(Creds) = CL
  <2>1. CASE cred = NoCred
    BY <2>1 DEF Creds, CL
  <2>2. CASE cred # NoCred
    <3>1. cred[1] \in Part /\ cred[2] \in Part /\ "v1" \in Part
      BY <2>2, Credentials DEF Part
    <3> QED BY <2>2, <3>1 DEF Creds, CL
  <2> QED BY <2>1, <2>2
<1>5. CL \in {0, 3} /\ AL \in {0, 2}
  BY DEF CL, AL
<1>6. \A i \in 1..3 : Stream(i) = Methods[i]
  BY DEF Stream
<1>7. \A i \in 1..CL : Stream(3 + i) = Creds[i]
  BY <1>5 DEF Stream
<1>8. \A i \in 1..3 : Stream(3 + CL + i) = Request[i]
  BY <1>5 DEF Stream
<1> QED BY <1>1, <1>3, <1>4, <1>5, <1>6, <1>7, <1>8

-----------------------------------------------------------------------------
(* The references.                                                         *)

(* A session gives up what it refers to.                                   *)
LEMMA ReleaseRefs ==
  ASSUME Refs, Release
  PROVE  Refs' /\ obj' = "none" /\ admin' = admin /\ (admin => users' = users)
<1> USE Socks5Assumption DEF Refs, RefsExact
<1>1. CASE obj = "none"
  BY <1>1 DEF Release
<1>2. CASE obj = "auth"
  <2>1. UnrefAuth(uref) /\ obj' = "none" /\ admin' = admin
    BY <1>2 DEF Release
  <2> QED BY <1>2, <2>1 DEF UnrefAuth
<1>3. CASE obj \in User
  <2>1. obj # "none" /\ obj # "auth"
    BY <1>3
  <2>2. /\ uref' = [uref EXCEPT ![obj] = @ - 1] /\ UNCHANGED <<aref, users>>
        /\ obj' = "none" /\ admin' = admin
    BY <2>1 DEF Release
  <2> QED BY <1>3, <2>1, <2>2
<1> QED BY <1>1, <1>2, <1>3

(* A session takes its user in the place of the authenticator.             *)
LEMMA TakeRefs ==
  ASSUME Refs, obj = "auth", NEW u \in users, TakeUser(u)
  PROVE  Refs' /\ obj' = u /\ admin' = admin /\ (admin => users' = users)
<1> USE Socks5Assumption DEF Refs, RefsExact
<1> DEFINE held == [uref EXCEPT ![u] = @ + 1]
<1>1. /\ obj' = u /\ admin' = admin /\ aref' = aref - 1
      /\ users' = IF aref = 1 THEN {} ELSE users
      /\ uref' = [v \in User |-> held[v] - IF aref = 1 /\ v \in users THEN 1 ELSE 0]
  BY DEF TakeUser, UnrefAuth
<1>2. u \in User /\ u # "auth" /\ u # "none"
  OBVIOUS
<1>3. \A v \in User : held[v] = uref[v] + IF v = u THEN 1 ELSE 0
  BY <1>2
<1>4. \A v \in User : uref[v] = (IF v \in users THEN 1 ELSE 0) + 0
  BY <1>2
<1> HIDE DEF held
<1>5. CASE admin
  <2>1. aref = 2 /\ aref' = 1 /\ users' = users
    BY <1>1, <1>5
  <2>2. \A v \in User : uref'[v] = uref[v] + IF v = u THEN 1 ELSE 0
    BY <1>1, <1>3, <2>1
  <2>3. uref' \in [User -> 0..2]
    BY <1>1, <1>4, <2>2
  <2> QED BY <1>1, <1>2, <1>4, <1>5, <2>1, <2>2, <2>3
<1>6. CASE ~admin
  <2>1. aref = 1 /\ aref' = 0 /\ users' = {}
    BY <1>1, <1>6
  <2>2. \A v \in User : uref'[v] = IF v = u THEN 1 ELSE 0
    BY <1>1, <1>3, <1>4, <2>1
  <2>3. uref' \in [User -> 0..2]
    BY <1>1, <2>2
  <2> QED BY <1>1, <1>2, <1>6, <2>1, <2>2, <2>3
<1> QED BY <1>5, <1>6

(* The application changes the tree or gives up the authenticator.         *)
LEMMA AdminRefs ==
  ASSUME Refs, (\E u \in User : DelUser(u) \/ AddUser(u)) \/ DropAuth
  PROVE  /\ Refs' /\ obj' = obj
         /\ excuse' = {} => excuse = {} /\ (obj = "auth" \/ admin' => users \subseteq users')
         /\ excuse' = {} /\ admin' => admin
<1> USE Socks5Assumption DEF Refs, RefsExact
<1>1. ASSUME NEW u \in User, DelUser(u)
      PROVE  Refs' /\ obj' = obj /\ excuse' # {}
  BY <1>1 DEF DelUser
<1>2. ASSUME NEW u \in User, AddUser(u)
      PROVE  Refs' /\ obj' = obj /\ excuse' = excuse /\ users \subseteq users' /\ admin
  BY <1>2 DEF AddUser
<1>3. ASSUME DropAuth
      PROVE  /\ Refs' /\ obj' = obj /\ excuse' = excuse /\ ~admin'
             /\ obj = "auth" => users' = users
  <2>1. /\ admin /\ admin' = FALSE /\ obj' = obj /\ excuse' = excuse /\ aref' = aref - 1
        /\ users' = IF aref = 1 THEN {} ELSE users
        /\ uref' = [u \in User |-> uref[u] - IF aref = 1 /\ u \in users THEN 1 ELSE 0]
    BY <1>3 DEF DropAuth, UnrefAuth
  <2>2. CASE obj = "auth"
    <3>1. aref = 2 /\ users' = users /\ \A u \in User : uref'[u] = uref[u]
      BY <2>1, <2>2
    <3>2. uref' \in [User -> 0..2]
      BY <2>1, <3>1
    <3>3. aref' = 1 /\ users' \subseteq User
      BY <2>1, <3>1
    <3>4. RefsExact'
      BY <2>1, <2>2, <3>1, <3>3
    <3> HIDE DEF RefsExact
    <3>5. admin' \in BOOLEAN
      BY <2>1, Zenon
    <3>6. Refs'
      BY <2>1, <3>2, <3>3, <3>4, <3>5
    <3> QED BY <2>1, <3>1, <3>6
  <2>3. CASE obj # "auth"
    <3>1. aref = 1 /\ users' = {} /\ \A u \in User : uref'[u] = IF obj = u THEN 1 ELSE 0
      BY <2>1, <2>3
    <3>2. uref' \in [User -> 0..2]
      BY <2>1, <3>1
    <3>3. aref' = 0 /\ users' \subseteq User
      BY <2>1, <3>1
    <3>4. RefsExact'
      BY <2>1, <2>3, <3>1, <3>3
    <3> HIDE DEF RefsExact
    <3>5. admin' \in BOOLEAN
      BY <2>1, Zenon
    <3>6. Refs'
      BY <2>1, <3>2, <3>3, <3>4, <3>5
    <3> QED BY <2>1, <2>3, <3>6
  <2> QED BY <2>2, <2>3
<1> QED BY <1>1, <1>2, <1>3

-----------------------------------------------------------------------------
(* What a step leaves alone.                                               *)

(* The streams depend on the options of the client only.                   *)
LEMMA SameStream ==
  ASSUME UNCHANGED options
  PROVE  /\ CL' = CL /\ AL' = AL /\ Offered' = Offered /\ Request' = Request
         /\ \A k : Stream(k)' = Stream(k)
<1>1. type' = type /\ cred' = cred /\ pipeline' = pipeline
  BY DEF options
<1>2. CL' = CL /\ AL' = AL /\ Offered' = Offered
  BY <1>1 DEF CL, AL, Offered
<1>3. Methods' = Methods /\ Creds' = Creds
  BY <1>1 DEF Methods, Creds
<1>4. Request' = Request
  BY <1>1 DEF Request, Command
<1> QED BY <1>2, <1>3, <1>4 DEF Stream

(* An answer stays what it is: those before the response do not depend on  *)
(* the request, and the response is sent when nothing changes any more.    *)
LEMMA SameAnswer ==
  ASSUME UNCHANGED options, NEW k, NEW x, AnswerAt(k, x), AL \in {0, 2},
         \/ k \in Nat /\ k <= 2 + AL
         \/ /\ UNCHANGED <<rep, req, stype>>
            /\ spc \in {"serve", "done"} => spc' \in {"serve", "done"}
  PROVE  AnswerAt(k, x)'
<1>1. AL' = AL /\ Offered' = Offered /\ Request' = Request /\ type' = type
  BY SameStream DEF options
<1>2. k \in Nat /\ k <= 2 + AL => k # 4 + AL
  OBVIOUS
<1> QED BY <1>1, <1>2 DEF AnswerAt, Served5

(* Steps of the client leave all that the server knows alone.              *)
LEMMA ClientFrame ==
  ASSUME HandInv, ServerSide, UNCHANGED options
  PROVE  /\ Refs' /\ ServerOK'
         /\ UNCHANGED <<spc, sin, guarded, method, req, rep, stype, obj, users, admin, sshut>>
         /\ UNCHANGED <<SBase, SPos, Answered, Reading5, Served5, CL, AL, Offered, Request>>
<1>1. /\ UNCHANGED <<spc, sin, guarded, method, req, rep, stype, obj, users, aref, uref, admin, sshut>>
      /\ UNCHANGED <<type, cred, CL, AL, Offered, Request>>
  BY SameStream DEF ServerSide, server, objects, options
<1>2. Refs'
  BY <1>1 DEF HandInv, Refs, RefsExact
<1>3. ServerOK'
  BY <1>1 DEF HandInv, ServerOK, Entitled, Served5
<1>4. UNCHANGED <<SBase, SPos, Answered, Reading5, Served5>>
  BY <1>1 DEF SBase, SPos, Answered, Reading5, Served5
<1> QED BY <1>1, <1>2, <1>3, <1>4

(* Steps of the application leave the handshake alone.                     *)
LEMMA AdminInv ==
  ASSUME HandInv, (\E u \in User : DelUser(u) \/ AddUser(u)) \/ DropAuth
  PROVE  HandInv'
<1>1. /\ Refs' /\ obj' = obj
      /\ excuse' = {} => excuse = {} /\ (obj = "auth" \/ admin' => users \subseteq users')
      /\ excuse' = {} /\ admin' => admin
  BY AdminRefs DEF HandInv
<1>2. UNCHANGED <<client, server, net>>
  BY DEF DelUser, AddUser, DropAuth
<1>3. UNCHANGED <<cpc, options, pipeline, type, cred, cin, owner, spc, sin, guarded, method,
                  req, rep, stype, c2s, s2c, cshut, sshut>>
  BY <1>2 DEF client, server, net, options
<1>4. /\ UNCHANGED <<CL, AL, Offered, Request, Wrote, SBase, SPos, Answered, CBase, CPos,
                     CEnded, Served5, Reading5>>
      /\ \A k : Stream(k)' = Stream(k)
  BY <1>3, SameStream DEF Wrote, SBase, SPos, Answered, CBase, CPos, CEnded, Served5, Reading5
<1>5. Shapes' /\ Address'
  BY <1>3, <1>4 DEF HandInv, Shapes, Address
<1>6. UpOK'
  BY <1>3, <1>4 DEF HandInv, UpOK
<1>7. \A k, x : AnswerAt(k, x)' = AnswerAt(k, x)
  BY <1>3, <1>4 DEF AnswerAt
<1>8. DownOK'
  BY <1>3, <1>4, <1>7 DEF HandInv, DownOK
<1>9. ServerOK'
  BY <1>1, <1>3, <1>4 DEF HandInv, ServerOK, Entitled
<1>10. SmoothOK'
  <2> SUFFICES ASSUME Granted' PROVE SmoothOK'
    BY DEF SmoothOK
  <2>1. Granted
    BY <1>1, <1>3 DEF Granted
  <2>2. (obj = "auth" => users' = User) /\ (admin' => users' = User)
    BY <1>1, <2>1 DEF HandInv, SmoothOK, Granted, Refs
  <2> QED BY <1>1, <1>3, <1>4, <2>1, <2>2 DEF HandInv, SmoothOK
<1> QED BY <1>1, <1>5, <1>6, <1>8, <1>9, <1>10 DEF HandInv

(* The client gives up.                                                    *)
LEMMA FailInv ==
  ASSUME HandInv, ServerSide, c2s' = c2s,
         NEW o, CFail(o), o = owner \/ (o = "leak" /\ spc = "done" /\ req = <<>>),
         s2c' \in Seq(Word), Len(s2c') <= Len(s2c), ~Granted'
  PROVE  HandInv'
<1>1. /\ UNCHANGED options /\ cpc' = "fail" /\ cin' = <<>> /\ cshut' = TRUE
      /\ owner' = IF o = "self" THEN "none" ELSE o
  BY DEF CFail, CGo
<1>2. /\ Refs' /\ ServerOK'
      /\ UNCHANGED <<spc, sin, guarded, method, req, rep, stype, obj, users, admin, sshut>>
      /\ UNCHANGED <<SBase, SPos, Answered, Reading5, Served5, CL, AL, Offered, Request>>
  BY <1>1, ClientFrame
<1>3. CL \in {0, 3} /\ AL \in {0, 2} /\ \A k : Stream(k)' = Stream(k)
  BY <1>1, SameStream DEF CL, AL
<1>4. Wrote' = 6 + CL /\ Wrote \in Nat /\ Wrote <= 6 + CL
  BY <1>1, <1>2, <1>3 DEF Wrote
<1>5. /\ Len(c2s) \in Nat /\ Len(s2c) \in Nat /\ Len(s2c') \in Nat /\ Len(sin) \in Nat
      /\ Answered \in Nat /\ SBase \in Nat /\ SPos \in Nat
  BY <1>3 DEF HandInv, Shapes, Answered, SBase, SPos
<1>6. Shapes'
  <2>1. Len(c2s) <= Wrote' /\ Len(s2c') <= Answered'
    BY <1>2, <1>4, <1>5 DEF HandInv, Shapes
  <2>2. <<>> \in Seq(Word) /\ Len(<<>>) < 3
    OBVIOUS
  <2>3. cshut' = (cpc' \in {"fail", "closed"})
    BY <1>1
  <2> QED BY <1>1, <1>2, <2>1, <2>2, <2>3 DEF HandInv, Shapes, options
<1>7. Address'
  BY <1>1, <1>2 DEF HandInv, Address, CWrites
<1>8. UpOK'
  BY <1>1, <1>2, <1>3, <1>4, <1>5 DEF HandInv, UpOK
<1>9. DownOK'
  BY <1>1 DEF DownOK, CEnded
<1>10. SmoothOK'
  BY DEF SmoothOK
<1> QED BY <1>2, <1>6, <1>7, <1>8, <1>9, <1>10 DEF HandInv

-----------------------------------------------------------------------------
(* The client.                                                             *)

(* A message continues the stream where the client is, and the client goes *)
(* on to read the answers where it was.                                    *)
LEMMA Sends ==
  ASSUME Shapes, DownOK, cpc \in CWrites, cpc' = After(cpc, "none"), UNCHANGED options
  PROVE  /\ Message(cpc) \in Seq(Part) /\ Wrote \in Nat /\ Wrote < 6 + CL
         /\ Wrote' = Wrote + Len(Message(cpc))
         /\ \A i \in 1..Len(Message(cpc)) : Stream(Wrote + i) = Message(cpc)[i]
         /\ CBase' = CBase /\ CBase \in Nat
         /\ cpc' \in {"w_creds", "w_request", "r_method", "r_creds", "r_response"}
         /\ cpc' = "r_creds" \/ (cpc' = "w_creds" /\ ~pipeline) => AL = 2
         /\ cpc # "w_request" =>
              cpc' \in CWrites \/ (~pipeline /\ cpc' \in {"r_method", "r_creds"})
         /\ cpc = "w_request" => cpc' = IF pipeline THEN "r_method" ELSE "r_response"
<1>1. /\ Methods \in Seq(Part) /\ Len(Methods) = 3
      /\ Creds \in Seq(Part) /\ Len(Creds) = CL
      /\ Request \in Seq(Part) /\ Len(Request) = 3
      /\ CL \in {0, 3} /\ AL \in {0, 2}
      /\ \A i \in 1..3 : Stream(i) = Methods[i]
      /\ \A i \in 1..CL : Stream(3 + i) = Creds[i]
      /\ \A i \in 1..3 : Stream(3 + CL + i) = Request[i]
  BY Messages DEF Shapes
<1>2. CL' = CL /\ AL' = AL /\ pipeline' = pipeline
  BY SameStream DEF options
<1>3. CASE cpc = "w_methods"
  <2>1. Message(cpc) = Methods /\ cpc' = IF pipeline THEN "w_creds" ELSE "r_method"
    BY <1>3 DEF Message, After
  <2>2. Wrote = 0 /\ Wrote' = 3
    BY <1>2, <1>3, <2>1 DEF Wrote
  <2>3. CBase = 0 /\ CBase' = 0
    BY <1>2, <1>3, <2>1 DEF CBase, CWrites
  <2>4. ASSUME NEW i \in 1..Len(Message(cpc))
        PROVE  Stream(Wrote + i) = Message(cpc)[i]
    <3>1. Wrote + i = i
      BY <1>1, <2>1, <2>2
    <3> QED BY <1>1, <2>1, <3>1
  <2>5. /\ Message(cpc) \in Seq(Part) /\ Wrote \in Nat /\ Wrote < 6 + CL
        /\ Wrote' = Wrote + Len(Message(cpc)) /\ CBase' = CBase /\ CBase \in Nat
    BY <1>1, <2>1, <2>2, <2>3
  <2> QED BY <1>3, <2>1, <2>4, <2>5 DEF CWrites
<1>4. CASE cpc = "w_creds"
  <2>1. Message(cpc) = Creds /\ cpc' = IF pipeline THEN "w_request" ELSE "r_creds"
    BY <1>4 DEF Message, After
  <2>2. Wrote = 3 /\ Wrote' = 3 + CL
    BY <1>2, <1>4, <2>1 DEF Wrote
  <2>3. CBase = (IF pipeline THEN 0 ELSE 2) /\ CBase' = CBase
    BY <1>2, <1>4, <2>1 DEF CBase, CWrites
  <2>4. ~pipeline => AL = 2
    BY <1>4 DEF DownOK
  <2>5. ASSUME NEW i \in 1..Len(Message(cpc))
        PROVE  Stream(Wrote + i) = Message(cpc)[i]
    <3>1. Wrote + i = 3 + i
      BY <1>1, <2>1, <2>2
    <3> QED BY <1>1, <2>1, <3>1
  <2>6. /\ Message(cpc) \in Seq(Part) /\ Wrote \in Nat /\ Wrote < 6 + CL
        /\ Wrote' = Wrote + Len(Message(cpc)) /\ CBase' = CBase /\ CBase \in Nat
    BY <1>1, <2>1, <2>2, <2>3
  <2> QED BY <1>4, <2>1, <2>4, <2>5, <2>6 DEF CWrites
<1>5. CASE cpc = "w_request"
  <2>1. Message(cpc) = Request /\ cpc' = IF pipeline THEN "r_method" ELSE "r_response"
    BY <1>5 DEF Message, After
  <2>2. Wrote = 3 + CL /\ Wrote' = 6 + CL
    BY <1>1, <1>2, <1>5, <2>1 DEF Wrote
  <2>3. CBase = (IF pipeline THEN 0 ELSE 2 + AL) /\ CBase' = CBase
    BY <1>2, <1>5, <2>1 DEF CBase, CWrites
  <2>4. ASSUME NEW i \in 1..Len(Message(cpc))
        PROVE  Stream(Wrote + i) = Message(cpc)[i]
    <3>1. Wrote + i = 3 + CL + i
      BY <1>1, <2>1, <2>2
    <3> QED BY <1>1, <2>1, <3>1
  <2>5. CL \in Nat /\ AL \in Nat /\ Len(Message(cpc)) = 3 /\ Message(cpc) \in Seq(Part)
    BY <1>1, <2>1
  <2>6. Wrote \in Nat /\ Wrote < 6 + CL /\ Wrote' = Wrote + Len(Message(cpc))
    BY <2>2, <2>5
  <2>7. CBase' = CBase /\ CBase \in Nat
    BY <2>3, <2>5
  <2> QED BY <1>5, <2>1, <2>4, <2>5, <2>6, <2>7
<1> QED BY <1>3, <1>4, <1>5 DEF CWrites

(* The client sends a message.                                             *)
LEMMA CSendInv ==
  ASSUME HandInv, CSend
  PROVE  HandInv'
<1> DEFINE m == Message(cpc)
<1>1. /\ cpc \in CWrites /\ c2s' = c2s \o m /\ cpc' = After(cpc, "none") /\ cin' = <<>>
      /\ UNCHANGED options /\ owner' = Keep(cpc) /\ ServerSide
      /\ UNCHANGED <<s2c, cshut, excuse>>
  BY DEF CSend, CGo
<1>2. /\ m \in Seq(Part) /\ Wrote \in Nat /\ Wrote < 6 + CL
      /\ Wrote' = Wrote + Len(m)
      /\ \A i \in 1..Len(m) : Stream(Wrote + i) = m[i]
      /\ CBase' = CBase /\ CBase \in Nat
      /\ cpc' \in {"w_creds", "w_request", "r_method", "r_creds", "r_response"}
      /\ cpc' = "r_creds" \/ (cpc' = "w_creds" /\ ~pipeline) => AL = 2
      /\ cpc # "w_request" =>
           cpc' \in CWrites \/ (~pipeline /\ cpc' \in {"r_method", "r_creds"})
      /\ cpc = "w_request" => cpc' = IF pipeline THEN "r_method" ELSE "r_response"
  BY <1>1, Sends DEF HandInv
<1> HIDE DEF m
<1>3. /\ Refs' /\ ServerOK'
      /\ UNCHANGED <<spc, sin, guarded, method, req, rep, stype, obj, users, admin, sshut>>
      /\ UNCHANGED <<SBase, SPos, Answered, Reading5, Served5, CL, AL, Offered, Request>>
  BY <1>1, ClientFrame
<1>4. \A k : Stream(k)' = Stream(k)
  BY <1>1, SameStream
<1>5. /\ c2s' \in Seq(Part) /\ Len(c2s') = Len(c2s) + Len(m)
      /\ Len(c2s) \in Nat /\ Len(m) \in Nat
      /\ \A i \in 1..Len(c2s) : c2s'[i] = c2s[i]
      /\ \A i \in 1..Len(m) : c2s'[Len(c2s) + i] = m[i]
  <2>1. c2s \in Seq(Part) /\ c2s' = c2s \o m
    BY <1>1 DEF HandInv, Shapes
  <2> QED BY <1>2, <2>1, Joined
<1>6. cin = <<>> /\ cin' = cin /\ CPos' = CPos /\ ~CEnded /\ ~CEnded' /\ cpc' # "fail" /\ cpc # "fail"
  BY <1>1, <1>2 DEF HandInv, Shapes, CPos, CEnded, CWrites, CReads
<1>7. Shapes'
  <2>1. Len(c2s') <= Wrote'
    BY <1>2, <1>5 DEF HandInv, Shapes
  <2>2. cshut' = (cpc' \in {"fail", "closed"})
    <3>1. ~cshut /\ cshut' = cshut
      BY <1>1 DEF HandInv, Shapes, CWrites
    <3>2. cpc' \notin {"fail", "closed"}
      BY <1>2
    <3>3. cshut \in BOOLEAN
      BY DEF HandInv, Shapes
    <3> QED BY <3>1, <3>2, <3>3
  <2>3. cpc' \in CWrites \cup CReads
    BY <1>2 DEF CWrites, CReads
  <2>4. Len(cin') = 0 /\ cin' \in Seq(Word) /\ cin' = <<>>
    <3>1. Len(<<>>) = 0 /\ <<>> \in Seq(Word)
      OBVIOUS
    <3>2. cin' = <<>>
      BY <1>1
    <3> QED BY <3>1, <3>2
  <2> QED BY <1>1, <1>3, <1>5, <2>1, <2>2, <2>3, <2>4 DEF HandInv, Shapes, options
<1>8. Address'
  <2>1. CASE cpc = "w_request"
    BY <1>1, <1>2, <1>3, <2>1 DEF HandInv, Address, Keep, CWrites, options
  <2>2. CASE cpc # "w_request"
    BY <1>1, <1>2, <1>3, <2>2 DEF HandInv, Address, Keep, CWrites, options
  <2> QED BY <2>1, <2>2
<1>9. UpOK'
  <2>1. req = <<>>
    BY <1>2 DEF HandInv, UpOK
  <2>2. CASE Reading5
    <3>1. /\ rep = "SUCC" /\ SPos + Len(c2s) = Wrote /\ SPos \in Nat
          /\ \A i \in 1..Len(sin) : sin[i] = Stream(SBase + i)
          /\ \A i \in 1..Len(c2s) : c2s[i] = Stream(SPos + i)
      <4>1. SPos \in Nat
        BY DEF HandInv, Shapes, SPos, SBase, CL
      <4> QED BY <1>6, <2>2, <4>1 DEF HandInv, UpOK
    <3>2. ASSUME NEW i \in 1..Len(c2s') PROVE c2s'[i] = Stream(SPos + i)
      <4>1. CASE i <= Len(c2s)
        BY <1>5, <3>1, <4>1
      <4>2. CASE i > Len(c2s)
        <5>1. i - Len(c2s) \in 1..Len(m) /\ Wrote + (i - Len(c2s)) = SPos + i
              /\ Len(c2s) + (i - Len(c2s)) = i
          BY <1>5, <3>1, <4>2
        <5>2. c2s'[Len(c2s) + (i - Len(c2s))] = m[i - Len(c2s)]
          BY <1>5, <5>1
        <5>3. Stream(Wrote + (i - Len(c2s))) = m[i - Len(c2s)]
          BY <1>2, <5>1
        <5> QED BY <5>1, <5>2, <5>3
      <4> QED BY <1>5, <4>1, <4>2
    <3>3. SPos + Len(c2s') = Wrote' /\ Wrote' \in Nat
      BY <1>2, <1>5, <3>1
    <3> QED BY <1>3, <1>4, <2>1, <3>1, <3>2, <3>3 DEF UpOK
  <2>3. CASE ~Reading5
    BY <1>3, <2>1, <2>3 DEF UpOK
  <2> QED BY <2>2, <2>3
<1>10. DownOK'
  <2>1. \A k, x : AnswerAt(k, x)' = AnswerAt(k, x)
    BY <1>3 DEF AnswerAt
  <2>2. Len(cin') # 2
    BY <1>7, <1>6 DEF Shapes
  <2> QED BY <1>1, <1>2, <1>3, <1>6, <2>1, <2>2 DEF HandInv, DownOK, CEnded, options
<1>11. SmoothOK'
  <2>1. Granted' => Granted
    BY <1>1, <1>3 DEF Granted, options
  <2> QED BY <1>1, <1>3, <1>6, <2>1 DEF HandInv, SmoothOK
<1> QED BY <1>3, <1>7, <1>8, <1>9, <1>10, <1>11 DEF HandInv

(* The client cannot send: the server closed.                              *)
LEMMA CSendFailInv ==
  ASSUME HandInv, CSendFail
  PROVE  HandInv'
<1> DEFINE o == IF cpc = "w_request" THEN "leak" ELSE owner
<1>1. /\ cpc \in CWrites /\ sshut /\ CFail(o) /\ ServerSide
      /\ UNCHANGED <<c2s, s2c, excuse>>
  BY DEF CSendFail
<1>2. spc = "done"
  BY <1>1 DEF HandInv, Shapes
<1>3. req = <<>>
  <2>1. CL \in {0, 3} /\ Wrote # 6 + CL
    BY <1>1 DEF Wrote, CWrites, CL
  <2> QED BY <2>1 DEF HandInv, UpOK
<1>4. ~Granted'
  <2>1. UNCHANGED <<cred, guarded>>
    BY <1>1 DEF CFail, CGo, options, ServerSide, server
  <2>2. Request # <<>>
    BY DEF Request
  <2>3. ~Granted
    BY <1>2, <1>3, <2>2 DEF HandInv, SmoothOK
  <2> QED BY <1>1, <2>1, <2>3 DEF Granted
<1>5. s2c' \in Seq(Word) /\ Len(s2c') <= Len(s2c)
  BY <1>1 DEF HandInv, Shapes
<1>6. o = owner \/ (o = "leak" /\ spc = "done" /\ req = <<>>)
  BY <1>2, <1>3
<1> HIDE DEF o
<1> QED BY <1>1, <1>4, <1>5, <1>6, FailInv

(* Nothing more comes, or the time limit runs out.                         *)
LEMMA CWaitFailInv ==
  ASSUME HandInv, CRecvFail \/ CExpire
  PROVE  HandInv'
<1>1. /\ cpc \in CReads /\ CFail(owner) /\ ServerSide /\ UNCHANGED <<c2s, s2c>>
  BY DEF CRecvFail, CExpire
<1>2. s2c' \in Seq(Word) /\ Len(s2c') <= Len(s2c)
  BY <1>1 DEF HandInv, Shapes
<1>3. CASE CExpire
  <2>1. ~Granted'
    BY <1>3 DEF CExpire, Granted
  <2> QED BY <1>1, <1>2, <2>1, FailInv
<1>4. CASE CRecvFail
  <2>1. spc = "done" /\ (s2c = <<>> \/ c2s # <<>>) /\ excuse' = excuse
    BY <1>4 DEF CRecvFail, HandInv, Shapes
  <2>2. ~Granted
    <3> SUFFICES ASSUME Granted PROVE FALSE
      OBVIOUS
    <3>1. Request # <<>>
      BY DEF Request
    <3>2. req = Request /\ c2s = <<>>
      BY <2>1, <3>1 DEF HandInv, SmoothOK, UpOK
    <3>3. s2c = <<>> /\ Len(s2c) = 0
      BY <2>1, <3>2
    <3>4. ~CEnded
      BY <1>1 DEF CEnded, CReads
    <3>5. AL \in {0, 2} /\ Answered = 5 + AL /\ CBase \in Nat /\ CBase <= 2 + AL
      BY <2>1 DEF AL, Answered, CBase
    <3>6. CPos = 5 + AL
      <4>1. CPos + Len(s2c) = Answered
        BY <2>1, <3>4 DEF HandInv, SmoothOK
      <4>2. CPos \in Nat
        BY <3>5 DEF CPos, HandInv, Shapes
      <4> QED BY <3>3, <3>5, <4>1, <4>2
    <3>7. CPos < 5 + AL
      BY <3>5 DEF CPos, HandInv, Shapes
    <3> QED BY <3>5, <3>6, <3>7
  <2>3. UNCHANGED <<cred, guarded>>
    BY <1>1 DEF CFail, CGo, options, ServerSide, server
  <2>4. ~Granted'
    BY <2>1, <2>2, <2>3 DEF Granted
  <2> QED BY <1>1, <1>2, <2>4, FailInv
<1> QED BY <1>3, <1>4

(* The session of the client ends.                                         *)
LEMMA CCloseInv ==
  ASSUME HandInv, CClose
  PROVE  HandInv'
<1>1. /\ cpc = "ok" /\ cpc' = "closed" /\ cin' = <<>> /\ cshut' = TRUE
      /\ UNCHANGED options /\ ServerSide /\ UNCHANGED <<owner, c2s, s2c, excuse>>
  BY DEF CClose, CGo
<1>2. /\ Refs' /\ ServerOK'
      /\ UNCHANGED <<spc, sin, guarded, method, req, rep, stype, obj, users, admin, sshut>>
      /\ UNCHANGED <<SBase, SPos, Answered, Reading5, Served5, CL, AL, Offered, Request>>
  BY <1>1, ClientFrame
<1>3. \A k : Stream(k)' = Stream(k)
  BY <1>1, SameStream
<1>4. Wrote' = Wrote
  BY <1>1, <1>2 DEF Wrote
<1>5. Shapes'
  <2>1. <<>> \in Seq(Word) /\ Len(<<>>) < 3
    OBVIOUS
  <2>2. cshut' = (cpc' \in {"fail", "closed"})
    BY <1>1
  <2> QED BY <1>1, <1>2, <1>4, <2>1, <2>2 DEF HandInv, Shapes, options
<1>6. Address'
  BY <1>1, <1>2 DEF HandInv, Address, CWrites
<1>7. UpOK'
  BY <1>1, <1>2, <1>3, <1>4 DEF HandInv, UpOK
<1>8. DownOK'
  BY <1>1, <1>2 DEF HandInv, DownOK, CEnded
<1>9. SmoothOK'
  <2>1. Granted' => Granted
    BY <1>1, <1>2 DEF Granted, options
  <2> QED BY <1>1, <1>2, <2>1 DEF HandInv, SmoothOK, CEnded
<1> QED BY <1>2, <1>5, <1>6, <1>7, <1>8, <1>9 DEF HandInv

(* The part read next continues the answer that is being read.             *)
LEMMA NextPart ==
  ASSUME HandInv, cpc \in CReads, s2c # <<>>
  PROVE  LET a == Append(cin, Head(s2c))
         IN  /\ a \in Seq(Word) /\ Len(a) = Len(cin) + 1 /\ Len(a) \in 1..3
             /\ cpc # "r_response" => Len(a) <= 2
             /\ Tail(s2c) \in Seq(Word) /\ Len(Tail(s2c)) \in Nat
             /\ Len(Tail(s2c)) + 1 = Len(s2c)
             /\ CBase + Len(a) + Len(Tail(s2c)) = CPos + Len(s2c) /\ CBase \in Nat
             /\ \A i \in 1..Len(a) : AnswerAt(CBase + i, a[i])
             /\ \A i \in 1..Len(Tail(s2c)) : AnswerAt(CBase + Len(a) + i, Tail(s2c)[i])
<1> DEFINE a == Append(cin, Head(s2c))
           t == Tail(s2c)
<1>1. /\ cin \in Seq(Word) /\ s2c \in Seq(Word) /\ Len(cin) \in Nat /\ Len(cin) < 3
      /\ cpc # "r_response" => Len(cin) < 2
  BY DEF HandInv, Shapes, CReads
<1>2. /\ Len(s2c) \in Nat /\ Len(s2c) >= 1 /\ Head(s2c) = s2c[1] /\ s2c[1] \in Word
      /\ t \in Seq(Word) /\ Len(t) = Len(s2c) - 1
      /\ \A i \in 1..Len(t) : t[i] = s2c[i + 1]
  BY <1>1, Popped
<1>3. /\ a \in Seq(Word) /\ Len(a) = Len(cin) + 1 /\ a[Len(cin) + 1] = s2c[1]
      /\ \A i \in 1..Len(cin) : a[i] = cin[i]
  BY <1>1, <1>2, Pushed
<1>4. CBase \in Nat /\ CPos = CBase + Len(cin)
  BY DEF CBase, CPos, AL
<1>5. /\ \A i \in 1..Len(cin) : AnswerAt(CBase + i, cin[i])
      /\ \A i \in 1..Len(s2c) : AnswerAt(CPos + i, s2c[i])
  BY DEF HandInv, DownOK, CEnded, CReads
<1> HIDE DEF a, t
<1>6. ASSUME NEW i \in 1..Len(a) PROVE AnswerAt(CBase + i, a[i])
  <2>1. CASE i <= Len(cin)
    BY <1>1, <1>3, <1>5, <2>1
  <2>2. CASE i = Len(cin) + 1
    <3>1. CBase + i = CPos + 1 /\ 1 \in 1..Len(s2c)
      BY <1>1, <1>2, <1>4, <2>2
    <3>2. AnswerAt(CPos + 1, s2c[1])
      BY <1>5, <3>1
    <3> QED BY <1>3, <2>2, <3>1, <3>2
  <2> QED BY <1>1, <1>3, <2>1, <2>2
<1>7. ASSUME NEW i \in 1..Len(t) PROVE AnswerAt(CBase + Len(a) + i, t[i])
  <2>1. CBase + Len(a) + i = CPos + (i + 1) /\ i + 1 \in 1..Len(s2c)
    BY <1>1, <1>2, <1>3, <1>4
  <2>2. AnswerAt(CPos + (i + 1), s2c[i + 1])
    BY <1>5, <2>1
  <2> QED BY <1>2, <2>1, <2>2
<1>8. /\ Len(t) \in Nat /\ Len(t) + 1 = Len(s2c) /\ Len(a) \in 1..3
      /\ CBase + Len(a) + Len(t) = CPos + Len(s2c)
      /\ cpc # "r_response" => Len(a) <= 2
  BY <1>1, <1>2, <1>3, <1>4
<1> QED BY <1>2, <1>3, <1>4, <1>6, <1>7, <1>8 DEF a, t

(* A client that reads on: cin becomes a, or a was the end of a message    *)
(* and the next one is read from its beginning.                            *)
LEMMA CReadsOn ==
  ASSUME HandInv, ServerSide, UNCHANGED options, cpc \in CReads,
         UNCHANGED <<c2s, owner, cshut, excuse>>,
         cpc' \in CReads \/ cpc' \in CWrites,
         cin' \in Seq(Word), Len(cin') < 3, cpc' \in {"r_method", "r_creds"} => Len(cin') < 2,
         cpc' \in CWrites => cin' = <<>>,
         s2c' \in Seq(Word), Len(s2c') <= Len(s2c),
         CBase' + Len(cin') + Len(s2c') = CPos + Len(s2c),
         \A i \in 1..Len(cin') : AnswerAt(CBase' + i, cin'[i]),
         \A i \in 1..Len(s2c') : AnswerAt(CBase' + Len(cin') + i, s2c'[i]),
         \A i \in 1..Len(s2c') : \E j \in 1..Len(s2c) : s2c'[i] = s2c[j],
         cpc' = "r_creds" \/ (cpc' = "w_creds" /\ ~pipeline) => AL = 2,
         cpc' = "r_response" /\ Len(cin') = 2 => cin'[2] = "SUCC",
         Wrote' = Wrote,
         (cpc \in {"r_method", "r_creds"} /\ ~pipeline) <=>
           (cpc' \in CWrites \/ (~pipeline /\ cpc' \in {"r_method", "r_creds"}))
  PROVE  HandInv'
<1>1. /\ Refs' /\ ServerOK'
      /\ UNCHANGED <<spc, sin, guarded, method, req, rep, stype, obj, users, admin, sshut>>
      /\ UNCHANGED <<SBase, SPos, Answered, Reading5, Served5, CL, AL, Offered, Request>>
  BY ClientFrame
<1>2. \A k : Stream(k)' = Stream(k)
  BY SameStream
<1>3. ~CEnded /\ ~CEnded' /\ cpc # "fail" /\ cpc' # "fail" /\ cpc \notin CWrites
  BY DEF CEnded, CReads, CWrites
<1>4. UNCHANGED <<type, pipeline, cred>>
  BY DEF options
<1>5. Shapes'
  <2>1. Len(s2c') <= Answered' /\ Len(c2s') <= Wrote'
    BY <1>1 DEF HandInv, Shapes, Answered, AL
  <2>2. cshut' = (cpc' \in {"fail", "closed"})
    <3>1. ~cshut /\ cshut' = cshut
      BY DEF HandInv, Shapes, CReads
    <3>2. cpc' \notin {"fail", "closed"}
      BY DEF CReads, CWrites
    <3>3. cshut \in BOOLEAN
      BY DEF HandInv, Shapes
    <3> QED BY <3>1, <3>2, <3>3
  <2>3. cpc' \notin CReads => cpc' \in CWrites
    OBVIOUS
  <2> QED BY <1>1, <1>4, <2>1, <2>2, <2>3 DEF HandInv, Shapes
<1>6. Address'
  BY <1>1, <1>3, <1>4 DEF HandInv, Address
<1>7. UpOK'
  BY <1>1, <1>2, <1>3 DEF HandInv, UpOK
<1>8. CPos' + Len(s2c') = CPos + Len(s2c) /\ CPos' = CBase' + Len(cin')
  BY DEF CPos
<1>9. DownOK'
  <2>1. \A k, x : AnswerAt(k, x)' = AnswerAt(k, x)
    BY <1>1 DEF AnswerAt
  <2>2. CPos + Len(s2c) <= Answered /\ (spc # "done" => CPos + Len(s2c) = Answered)
    BY <1>3 DEF HandInv, DownOK
  <2>3. cpc' \notin {"ok", "closed"}
    BY DEF CReads, CWrites
  <2> QED BY <1>1, <1>3, <1>4, <1>8, <2>1, <2>2, <2>3 DEF DownOK
<1>10. SmoothOK'
  <2>1. Granted' => Granted
    BY <1>1, <1>4 DEF Granted
  <2> QED BY <1>1, <1>3, <1>8, <2>1 DEF HandInv, SmoothOK
<1> QED BY <1>1, <1>5, <1>6, <1>7, <1>9, <1>10 DEF HandInv

(* The client reads a part.                                                *)
LEMMA CRecvInv ==
  ASSUME HandInv, CRecv
  PROVE  HandInv'
<1> DEFINE a == Append(cin, Head(s2c))
<1>1. cpc \in CReads /\ s2c # <<>> /\ s2c' = Tail(s2c) /\ ServerSide /\ c2s' = c2s
  BY DEF CRecv
<1>2. /\ a \in Seq(Word) /\ Len(a) = Len(cin) + 1 /\ Len(a) \in 1..3
      /\ cpc # "r_response" => Len(a) <= 2
      /\ s2c' \in Seq(Word) /\ Len(s2c') \in Nat /\ Len(s2c') + 1 = Len(s2c)
      /\ CBase + Len(a) + Len(s2c') = CPos + Len(s2c) /\ CBase \in Nat
      /\ \A i \in 1..Len(a) : AnswerAt(CBase + i, a[i])
      /\ \A i \in 1..Len(s2c') : AnswerAt(CBase + Len(a) + i, s2c'[i])
  BY <1>1, NextPart
<1>3. \/ /\ ~Complete(cpc, a) /\ cin' = a
         /\ UNCHANGED <<cpc, options, owner, cshut, excuse>>
      \/ /\ Complete(cpc, a) /\ Accept(cpc, a) /\ CGo(After(cpc, a[2]))
         /\ UNCHANGED <<owner, cshut, excuse>>
      \/ /\ Complete(cpc, a) /\ ~Accept(cpc, a) /\ CFail(owner) /\ UNCHANGED excuse
      \/ CFail(owner) /\ excuse' # {}
  BY DEF CRecv
<1>4. AL \in {0, 2}
  BY DEF AL
<1>5. \A i \in 1..Len(s2c') : \E j \in 1..Len(s2c) : s2c'[i] = s2c[j]
  <2>1. \A i \in 1..Len(s2c') : s2c'[i] = s2c[i + 1] /\ i + 1 \in 1..Len(s2c)
    <3>1. s2c \in Seq(Word)
      BY DEF HandInv, Shapes
    <3> QED BY <1>1, <1>2, <3>1, Popped
  <2> QED BY <2>1
<1> HIDE DEF a
<1>6. Len(s2c') <= Len(s2c) /\ Len(s2c) \in Nat
  BY <1>2
<1>7. ASSUME Len(a) >= 2
       PROVE  AnswerAt(CBase + 1, a[1]) /\ AnswerAt(CBase + 2, a[2])
  <2>1. 1 \in 1..Len(a) /\ 2 \in 1..Len(a)
    BY <1>2, <1>7
  <2> QED BY <1>2, <2>1
<1>8. CASE ~Complete(cpc, a) /\ cin' = a /\ UNCHANGED <<cpc, options, owner, cshut, excuse>>
  <2>1. Len(a) < 3 /\ (cpc # "r_response" => Len(a) < 2)
    BY <1>2, <1>8 DEF Complete
  <2>2. cpc = "r_response" /\ Len(a) = 2 => a[2] = "SUCC"
    <3> SUFFICES ASSUME cpc = "r_response", Len(a) = 2 PROVE a[2] = "SUCC"
      OBVIOUS
    <3>1. Accept(cpc, a)
      BY <1>8 DEF Complete
    <3> QED BY <3>1 DEF Accept
  <2>3. UNCHANGED <<type, cred, pipeline, AL, CL>>
    BY <1>8, SameStream DEF options
  <2>4. CBase' = CBase /\ Wrote' = Wrote
    BY <1>8, <2>3 DEF CBase, Wrote
  <2>5. cpc' = cpc /\ cpc \notin CWrites
    BY <1>1, <1>8 DEF CReads, CWrites
  <2>6. cpc = "r_creds" => AL = 2
    BY DEF HandInv, DownOK
  <2>7. cpc \in {"r_method", "r_creds"} => Len(a) < 2
    BY <2>1
  <2>8. cpc' = "r_creds" \/ (cpc' = "w_creds" /\ ~pipeline) => AL = 2
    BY <2>5, <2>6 DEF CWrites
  <2>9. (cpc \in {"r_method", "r_creds"} /\ ~pipeline) <=>
          (cpc' \in CWrites \/ (~pipeline /\ cpc' \in {"r_method", "r_creds"}))
    BY <2>5
  <2> QED BY <1>1, <1>2, <1>5, <1>6, <1>8, <2>1, <2>2, <2>4, <2>5, <2>7, <2>8, <2>9, CReadsOn
<1>9. CASE /\ Complete(cpc, a) /\ Accept(cpc, a) /\ CGo(After(cpc, a[2]))
           /\ UNCHANGED <<owner, cshut, excuse>>
  <2>1. cpc' = After(cpc, a[2]) /\ cin' = <<>> /\ UNCHANGED options
    BY <1>9 DEF CGo
  <2>2. UNCHANGED <<type, cred, pipeline, AL, CL>>
    BY <2>1, SameStream DEF options
  <2>3. /\ <<>> \in Seq(Word) /\ Len(<<>>) = 0
    OBVIOUS
  <2>4. ASSUME CBase' + Len(cin') = CBase + Len(a)
        PROVE  /\ CBase' + Len(cin') + Len(s2c') = CPos + Len(s2c)
               /\ \A i \in 1..Len(cin') : AnswerAt(CBase' + i, cin'[i])
               /\ \A i \in 1..Len(s2c') : AnswerAt(CBase' + Len(cin') + i, s2c'[i])
               /\ cin' \in Seq(Word) /\ Len(cin') = 0
    <3>1. cin' \in Seq(Word) /\ Len(cin') = 0
      BY <2>1, <2>3
    <3>2. \A i \in 1..Len(cin') : AnswerAt(CBase' + i, cin'[i])
      BY <3>1
    <3> QED BY <1>2, <2>4, <3>1, <3>2
  <2>5. CASE cpc = "r_method"
    <3>1. Len(a) = 2 /\ CBase = 0
      BY <1>2, <1>9, <2>5 DEF Complete, CBase
    <3>2. AnswerAt(2, a[2])
      <4>1. CBase + 2 = 2
        BY <3>1
      <4> QED BY <1>7, <3>1, <4>1
    <3>3. a[2] = Offered
      <4>1. a[2] \in {"NONE", "USER"}
        BY <1>9, <2>5 DEF Accept
      <4> QED BY <3>2, <4>1 DEF AnswerAt
    <3>4. CASE cred = NoCred
      <4>1. a[2] = "NONE" /\ AL = 0 /\ CL = 0
        BY <3>3, <3>4 DEF Offered, AL, CL
      <4>2. cpc' = IF pipeline THEN "r_response" ELSE "w_request"
        BY <2>1, <2>5, <4>1 DEF After
      <4>3. CBase' = 2 /\ Wrote' = Wrote
        BY <2>2, <2>5, <4>1, <4>2 DEF CBase, Wrote, CWrites
      <4>4. CBase' + Len(cin') = CBase + Len(a)
        BY <2>1, <2>3, <3>1, <4>3
      <4>5. cpc' \in CReads \/ cpc' \in CWrites
        BY <4>2 DEF CReads, CWrites
      <4>6. (cpc \in {"r_method", "r_creds"} /\ ~pipeline) <=>
              (cpc' \in CWrites \/ (~pipeline /\ cpc' \in {"r_method", "r_creds"}))
        BY <2>5, <4>2 DEF CWrites
      <4>7. cpc' # "r_creds" /\ cpc' # "w_creds"
        BY <4>2
      <4>8. /\ CBase' + Len(cin') + Len(s2c') = CPos + Len(s2c)
            /\ \A i \in 1..Len(cin') : AnswerAt(CBase' + i, cin'[i])
            /\ \A i \in 1..Len(s2c') : AnswerAt(CBase' + Len(cin') + i, s2c'[i])
            /\ cin' \in Seq(Word) /\ Len(cin') = 0
        BY <2>4, <4>4
      <4> QED BY <1>1, <1>2, <1>5, <1>6, <1>9, <2>1, <4>3, <4>5, <4>6, <4>7, <4>8, CReadsOn
    <3>5. CASE cred # NoCred
      <4>1. a[2] = "USER" /\ AL = 2 /\ CL = 3
        BY <3>3, <3>5 DEF Offered, AL, CL
      <4>2. cpc' = IF pipeline THEN "r_creds" ELSE "w_creds"
        BY <2>1, <2>5, <4>1 DEF After
      <4>3. CBase' = 2 /\ Wrote' = Wrote
        BY <2>2, <2>5, <4>1, <4>2 DEF CBase, Wrote, CWrites
      <4>4. CBase' + Len(cin') = CBase + Len(a)
        BY <2>1, <2>3, <3>1, <4>3
      <4>5. cpc' \in CReads \/ cpc' \in CWrites
        BY <4>2 DEF CReads, CWrites
      <4>6. (cpc \in {"r_method", "r_creds"} /\ ~pipeline) <=>
              (cpc' \in CWrites \/ (~pipeline /\ cpc' \in {"r_method", "r_creds"}))
        BY <2>5, <4>2 DEF CWrites
      <4>8. /\ CBase' + Len(cin') + Len(s2c') = CPos + Len(s2c)
            /\ \A i \in 1..Len(cin') : AnswerAt(CBase' + i, cin'[i])
            /\ \A i \in 1..Len(s2c') : AnswerAt(CBase' + Len(cin') + i, s2c'[i])
            /\ cin' \in Seq(Word) /\ Len(cin') = 0
        BY <2>4, <4>4
      <4> QED BY <1>1, <1>2, <1>5, <1>6, <1>9, <2>1, <4>1, <4>3, <4>5, <4>6, <4>8, CReadsOn
    <3> QED BY <3>4, <3>5
  <2>6. CASE cpc = "r_creds"
    <3>1. Len(a) = 2 /\ CBase = 2 /\ AL = 2
      BY <1>2, <1>9, <2>6 DEF Complete, CBase, HandInv, DownOK, CWrites
    <3>2. cpc' = IF pipeline THEN "r_response" ELSE "w_request"
      BY <2>1, <2>6 DEF After
    <3>3. CBase' = 4 /\ Wrote' = Wrote
      BY <2>2, <2>6, <3>1, <3>2 DEF CBase, Wrote, CWrites
    <3>4. CBase' + Len(cin') = CBase + Len(a)
      BY <2>1, <2>3, <3>1, <3>3
    <3>5. cpc' \in CReads \/ cpc' \in CWrites
      BY <3>2 DEF CReads, CWrites
    <3>6. (cpc \in {"r_method", "r_creds"} /\ ~pipeline) <=>
            (cpc' \in CWrites \/ (~pipeline /\ cpc' \in {"r_method", "r_creds"}))
      BY <2>6, <3>2 DEF CWrites
    <3>7. /\ CBase' + Len(cin') + Len(s2c') = CPos + Len(s2c)
          /\ \A i \in 1..Len(cin') : AnswerAt(CBase' + i, cin'[i])
          /\ \A i \in 1..Len(s2c') : AnswerAt(CBase' + Len(cin') + i, s2c'[i])
          /\ cin' \in Seq(Word) /\ Len(cin') = 0
      BY <2>4, <3>4
    <3> QED BY <1>1, <1>2, <1>5, <1>6, <1>9, <2>1, <3>1, <3>3, <3>5, <3>6, <3>7, CReadsOn
  <2>7. CASE cpc = "r_response"
    <3>1. cpc' = "ok"
      BY <2>1, <2>7 DEF After
    <3>2. a[2] = "SUCC" /\ CBase = 2 + AL /\ Len(a) = 3
      BY <1>2, <1>9, <2>7 DEF Accept, Complete, CBase, CWrites
    <3>3. AnswerAt(2 + AL + 2, a[2])
      BY <1>7, <3>2
    <3>4. spc \in {"serve", "done"} /\ rep = "SUCC" /\ Served5
      <4>1. 2 + AL + 2 = 4 + AL
        BY <1>4
      <4> QED BY <3>2, <3>3, <4>1 DEF AnswerAt
    <3>5. /\ Refs' /\ ServerOK'
          /\ UNCHANGED <<spc, sin, guarded, method, req, rep, stype, obj, users, admin, sshut>>
          /\ UNCHANGED <<SBase, SPos, Answered, Reading5, Served5, CL, AL, Offered, Request>>
      BY <1>1, <2>1, ClientFrame
    <3>6. Wrote' = Wrote /\ ~Reading5
      BY <2>2, <2>7, <3>1, <3>4 DEF Wrote, Reading5, SReads
    <3>7. Shapes'
      <4>1. cshut' = (cpc' \in {"fail", "closed"})
        <5>1. ~cshut /\ cshut' = cshut
          BY <1>1, <1>9, <2>7 DEF HandInv, Shapes
        <5>2. cshut \in BOOLEAN
          BY DEF HandInv, Shapes
        <5>3. cpc' \notin {"fail", "closed"}
          BY <3>1
        <5> QED BY <5>1, <5>2, <5>3
      <4>2. Len(s2c') <= Answered'
        <5>1. Answered \in Nat /\ Len(s2c) <= Answered
          BY DEF Answered, AL, HandInv, Shapes
        <5> QED BY <1>6, <3>5, <5>1, <1>2
      <4> QED BY <1>1, <1>2, <2>1, <2>2, <2>3, <3>1, <3>5, <3>6, <4>1, <4>2 DEF HandInv, Shapes
    <3>8. Address'
      BY <1>9, <2>2, <2>7, <3>1, <3>5 DEF HandInv, Address, CWrites
    <3>9. UpOK'
      BY <1>1, <3>4, <3>5, <3>6 DEF HandInv, UpOK
    <3>10. DownOK'
      BY <3>1, <3>4, <3>5 DEF DownOK, CEnded
    <3>11. SmoothOK'
      <4>1. Granted' => Granted
        BY <1>9, <2>2, <3>5 DEF Granted
      <4> QED BY <1>5, <3>1, <3>5, <4>1 DEF HandInv, SmoothOK, CEnded
    <3> QED BY <3>5, <3>7, <3>8, <3>9, <3>10, <3>11 DEF HandInv
  <2> QED BY <1>1, <2>5, <2>6, <2>7 DEF CReads
<1>10. CASE Complete(cpc, a) /\ ~Accept(cpc, a) /\ CFail(owner) /\ UNCHANGED excuse
  <2>1. UNCHANGED <<cred, guarded>>
    BY <1>1, <1>10 DEF CFail, CGo, options, ServerSide, server
  <2>2. ~Granted
    <3> SUFFICES ASSUME Granted PROVE FALSE
      OBVIOUS
    <3>1. a[Len(a)] # "DENY" /\ a[Len(a)] # "FAIL"
      <4>1. s2c \in Seq(Word) /\ cin \in Seq(Word)
        BY DEF HandInv, Shapes
      <4>2. a[Len(a)] = s2c[1]
        BY <1>1, <1>2, <4>1, Popped, Pushed DEF a
      <4>3. 1 \in 1..Len(s2c)
        BY <1>2
      <4> QED BY <4>2, <4>3 DEF HandInv, SmoothOK
    <3>2. CASE cpc = "r_method"
      <4>1. Len(a) = 2 /\ CBase = 0
        BY <1>2, <1>10, <3>2 DEF Complete, CBase
      <4>2. AnswerAt(1, a[1]) /\ AnswerAt(2, a[2])
        <5>1. CBase + 1 = 1 /\ CBase + 2 = 2
          BY <4>1
        <5> QED BY <1>7, <4>1, <5>1
      <4>3. a[1] = "v5" /\ a[2] = Offered
        BY <3>1, <4>1, <4>2 DEF AnswerAt
      <4> QED BY <1>10, <3>2, <4>3 DEF Accept, Offered
    <3>3. CASE cpc = "r_creds"
      <4>1. Len(a) = 2 /\ CBase = 2 /\ AL = 2
        BY <1>2, <1>10, <3>3 DEF Complete, CBase, HandInv, DownOK, CWrites
      <4>2. AnswerAt(3, a[1]) /\ AnswerAt(4, a[2])
        <5>1. CBase + 1 = 3 /\ CBase + 2 = 4
          BY <4>1
        <5> QED BY <1>7, <4>1, <5>1
      <4>3. a[1] = "v1" /\ a[2] = "SUCC"
        BY <3>1, <4>1, <4>2 DEF AnswerAt
      <4>4. a = <<"v1", "SUCC">>
        <5>1. a = <<a[1], a[2]>>
          BY <1>2, <4>1, OfTwo
        <5> QED BY <4>3, <5>1
      <4> QED BY <1>10, <3>3, <4>4 DEF Accept
    <3>4. CASE cpc = "r_response"
      <4>1. Len(a) >= 2 /\ CBase = 2 + AL
        BY <1>2, <1>10, <3>4 DEF Complete, CBase, CWrites
      <4>2. AnswerAt(2 + AL + 1, a[1]) /\ AnswerAt(2 + AL + 2, a[2])
        BY <1>7, <4>1
      <4>3. 2 + AL + 1 = 3 + AL /\ 2 + AL + 2 = 4 + AL
        BY <1>4
      <4>4. a[1] = "v5" /\ a[2] = rep
        BY <4>2, <4>3 DEF AnswerAt
      <4>5. rep = "SUCC"
        BY DEF HandInv, SmoothOK
      <4> QED BY <1>10, <3>4, <4>4, <4>5 DEF Accept
    <3> QED BY <1>1, <3>2, <3>3, <3>4 DEF CReads
  <2>3. ~Granted'
    BY <1>10, <2>1, <2>2 DEF Granted
  <2> QED BY <1>1, <1>2, <1>6, <1>10, <2>3, FailInv
<1>11. CASE CFail(owner) /\ excuse' # {}
  <2>1. ~Granted'
    BY <1>11 DEF Granted
  <2> QED BY <1>1, <1>2, <1>6, <1>11, <2>1, FailInv
<1> QED BY <1>3, <1>8, <1>9, <1>10, <1>11

-----------------------------------------------------------------------------
(* The server.                                                             *)

(* Steps of the server leave all that the client knows alone.              *)
LEMMA ServerFrame ==
  ASSUME HandInv, ClientSide, spc # "done"
  PROVE  /\ UNCHANGED <<cpc, options, pipeline, type, cred, cin, owner, cshut>>
         /\ UNCHANGED <<Wrote, CBase, CPos, CEnded, CL, AL, Offered, Request>>
         /\ \A k : Stream(k)' = Stream(k)
         /\ CL \in {0, 3} /\ AL \in {0, 2} /\ Wrote \in Nat /\ Wrote <= 6 + CL /\ CPos \in Nat
         /\ Address'
<1>1. UNCHANGED <<cpc, options, pipeline, type, cred, cin, owner, cshut>>
  BY DEF ClientSide, client, options
<1>2. /\ UNCHANGED <<CL, AL, Offered, Request>> /\ \A k : Stream(k)' = Stream(k)
      /\ CL \in {0, 3} /\ AL \in {0, 2}
  BY <1>1, SameStream DEF CL, AL
<1>3. UNCHANGED <<Wrote, CBase, CPos, CEnded>>
  BY <1>1, <1>2 DEF Wrote, CBase, CPos, CEnded
<1>4. Wrote \in Nat /\ Wrote <= 6 + CL
  BY <1>2 DEF Wrote
<1>5. CPos \in Nat
  BY <1>2 DEF CPos, CBase, HandInv, Shapes
<1>6. Address'
  BY <1>1 DEF HandInv, Address
<1> QED BY <1>1, <1>2, <1>3, <1>4, <1>5, <1>6

(* The session of the server ends, after what it wrote last.               *)
LEMMA SEndInv ==
  ASSUME HandInv, ClientSide, SEnd, spc # "done", c2s' = c2s,
         s2c' \in Seq(Word), Len(s2c') <= 5 + AL,
         ~CEnded => /\ CPos + Len(s2c') <= 5 + AL
                    /\ (\A i \in 1..Len(s2c) : AnswerAt(CPos + i, s2c[i]))',
         ~Granted' \/ (spc = "serve" /\ s2c' = s2c /\ excuse' = excuse)
  PROVE  HandInv'
<1>1. /\ spc' = "done" /\ sin' = <<>> /\ UNCHANGED <<guarded, method, req, rep, stype>>
      /\ sshut' = TRUE /\ Release
  BY DEF SEnd, SGo
<1>2. /\ UNCHANGED <<cpc, options, pipeline, type, cred, cin, owner, cshut>>
      /\ UNCHANGED <<Wrote, CBase, CPos, CEnded, CL, AL, Offered, Request>>
      /\ CL \in {0, 3} /\ AL \in {0, 2} /\ Wrote \in Nat /\ CPos \in Nat
      /\ Address'
  BY ServerFrame
<1>3. Refs' /\ obj' = "none" /\ admin' = admin /\ (admin => users' = users)
  BY <1>1, ReleaseRefs DEF HandInv
<1>4. Answered' = 5 + AL /\ ~Reading5' /\ Served5' = Served5
  BY <1>1, <1>2 DEF Answered, Reading5, SReads, Served5
<1>5. Shapes'
  <2>1. <<>> \in Seq(Part) /\ Len(<<>>) < 3
    OBVIOUS
  <2>2. sshut' = (spc' = "done")
    BY <1>1
  <2>3. cshut' = (cpc' \in {"fail", "closed"})
    BY <1>2 DEF HandInv, Shapes
  <2>4. Len(c2s') <= Wrote'
    BY <1>2 DEF HandInv, Shapes
  <2> QED BY <1>1, <1>2, <1>4, <2>1, <2>2, <2>3, <2>4 DEF HandInv, Shapes
<1>6. UpOK'
  BY <1>1, <1>2, <1>4 DEF HandInv, UpOK
<1>7. DownOK'
  <2>1. ASSUME ~CEnded, NEW i \in 1..Len(cin) PROVE AnswerAt(CBase + i, cin[i])'
    <3>1. AnswerAt(CBase + i, cin[i])
      BY <2>1 DEF HandInv, DownOK
    <3> QED BY <1>1, <1>2, <3>1, SameAnswer
  <2> QED BY <1>1, <1>2, <1>4, <2>1 DEF HandInv, DownOK
<1>8. ServerOK'
  BY <1>1 DEF ServerOK
<1>9. SmoothOK'
  <2> SUFFICES ASSUME Granted' PROVE SmoothOK'
    BY DEF SmoothOK
  <2>1. Granted /\ spc = "serve" /\ s2c' = s2c
    BY <1>1, <1>2 DEF Granted
  <2>2. Answered = 5 + AL
    BY <2>1 DEF Answered
  <2>3. ~CEnded => CPos + Len(s2c) = Answered
    BY <2>1 DEF HandInv, DownOK
  <2> QED BY <1>1, <1>2, <1>3, <1>4, <2>1, <2>2, <2>3 DEF HandInv, SmoothOK
<1> QED BY <1>2, <1>3, <1>5, <1>6, <1>7, <1>8, <1>9 DEF HandInv

(* What is under way stays, when the server writes nothing more.           *)
LEMMA SKeeps ==
  ASSUME HandInv, ClientSide, spc # "done", s2c' = s2c,
         UNCHANGED <<rep, req, stype>>, spc' = "done"
  PROVE  /\ s2c' \in Seq(Word) /\ Len(s2c') <= 5 + AL
         /\ ~CEnded => /\ CPos + Len(s2c') <= 5 + AL
                       /\ (\A i \in 1..Len(s2c) : AnswerAt(CPos + i, s2c[i]))'
<1>1. /\ UNCHANGED options /\ CPos' = CPos /\ AL \in {0, 2} /\ CPos \in Nat
  BY ServerFrame
<1>2. Len(s2c) \in Nat /\ Answered \in Nat /\ Answered <= 5 + AL
  BY <1>1 DEF HandInv, Shapes, Answered
<1>3. s2c \in Seq(Word) /\ Len(s2c) <= Answered
  BY DEF HandInv, Shapes
<1>4. ASSUME ~CEnded
      PROVE  /\ CPos + Len(s2c) <= Answered
             /\ \A i \in 1..Len(s2c) : AnswerAt(CPos + i, s2c[i])
  BY <1>4 DEF HandInv, DownOK
<1>5. ASSUME ~CEnded, NEW i \in 1..Len(s2c)
      PROVE  AnswerAt(CPos + i, s2c[i])'
  <2>1. AnswerAt(CPos + i, s2c[i])
    BY <1>4, <1>5
  <2> QED BY <1>1, <2>1, SameAnswer
<1> QED BY <1>1, <1>2, <1>3, <1>4, <1>5

(* The server cannot send, or its service ends.                            *)
LEMMA SStopInv ==
  ASSUME HandInv, SSendFail \/ ServeEnd
  PROVE  HandInv'
<1>1. /\ spc # "done" /\ SEnd /\ ClientSide /\ UNCHANGED <<c2s, s2c, excuse>>
  BY DEF SSendFail, ServeEnd, SWrites
<1>2. /\ s2c' \in Seq(Word) /\ Len(s2c') <= 5 + AL
      /\ ~CEnded => /\ CPos + Len(s2c') <= 5 + AL
                    /\ (\A i \in 1..Len(s2c) : AnswerAt(CPos + i, s2c[i]))'
  BY <1>1, SKeeps DEF SEnd, SGo
<1>3. CASE ServeEnd
  BY <1>1, <1>2, <1>3, SEndInv DEF ServeEnd
<1>4. CASE SSendFail
  <2>1. spc \in SWrites /\ cshut
    BY <1>4 DEF SSendFail
  <2>2. cpc = "fail"
    BY <2>1 DEF HandInv, Shapes, DownOK, SWrites
  <2>3. UNCHANGED <<cred, guarded>>
    BY <1>1 DEF ClientSide, client, options, SEnd, SGo
  <2>4. ~Granted'
    BY <1>1, <2>2, <2>3 DEF HandInv, SmoothOK, Granted
  <2> QED BY <1>1, <1>2, <2>4, SEndInv
<1> QED BY <1>3, <1>4

(* An answer continues the answers where the server is.                    *)
LEMMA SAnswers ==
  ASSUME HandInv, ClientSide, spc \in SWrites, UNCHANGED <<rep, req, stype>>, spc' = Goes(spc)
  PROVE  LET m == Answer(spc)
         IN  /\ m \in Seq(Word) /\ Len(m) \in {2, 3}
             /\ Answered \in Nat /\ Answered' \in Nat
             /\ Answered + Len(m) <= Answered' /\ Answered' <= 5 + AL
             /\ spc' # "done" => Answered + Len(m) = Answered'
             /\ \A i \in 1..Len(m) : \A k, x : k = Answered + i /\ x = m[i] => AnswerAt(k, x)'
             /\ Granted => spc' # "done" /\ \A i \in 1..Len(m) : m[i] # "DENY" /\ m[i] # "FAIL"
<1> DEFINE m == Answer(spc)
<1>1. /\ AL' = AL /\ AL \in {0, 2} /\ Offered' = Offered /\ Request' = Request /\ type' = type
  BY ServerFrame DEF SWrites
<1>2. Served5' = Served5
  BY <1>1 DEF Served5
<1>3. CASE spc = "w_method"
  <2>1. m = <<"v5", method>> /\ method \in {Offered, "DENY"}
    BY <1>3 DEF Answer, HandInv, ServerOK
  <2>2. spc' \in {"r_user", "r_request", "done"} /\ (spc' = "r_request" => method = "NONE")
    BY <1>3 DEF Goes
  <2>3. m \in Seq(Word) /\ Len(m) = 2 /\ m[1] = "v5" /\ m[2] = method
    BY <2>1 DEF Offered, Word
  <2>4. method = "NONE" => AL = 0
    BY <2>1 DEF Offered, AL
  <2>5. Answered = 0 /\ Answered' = IF spc' = "r_user" THEN 2 ELSE IF spc' = "r_request" THEN 2 + AL ELSE 5 + AL
    BY <1>1, <1>3, <2>2 DEF Answered
  <2>6. ASSUME NEW i \in 1..Len(m), NEW k, NEW x, k = Answered + i, x = m[i]
        PROVE  AnswerAt(k, x)'
    <3>1. (k = 1 /\ x = "v5") \/ (k = 2 /\ x \in {Offered, "DENY"})
      BY <2>1, <2>3, <2>5, <2>6
    <3> QED BY <1>1, <3>1 DEF AnswerAt
  <2>7. ASSUME Granted
        PROVE  spc' # "done" /\ \A i \in 1..Len(m) : m[i] # "DENY" /\ m[i] # "FAIL"
    <3>1. method = Offered /\ method \in {"USER", "NONE"}
      BY <1>3, <2>7 DEF HandInv, SmoothOK, Offered
    <3>2. spc' # "done"
      BY <1>3, <3>1 DEF Goes
    <3> QED BY <2>3, <3>1, <3>2
  <2>8. /\ Answered \in Nat /\ Answered' \in Nat
        /\ Answered + 2 <= Answered' /\ Answered' <= 5 + AL
        /\ spc' # "done" => Answered + 2 = Answered'
    BY <1>1, <2>2, <2>4, <2>5
  <2> QED BY <2>3, <2>6, <2>7, <2>8
<1>4. CASE spc = "w_user"
  <2>1. AL = 2
    BY <1>4 DEF HandInv, ServerOK, AL
  <2>2. m = <<"v1", IF method = "USER" THEN "SUCC" ELSE "FAIL">>
    BY <1>4 DEF Answer
  <2>3. m \in Seq(Word) /\ Len(m) = 2 /\ m[1] = "v1" /\ m[2] \in {"SUCC", "FAIL"}
    BY <2>2 DEF Word
  <2>4. spc' = IF method = "USER" THEN "r_request" ELSE "done"
    BY <1>4 DEF Goes
  <2>5. Answered = 2 /\ Answered' = IF spc' = "done" THEN 7 ELSE 4
    BY <1>1, <1>4, <2>1, <2>4 DEF Answered
  <2>6. ASSUME NEW i \in 1..Len(m), NEW k, NEW x, k = Answered + i, x = m[i]
        PROVE  AnswerAt(k, x)'
    <3>1. (k = 3 /\ x = "v1") \/ (k = 4 /\ x \in {"SUCC", "FAIL"})
      BY <2>3, <2>5, <2>6
    <3> QED BY <1>1, <2>1, <3>1 DEF AnswerAt
  <2>7. ASSUME Granted
        PROVE  spc' # "done" /\ \A i \in 1..Len(m) : m[i] # "DENY" /\ m[i] # "FAIL"
    <3>1. method = "USER"
      BY <1>4, <2>7 DEF HandInv, SmoothOK
    <3> QED BY <2>2, <2>4, <3>1
  <2>8. /\ Answered \in Nat /\ Answered' \in Nat
        /\ Answered + 2 <= Answered' /\ Answered' <= 5 + AL
        /\ spc' # "done" => Answered + 2 = Answered'
    BY <2>1, <2>5
  <2> QED BY <2>3, <2>6, <2>7, <2>8
<1>5. CASE spc = "w_response"
  <2>1. m = <<"v5", rep, "bound">>
    BY <1>5 DEF Answer
  <2>2. m \in Seq(Word) /\ Len(m) = 3 /\ m[1] = "v5" /\ m[2] = rep /\ m[3] = "bound"
    BY <2>1 DEF HandInv, Shapes, Word
  <2>3. spc' = IF rep = "SUCC" THEN "serve" ELSE "done"
    BY <1>5 DEF Goes
  <2>4. Answered = 2 + AL /\ Answered' = 5 + AL
    BY <1>1, <1>5, <2>3 DEF Answered
  <2>5. rep = "SUCC" => Served5
    BY <1>5 DEF HandInv, ServerOK
  <2>6. ASSUME NEW i \in 1..Len(m), NEW k, NEW x, k = Answered + i, x = m[i]
        PROVE  AnswerAt(k, x)'
    <3>1. (k = 3 + AL /\ x = "v5") \/ (k = 4 + AL /\ x = rep) \/ (k = 5 + AL)
      BY <1>1, <2>2, <2>4, <2>6
    <3> QED BY <1>1, <1>2, <2>3, <2>5, <3>1 DEF AnswerAt
  <2>7. ASSUME Granted
        PROVE  spc' # "done" /\ \A i \in 1..Len(m) : m[i] # "DENY" /\ m[i] # "FAIL"
    <3>1. rep = "SUCC"
      BY <2>7 DEF HandInv, SmoothOK
    <3> QED BY <2>2, <2>3, <3>1
  <2>8. /\ Answered \in Nat /\ Answered' \in Nat
        /\ Answered + 3 <= Answered' /\ Answered' <= 5 + AL /\ Answered + 3 = Answered'
    BY <1>1, <2>4
  <2> QED BY <2>2, <2>6, <2>7, <2>8
<1> QED BY <1>3, <1>4, <1>5 DEF SWrites

(* The server sends an answer.                                             *)
LEMMA SSendInv ==
  ASSUME HandInv, SSend
  PROVE  HandInv'
<1> DEFINE m == Answer(spc)
<1>1. /\ spc \in SWrites /\ spc # "done" /\ s2c' = s2c \o m /\ ClientSide
      /\ UNCHANGED <<c2s, excuse>>
      /\ spc' = Goes(spc) /\ sin' = <<>> /\ UNCHANGED <<guarded, method, req, rep, stype>>
  BY DEF SSend, SWrites, SEnd, SGo
<1>2. /\ m \in Seq(Word) /\ Len(m) \in {2, 3}
      /\ Answered \in Nat /\ Answered' \in Nat
      /\ Answered + Len(m) <= Answered' /\ Answered' <= 5 + AL
      /\ spc' # "done" => Answered + Len(m) = Answered'
      /\ \A i \in 1..Len(m) : \A k, x : k = Answered + i /\ x = m[i] => AnswerAt(k, x)'
      /\ Granted => spc' # "done" /\ \A i \in 1..Len(m) : m[i] # "DENY" /\ m[i] # "FAIL"
  BY <1>1, SAnswers
<1> HIDE DEF m
<1>3. /\ UNCHANGED <<cpc, options, pipeline, type, cred, cin, owner, cshut>>
      /\ UNCHANGED <<Wrote, CBase, CPos, CEnded, CL, AL, Offered, Request>>
      /\ \A k : Stream(k)' = Stream(k)
      /\ CL \in {0, 3} /\ AL \in {0, 2} /\ CPos \in Nat
      /\ Address'
  BY <1>1, ServerFrame
<1>4. /\ s2c' \in Seq(Word) /\ Len(s2c') = Len(s2c) + Len(m)
      /\ Len(s2c) \in Nat /\ Len(m) \in Nat
      /\ \A i \in 1..Len(s2c) : s2c'[i] = s2c[i]
      /\ \A i \in 1..Len(m) : s2c'[Len(s2c) + i] = m[i]
  <2>1. s2c \in Seq(Word) /\ s2c' = s2c \o m
    BY <1>1 DEF HandInv, Shapes
  <2> QED BY <1>2, <2>1, Joined
<1>5. Len(s2c') <= Answered'
  BY <1>2, <1>4 DEF HandInv, Shapes
<1>6. Granted' = Granted
  BY <1>1, <1>3 DEF Granted
<1>7. ASSUME ~CEnded
      PROVE  /\ CPos + Len(s2c') <= Answered' /\ (spc' # "done" => CPos + Len(s2c') = Answered')
             /\ (\A i \in 1..Len(cin) : AnswerAt(CBase + i, cin[i]))'
             /\ (\A i \in 1..Len(s2c) : AnswerAt(CPos + i, s2c[i]))'
  <2>1. /\ CPos + Len(s2c) = Answered
        /\ \A i \in 1..Len(cin) : AnswerAt(CBase + i, cin[i])
        /\ \A i \in 1..Len(s2c) : AnswerAt(CPos + i, s2c[i])
    BY <1>1, <1>7 DEF HandInv, DownOK
  <2>2. CPos + Len(s2c') <= Answered' /\ (spc' # "done" => CPos + Len(s2c') = Answered')
    BY <1>2, <1>3, <1>4, <2>1
  <2>3. ASSUME NEW k, NEW x, AnswerAt(k, x) PROVE AnswerAt(k, x)'
    <3>1. spc \notin {"serve", "done"}
      BY <1>1 DEF SWrites
    <3> QED BY <1>1, <1>3, <2>3, <3>1, SameAnswer
  <2>4. ASSUME NEW i \in 1..Len(s2c')
        PROVE  \A k, x : k = CPos + i /\ x = s2c'[i] => AnswerAt(k, x)'
    <3>1. CASE i <= Len(s2c)
      <4>1. i \in 1..Len(s2c)
        BY <1>4, <3>1
      <4> QED BY <1>4, <2>1, <2>3, <4>1
    <3>2. CASE i > Len(s2c)
      <4>1. /\ i - Len(s2c) \in 1..Len(m) /\ Len(s2c) + (i - Len(s2c)) = i
            /\ CPos + i = Answered + (i - Len(s2c))
        BY <1>3, <1>4, <2>1, <3>2
      <4>2. s2c'[i] = m[i - Len(s2c)]
        BY <1>4, <4>1
      <4> QED BY <1>2, <4>1, <4>2
    <3> QED BY <1>4, <3>1, <3>2
  <2> QED BY <1>3, <2>1, <2>2, <2>3, <2>4
<1>8. CASE Goes(spc) = "done"
  <2>1. SEnd /\ Answered' = 5 + AL
    BY <1>1, <1>3, <1>8 DEF SSend, Answered
  <2>2. ~Granted'
    BY <1>1, <1>2, <1>6, <1>8
  <2> QED BY <1>1, <1>4, <1>5, <1>7, <2>1, <2>2, SEndInv
<1>9. CASE Goes(spc) # "done"
  <2>1. /\ UNCHANGED <<objects, sshut>>
    BY <1>9 DEF SSend
  <2>2. UNCHANGED <<obj, users, aref, uref, admin, sshut>>
    BY <2>1 DEF objects
  <2>3. /\ spc = "w_method" => (method = "USER" /\ spc' = "r_user") \/ (method = "NONE" /\ spc' = "r_request")
        /\ spc = "w_user" => method = "USER" /\ spc' = "r_request"
        /\ spc = "w_response" => rep = "SUCC" /\ spc' = "serve"
    BY <1>1, <1>9 DEF Goes
  <2>4. Refs'
    BY <2>2 DEF HandInv, Refs, RefsExact
  <2>5. Shapes'
    <3>1. <<>> \in Seq(Part) /\ Len(<<>>) < 3
      OBVIOUS
    <3>2. sshut' = (spc' = "done")
      <4>1. ~sshut /\ sshut' = sshut /\ sshut \in BOOLEAN /\ spc' # "done"
        BY <1>1, <1>9, <2>2 DEF HandInv, Shapes
      <4> QED BY <4>1
    <3>3. cshut' = (cpc' \in {"fail", "closed"})
      BY <1>3 DEF HandInv, Shapes
    <3>4. spc' \in SReads \cup {"serve"}
      BY <1>1, <2>3 DEF SReads, SWrites
    <3> QED BY <1>1, <1>3, <1>4, <1>5, <3>1, <3>2, <3>3, <3>4 DEF HandInv, Shapes
  <2>6. UpOK'
    <3>1. CASE spc = "w_response"
      BY <1>1, <1>3, <2>3, <3>1 DEF HandInv, UpOK, Reading5, SReads
    <3>2. CASE spc # "w_response"
      <4>1. /\ Reading5 /\ SBase' = SBase
        <5>1. method = "NONE" /\ spc = "w_method" => CL = 0
          BY DEF HandInv, ServerOK, Offered, CL
        <5> QED BY <1>1, <1>3, <2>3, <3>2, <5>1 DEF Reading5, SBase, SWrites
      <4>2. sin = <<>> /\ SPos' = SPos
        BY <1>1, <4>1 DEF HandInv, Shapes, SWrites, SReads, SPos
      <4> QED BY <1>1, <1>3, <4>1, <4>2 DEF HandInv, UpOK
    <3> QED BY <3>1, <3>2
  <2>7. DownOK'
    <3>1. cpc \notin {"ok", "closed"}
      BY <1>1 DEF HandInv, DownOK, SWrites
    <3> QED BY <1>3, <1>7, <3>1 DEF HandInv, DownOK
  <2>8. ServerOK'
    <3>1. UNCHANGED <<Entitled, Served5>>
      BY <1>1, <1>3, <2>2 DEF Entitled, Served5
    <3>2. CASE spc = "w_method"
      BY <1>1, <1>3, <2>2, <2>3, <3>2 DEF HandInv, ServerOK, Entitled, Offered
    <3>3. CASE spc = "w_user"
      BY <1>1, <1>3, <2>2, <2>3, <3>1, <3>3 DEF HandInv, ServerOK
    <3>4. CASE spc = "w_response"
      BY <1>1, <1>3, <2>2, <2>3, <3>1, <3>4 DEF HandInv, ServerOK
    <3> QED BY <1>1, <3>2, <3>3, <3>4 DEF SWrites
  <2>9. SmoothOK'
    <3> SUFFICES ASSUME Granted' PROVE SmoothOK'
      BY DEF SmoothOK
    <3>1. \A i \in 1..Len(s2c') : s2c'[i] # "DENY" /\ s2c'[i] # "FAIL"
      <4> SUFFICES ASSUME NEW i \in 1..Len(s2c') PROVE s2c'[i] # "DENY" /\ s2c'[i] # "FAIL"
        OBVIOUS
      <4>1. CASE i <= Len(s2c)
        BY <1>4, <1>6, <4>1 DEF HandInv, SmoothOK
      <4>2. CASE i > Len(s2c)
        <5>1. i - Len(s2c) \in 1..Len(m) /\ Len(s2c) + (i - Len(s2c)) = i
          BY <1>4, <4>2
        <5>2. s2c'[i] = m[i - Len(s2c)]
          BY <1>4, <5>1
        <5>3. Granted
          BY <1>6
        <5>4. m[i - Len(s2c)] # "DENY" /\ m[i - Len(s2c)] # "FAIL"
          BY <1>2, <5>1, <5>3
        <5> QED BY <5>2, <5>4
      <4> QED BY <1>4, <4>1, <4>2
    <3>2. spc' \notin {"w_method", "w_user", "w_response", "done"} /\ (spc' = "serve" => spc = "w_response")
      BY <1>1, <2>3 DEF SWrites
    <3> QED BY <1>1, <1>3, <1>6, <2>2, <3>1, <3>2 DEF HandInv, SmoothOK
  <2> QED BY <1>3, <2>4, <2>5, <2>6, <2>7, <2>8, <2>9 DEF HandInv
<1> QED BY <1>8, <1>9

(* The part read next continues the message that is being read.            *)
LEMMA NextOfStream ==
  ASSUME HandInv, spc \in SReads, c2s # <<>>
  PROVE  LET a == Append(sin, Head(c2s))
         IN  /\ a \in Seq(Part) /\ Len(a) = Len(sin) + 1 /\ Len(a) \in 1..3
             /\ Tail(c2s) \in Seq(Part) /\ Len(Tail(c2s)) \in Nat
             /\ Len(Tail(c2s)) + 1 = Len(c2s)
             /\ SBase + Len(a) + Len(Tail(c2s)) = SPos + Len(c2s)
             /\ SBase \in Nat /\ SPos \in Nat
             /\ \A i \in 1..Len(a) : a[i] = Stream(SBase + i)
             /\ \A i \in 1..Len(Tail(c2s)) : Tail(c2s)[i] = Stream(SBase + Len(a) + i)
<1> DEFINE a == Append(sin, Head(c2s))
           t == Tail(c2s)
<1>1. sin \in Seq(Part) /\ c2s \in Seq(Part) /\ Len(sin) \in Nat /\ Len(sin) < 3
  BY DEF HandInv, Shapes
<1>2. /\ Len(c2s) \in Nat /\ Len(c2s) >= 1 /\ Head(c2s) = c2s[1] /\ c2s[1] \in Part
      /\ t \in Seq(Part) /\ Len(t) = Len(c2s) - 1
      /\ \A i \in 1..Len(t) : t[i] = c2s[i + 1]
  BY <1>1, Popped
<1>3. /\ a \in Seq(Part) /\ Len(a) = Len(sin) + 1 /\ a[Len(sin) + 1] = c2s[1]
      /\ \A i \in 1..Len(sin) : a[i] = sin[i]
  BY <1>1, <1>2, Pushed
<1>4. SBase \in Nat /\ SPos = SBase + Len(sin) /\ SPos \in Nat
  BY <1>1 DEF SBase, SPos, CL
<1> HIDE DEF a, t
<1>5. /\ \A i \in 1..Len(sin) : sin[i] = Stream(SBase + i)
      /\ \A i \in 1..Len(c2s) : c2s[i] = Stream(SPos + i)
  BY DEF HandInv, UpOK, Reading5
<1>6. ASSUME NEW i \in 1..Len(a) PROVE a[i] = Stream(SBase + i)
  <2>1. CASE i <= Len(sin)
    BY <1>1, <1>3, <1>5, <2>1
  <2>2. CASE i > Len(sin)
    <3>1. i = Len(sin) + 1 /\ SBase + i = SPos + 1 /\ 1 \in 1..Len(c2s)
      <4>1. Len(a) = Len(sin) + 1 /\ i \in 1..Len(a)
        BY <1>3
      <4>2. i = Len(sin) + 1
        BY <1>1, <2>2, <4>1
      <4>3. 1 \in 1..Len(c2s)
        BY <1>2
      <4> QED BY <1>1, <1>4, <4>2, <4>3
    <3>2. c2s[1] = Stream(SPos + 1)
      BY <1>5, <3>1
    <3> QED BY <1>3, <3>1, <3>2
  <2> QED BY <1>1, <1>3, <2>1, <2>2
<1>7. ASSUME NEW i \in 1..Len(t) PROVE t[i] = Stream(SBase + Len(a) + i)
  <2>1. SBase + Len(a) + i = SPos + (i + 1) /\ i + 1 \in 1..Len(c2s)
    BY <1>1, <1>2, <1>3, <1>4
  <2>2. c2s[i + 1] = Stream(SPos + (i + 1))
    BY <1>5, <2>1
  <2> QED BY <1>2, <2>1, <2>2
<1>8. /\ Len(t) \in Nat /\ Len(t) + 1 = Len(c2s) /\ Len(a) \in 1..3
      /\ SBase + Len(a) + Len(t) = SPos + Len(c2s)
  BY <1>1, <1>2, <1>3, <1>4
<1> QED BY <1>2, <1>3, <1>4, <1>6, <1>7, <1>8 DEF a, t

(* A step of the server that writes nothing and does not end leaves the    *)
(* answers alone: those under way come before the response.                *)
LEMMA SMoves ==
  ASSUME HandInv, ClientSide, UNCHANGED <<s2c, sshut, guarded>>,
         spc \in SReads \cup {"act"}, spc' \in SReads \cup SWrites \cup {"act"},
         Answered' = Answered,
         method' \in {"DENY", "NONE", "USER"}, stype' \in Type \cup {"NONE"},
         rep' \in {"SUCC", "FAIL", "HOST", "ADDR", "IMPL"},
         sin' \in Seq(Part), Len(sin') < 3, spc' \notin SReads => sin' = <<>>,
         c2s' \in Seq(Part), Len(c2s') <= Len(c2s)
  PROVE  Shapes' /\ Address' /\ DownOK'
<1>1. /\ UNCHANGED <<cpc, options, pipeline, type, cred, cin, owner, cshut>>
      /\ UNCHANGED <<Wrote, CBase, CPos, CEnded, CL, AL, Offered, Request>>
      /\ AL \in {0, 2} /\ Wrote \in Nat /\ CPos \in Nat /\ Address'
  BY ServerFrame DEF SReads
<1>2. spc \notin {"serve", "done"} /\ spc' \notin {"serve", "done"}
  BY DEF SReads, SWrites
<1>3. Answered \in Nat /\ Answered <= 2 + AL
  BY <1>1 DEF Answered, SReads
<1>4. Shapes'
  <2>1. sshut' = (spc' = "done")
    <3>1. ~sshut /\ sshut' = sshut /\ sshut \in BOOLEAN
      BY <1>2 DEF HandInv, Shapes
    <3> QED BY <1>2, <3>1
  <2>2. cshut' = (cpc' \in {"fail", "closed"})
    BY <1>1 DEF HandInv, Shapes
  <2>3. Len(c2s') <= Wrote'
    <3>1. Len(c2s) <= Wrote /\ Len(c2s) \in Nat /\ Len(c2s') \in Nat
      BY DEF HandInv, Shapes
    <3> QED BY <1>1, <3>1
  <2> QED BY <1>1, <2>1, <2>2, <2>3 DEF HandInv, Shapes
<1>5. DownOK'
  <2>1. cpc \notin {"ok", "closed"}
    BY <1>2 DEF HandInv, DownOK
  <2>2. ASSUME ~CEnded
        PROVE  /\ CPos + Len(s2c) = Answered
               /\ (\A i \in 1..Len(cin) : AnswerAt(CBase + i, cin[i]))'
               /\ (\A i \in 1..Len(s2c) : AnswerAt(CPos + i, s2c[i]))'
    <3>1. /\ CPos + Len(s2c) = Answered
          /\ \A i \in 1..Len(cin) : AnswerAt(CBase + i, cin[i])
          /\ \A i \in 1..Len(s2c) : AnswerAt(CPos + i, s2c[i])
      BY <1>2, <2>2 DEF HandInv, DownOK
    <3>2. CPos = CBase + Len(cin) /\ CBase \in Nat /\ Len(cin) \in Nat /\ Len(s2c) \in Nat
      BY <1>1 DEF CPos, CBase, HandInv, Shapes
    <3>3. CBase + Len(cin) <= 2 + AL /\ CPos + Len(s2c) <= 2 + AL
      BY <1>1, <1>3, <3>1, <3>2
    <3>4. ASSUME NEW i \in 1..Len(cin) PROVE AnswerAt(CBase + i, cin[i])'
      <4>1. CBase + i \in Nat /\ CBase + i <= 2 + AL
        BY <1>1, <3>2, <3>3
      <4>2. AnswerAt(CBase + i, cin[i])
        BY <3>1
      <4> QED BY <1>1, <4>1, <4>2, SameAnswer
    <3>5. ASSUME NEW i \in 1..Len(s2c) PROVE AnswerAt(CPos + i, s2c[i])'
      <4>1. CPos + i \in Nat /\ CPos + i <= 2 + AL
        BY <1>1, <3>2, <3>3
      <4>2. AnswerAt(CPos + i, s2c[i])
        BY <3>1
      <4> QED BY <1>1, <4>1, <4>2, SameAnswer
    <3> QED BY <1>1, <3>1, <3>4, <3>5
  <2>3. ~CEnded => CPos' + Len(s2c') <= Answered'
    BY <1>1, <1>3, <2>2
  <2> QED BY <1>1, <2>1, <2>2, <2>3 DEF HandInv, DownOK
<1> QED BY <1>1, <1>4, <1>5

(* A server that reads on: the message goes on, or the next one begins.    *)
LEMMA SReadsOn ==
  ASSUME HandInv, ClientSide, spc \in SReads, c2s # <<>>, c2s' = Tail(c2s),
         UNCHANGED <<req, rep>>,
         LET a == Append(sin, Head(c2s))
         IN  (sin' = a /\ SBase' = SBase) \/ (sin' = <<>> /\ SBase' = SBase + Len(a))
  PROVE  UpOK'
<1> DEFINE a == Append(sin, Head(c2s))
<1>1. /\ a \in Seq(Part) /\ Len(a) = Len(sin) + 1 /\ Len(a) \in 1..3
      /\ c2s' \in Seq(Part) /\ Len(c2s') \in Nat /\ Len(c2s') + 1 = Len(c2s)
      /\ SBase + Len(a) + Len(c2s') = SPos + Len(c2s) /\ SBase \in Nat /\ SPos \in Nat
      /\ \A i \in 1..Len(a) : a[i] = Stream(SBase + i)
      /\ \A i \in 1..Len(c2s') : c2s'[i] = Stream(SBase + Len(a) + i)
  BY NextOfStream
<1>2. (sin' = a /\ SBase' = SBase) \/ (sin' = <<>> /\ SBase' = SBase + Len(a))
  OBVIOUS
<1> HIDE DEF a
<1>3. /\ cpc' = cpc /\ Wrote' = Wrote /\ Wrote \in Nat /\ \A k : Stream(k)' = Stream(k)
  BY ServerFrame DEF SReads
<1>4. /\ req = <<>> /\ rep = "SUCC"
      /\ SPos + Len(c2s) <= Wrote /\ (cpc # "fail" => SPos + Len(c2s) = Wrote)
  BY DEF HandInv, UpOK, Reading5
<1>5. SPos' = SBase + Len(a)
  <2>1. Len(<<>>) = 0
    OBVIOUS
  <2>2. SPos' = SBase' + Len(sin')
    BY DEF SPos
  <2>3. Len(a) \in Nat /\ SBase \in Nat
    BY <1>1
  <2> QED BY <1>2, <2>1, <2>2, <2>3
<1>6. \A i \in 1..Len(sin') : sin'[i] = Stream(SBase' + i)
  <2>1. CASE sin' = a /\ SBase' = SBase
    BY <1>1, <2>1
  <2>2. CASE sin' = <<>>
    BY <2>2
  <2> QED BY <1>2, <2>1, <2>2
<1>7. SPos' + Len(c2s') <= Wrote' /\ (cpc # "fail" => SPos' + Len(c2s') = Wrote')
  BY <1>1, <1>3, <1>4, <1>5
<1>8. \A i \in 1..Len(c2s') : c2s'[i] = Stream(SPos' + i)
  BY <1>1, <1>5
<1> QED BY <1>3, <1>4, <1>6, <1>7, <1>8 DEF UpOK

(* The server reads a part of a message.                                   *)
LEMMA SRecvInv ==
  ASSUME HandInv, SRecv
  PROVE  HandInv'
<1> DEFINE a == Append(sin, Head(c2s))
<1>1. /\ spc \in SReads /\ spc # "done" /\ c2s # <<>> /\ c2s' = Tail(c2s) /\ ClientSide
      /\ UNCHANGED <<s2c, sshut, stype, excuse, guarded>>
  BY DEF SRecv, SReads, SGo
<1>2. /\ a \in Seq(Part) /\ Len(a) = Len(sin) + 1 /\ Len(a) \in 1..3
      /\ c2s' \in Seq(Part) /\ Len(c2s') \in Nat /\ Len(c2s') + 1 = Len(c2s)
      /\ SBase + Len(a) + Len(c2s') = SPos + Len(c2s) /\ SBase \in Nat /\ SPos \in Nat
      /\ \A i \in 1..Len(a) : a[i] = Stream(SBase + i)
  BY <1>1, NextOfStream
<1>3. /\ UNCHANGED <<cpc, options, pipeline, type, cred, cin, owner, cshut>>
      /\ UNCHANGED <<Wrote, CBase, CPos, CEnded, CL, AL, Offered, Request>>
      /\ CL \in {0, 3} /\ AL \in {0, 2} /\ Wrote \in Nat /\ Wrote <= 6 + CL
  BY <1>1, ServerFrame
<1>4. req = <<>> /\ rep = "SUCC" /\ SPos + Len(c2s) <= Wrote
  BY <1>1 DEF HandInv, UpOK, Reading5
<1>5. /\ Methods \in Seq(Part) /\ Len(Methods) = 3
      /\ Creds \in Seq(Part) /\ Len(Creds) = CL
      /\ Request \in Seq(Part) /\ Len(Request) = 3
      /\ \A i \in 1..3 : Stream(i) = Methods[i]
      /\ \A i \in 1..CL : Stream(3 + i) = Creds[i]
      /\ \A i \in 1..3 : Stream(3 + CL + i) = Request[i]
  BY Messages DEF HandInv, Shapes
<1>6. Len(c2s') <= Len(c2s) /\ Len(c2s) \in Nat
  BY <1>2
<1>7. Granted' = Granted
  BY <1>1, <1>3 DEF Granted
<1>8. <<>> \in Seq(Part) /\ Len(<<>>) = 0 /\ Len(<<>>) < 3
  OBVIOUS
<1>9. /\ method \in {"DENY", "NONE", "USER"} /\ stype' \in Type \cup {"NONE"}
      /\ rep \in {"SUCC", "FAIL", "HOST", "ADDR", "IMPL"}
  BY <1>1 DEF HandInv, Shapes
<1>10. \/ /\ Len(a) < 3 /\ sin' = a /\ UNCHANGED <<spc, method, req, rep, objects>>
       \/ /\ Len(a) = 3 /\ spc = "r_methods" /\ method' = Choose(a)
          /\ spc' = "w_method" /\ sin' = <<>> /\ UNCHANGED <<req, rep, objects>>
       \/ /\ Len(a) = 3 /\ spc = "r_user" /\ ReadUser(a)
          /\ spc' = "w_user" /\ sin' = <<>> /\ UNCHANGED <<req, rep>>
       \/ /\ Len(a) = 3 /\ spc = "r_request" /\ req' = a
          /\ rep' = (IF a[1] = "v5" THEN "SUCC" ELSE "FAIL")
          /\ spc' = "act" /\ sin' = <<>> /\ UNCHANGED <<method, objects>>
  BY DEF SRecv, SGo
<1>11. ASSUME (sin' = a /\ SBase' = SBase) \/ (sin' = <<>> /\ SBase' = SBase + Len(a)),
              UNCHANGED <<req, rep>>
       PROVE  UpOK'
  BY <1>1, <1>11, SReadsOn
<1> HIDE DEF a
<1>12. CASE Len(a) < 3 /\ sin' = a /\ UNCHANGED <<spc, method, req, rep, objects>>
  <2>1. UNCHANGED <<obj, users, aref, uref, admin>>
    BY <1>12 DEF objects
  <2>2. SBase' = SBase /\ Answered' = Answered
    BY <1>3, <1>12 DEF SBase, Answered
  <2>3. Shapes' /\ Address' /\ DownOK'
    BY <1>1, <1>2, <1>6, <1>9, <1>12, <2>2, SMoves
  <2>4. UpOK'
    BY <1>11, <1>12, <2>2
  <2>5. Refs'
    BY <2>1 DEF HandInv, Refs, RefsExact
  <2>6. ServerOK'
    BY <1>1, <1>3, <1>12, <2>1 DEF HandInv, ServerOK, Entitled, Served5
  <2>7. SmoothOK'
    BY <1>1, <1>3, <1>7, <1>12, <2>1, <2>2 DEF HandInv, SmoothOK, SReads
  <2> QED BY <2>3, <2>4, <2>5, <2>6, <2>7 DEF HandInv
<1>13. CASE /\ Len(a) = 3 /\ spc = "r_methods" /\ method' = Choose(a)
            /\ spc' = "w_method" /\ sin' = <<>> /\ UNCHANGED <<req, rep, objects>>
  <2>1. UNCHANGED <<obj, users, aref, uref, admin>>
    BY <1>13 DEF objects
  <2>2. SBase = 0 /\ SBase' = 3 /\ Answered' = Answered
    BY <1>13 DEF SBase, Answered
  <2>3. a[1] = "v5" /\ a[3] = Offered
    <3>1. ASSUME NEW i \in 1..3 PROVE a[i] = Methods[i]
      <4>1. SBase + i = i /\ i \in 1..Len(a)
        BY <1>13, <2>2
      <4>2. a[i] = Stream(SBase + i)
        BY <1>2, <4>1
      <4> QED BY <1>5, <4>1, <4>2
    <3> QED BY <3>1 DEF Methods, Offered
  <2>4. /\ obj = IF guarded THEN "auth" ELSE "none"
        /\ method' = IF Offered = (IF guarded THEN "USER" ELSE "NONE") THEN Offered ELSE "DENY"
    BY <1>13, <2>3 DEF Choose, HandInv, ServerOK
  <2>5. Offered \in {"NONE", "USER"} /\ (Offered = "USER") = (cred # NoCred)
    BY DEF Offered
  <2>6. Shapes' /\ Address' /\ DownOK'
    <3>1. method' \in {"DENY", "NONE", "USER"}
      BY <2>4, <2>5
    <3>2. spc' \in SWrites /\ spc' \notin SReads
      BY <1>13 DEF SWrites, SReads
    <3> QED BY <1>1, <1>2, <1>6, <1>8, <1>9, <1>13, <2>2, <3>1, <3>2, SMoves
  <2>7. UpOK'
    BY <1>11, <1>13, <2>2
  <2>8. Refs'
    BY <2>1 DEF HandInv, Refs, RefsExact
  <2>9. guarded \in BOOLEAN
    BY DEF HandInv, Shapes
  <2>10. ServerOK'
    <3>1. stype' = "NONE"
      BY <1>1, <1>13 DEF HandInv, ServerOK
    <3>2. method' # "DENY" => method' = Offered /\ (method' = "USER") = guarded
      BY <2>4, <2>5, <2>9
    <3> QED BY <1>1, <1>3, <1>13, <2>1, <2>4, <3>1, <3>2 DEF ServerOK
  <2>11. SmoothOK'
    <3> SUFFICES ASSUME Granted' PROVE SmoothOK'
      BY DEF SmoothOK
    <3>1. Granted
      BY <1>7
    <3>2. guarded => cred # NoCred
      BY <3>1, Credentials DEF Granted, Cred
    <3>3. ~guarded => cred = NoCred
      BY <3>1 DEF Granted
    <3>4. method' = Offered
      BY <2>4, <2>9, <3>2, <3>3 DEF Offered
    <3> QED BY <1>1, <1>3, <1>13, <2>1, <3>1, <3>4 DEF HandInv, SmoothOK
  <2> QED BY <2>6, <2>7, <2>8, <2>10, <2>11 DEF HandInv
<1>14. CASE /\ Len(a) = 3 /\ spc = "r_user" /\ ReadUser(a)
            /\ spc' = "w_user" /\ sin' = <<>> /\ UNCHANGED <<req, rep>>
  <2>1. guarded /\ cred # NoCred /\ obj = "auth" /\ method = "USER" /\ stype = "NONE"
    BY <1>14 DEF HandInv, ServerOK
  <2>2. CL = 3 /\ AL = 2
    BY <2>1 DEF CL, AL
  <2>3. SBase = 3 /\ SBase' = 6 /\ Answered' = Answered
    BY <1>3, <1>14, <2>2 DEF SBase, Answered
  <2>4. a[1] = "v1" /\ a[2] = cred[1] /\ a[3] = cred[2]
    <3>1. \A i \in 1..3 : a[i] = Creds[i]
      BY <1>2, <1>5, <1>14, <2>2, <2>3
    <3>2. Creds = <<"v1", cred[1], cred[2]>>
      BY <2>1 DEF Creds
    <3> QED BY <3>1, <3>2
  <2>5. cred \in Cred
    BY <2>1 DEF HandInv, Shapes
  <2>6. /\ cred = <<cred[1], cred[2]>>
        /\ cred \in Right => cred[1] \in User /\ cred[2] = Pass(cred[1])
    BY <2>5, Credentials
  <2>7. IF Known(cred[1], cred[2]) THEN TakeUser(cred[1]) /\ method' = method
        ELSE method' = "DENY" /\ UNCHANGED objects
    BY <1>14, <2>4 DEF ReadUser
  <2>8. users \subseteq User
    BY DEF HandInv, Refs
  <2>9. ASSUME Known(cred[1], cred[2])
        PROVE  /\ Refs' /\ obj' = cred[1] /\ obj' # "auth" /\ method' = "USER" /\ cred \in Right
               /\ admin' = admin /\ (admin => users' = users)
    <3>1. cred[1] \in users /\ cred[2] = Pass(cred[1])
      BY <2>9 DEF Known
    <3>2. cred \in Right
      BY <2>6, <2>8, <3>1 DEF Right
    <3>3. Refs' /\ obj' = cred[1] /\ admin' = admin /\ (admin => users' = users)
      BY <2>1, <2>7, <2>9, <3>1, TakeRefs DEF HandInv
    <3>4. cred[1] # "auth"
      BY <2>8, <3>1, Socks5Assumption
    <3> QED BY <2>1, <2>7, <2>9, <3>2, <3>3, <3>4
  <2>10. ASSUME ~Known(cred[1], cred[2])
         PROVE  Refs' /\ method' = "DENY"
    <3>1. UNCHANGED <<obj, users, aref, uref, admin>>
      BY <2>7, <2>10 DEF objects
    <3> QED BY <2>7, <2>10, <3>1 DEF HandInv, Refs, RefsExact
  <2>11. method' \in {"USER", "DENY"} /\ Refs'
    BY <2>9, <2>10
  <2>12. Shapes' /\ Address' /\ DownOK'
    <3>1. method' \in {"DENY", "NONE", "USER"}
      BY <2>11
    <3>2. spc' \in SWrites /\ spc' \notin SReads
      BY <1>14 DEF SWrites, SReads
    <3> QED BY <1>1, <1>2, <1>6, <1>8, <1>9, <1>14, <2>3, <3>1, <3>2, SMoves
  <2>13. UpOK'
    BY <1>11, <1>14, <2>3
  <2>14. ServerOK'
    <3>1. method' = "USER" => Entitled'
      BY <1>1, <1>3, <2>1, <2>9, <2>10 DEF Entitled
    <3> QED BY <1>1, <1>3, <1>14, <2>1, <2>11, <3>1 DEF ServerOK
  <2>15. SmoothOK'
    <3> SUFFICES ASSUME Granted' PROVE SmoothOK'
      BY DEF SmoothOK
    <3>1. Granted /\ cred \in Right
      BY <1>7, <2>1 DEF Granted
    <3>2. users = User
      BY <2>1, <3>1 DEF HandInv, SmoothOK
    <3>3. Known(cred[1], cred[2])
      BY <2>6, <3>1, <3>2 DEF Known
    <3>4. admin' => users' = User
      BY <2>9, <3>2, <3>3
    <3> QED BY <1>1, <1>3, <1>14, <2>9, <3>1, <3>3, <3>4 DEF HandInv, SmoothOK
  <2> QED BY <2>11, <2>12, <2>13, <2>14, <2>15 DEF HandInv
<1>15. CASE /\ Len(a) = 3 /\ spc = "r_request" /\ req' = a
            /\ rep' = (IF a[1] = "v5" THEN "SUCC" ELSE "FAIL")
            /\ spc' = "act" /\ sin' = <<>> /\ UNCHANGED <<method, objects>>
  <2>1. UNCHANGED <<obj, users, aref, uref, admin>>
    BY <1>15 DEF objects
  <2>2. SBase = 3 + CL /\ Answered' = Answered /\ ~Reading5'
    BY <1>3, <1>15 DEF SBase, Answered, Reading5, SReads
  <2>3. a[1] = Request[1] /\ a[2] = Request[2] /\ a[3] = Request[3]
    <3>1. ASSUME NEW i \in 1..3 PROVE a[i] = Request[i]
      <4>1. SBase + i = 3 + CL + i /\ i \in 1..Len(a)
        BY <1>15, <2>2
      <4>2. a[i] = Stream(SBase + i)
        BY <1>2, <4>1
      <4> QED BY <1>5, <4>1, <4>2
    <3> QED BY <3>1
  <2>4. a = Request
    <3>1. a = <<a[1], a[2], a[3]>> /\ Request = <<Request[1], Request[2], Request[3]>>
      BY <1>2, <1>5, <1>15, OfThree
    <3> QED BY <2>3, <3>1
  <2>5. rep' = "SUCC"
    BY <1>15, <2>4 DEF Request
  <2>6. Len(c2s') = 0 /\ Wrote = 6 + CL
    <3>1. /\ SBase + Len(a) + Len(c2s') <= Wrote /\ Wrote <= 6 + CL
          /\ Len(c2s') \in Nat /\ Wrote \in Nat
      BY <1>2, <1>3, <1>4
    <3>2. SBase = 3 + CL /\ Len(a) = 3 /\ CL \in {0, 3}
      BY <1>3, <1>15, <2>2
    <3> QED BY <3>1, <3>2
  <2>7. c2s' = <<>>
    BY <1>2, <2>6
  <2>8. Shapes' /\ Address' /\ DownOK'
    <3>1. spc' \notin SReads /\ rep' \in {"SUCC", "FAIL", "HOST", "ADDR", "IMPL"}
      BY <1>15, <2>5 DEF SReads
    <3> QED BY <1>1, <1>2, <1>6, <1>8, <1>9, <1>15, <2>2, <3>1, SMoves
  <2>9. UpOK'
    BY <1>3, <1>15, <2>2, <2>4, <2>6, <2>7 DEF UpOK
  <2>10. Refs'
    BY <2>1 DEF HandInv, Refs, RefsExact
  <2>11. ServerOK'
    <3>1. Entitled' = Entitled /\ Entitled /\ stype' = "NONE"
      BY <1>1, <1>3, <1>15, <2>1 DEF HandInv, ServerOK, Entitled
    <3> QED BY <1>3, <1>15, <2>4, <2>5, <3>1 DEF ServerOK
  <2>12. SmoothOK'
    BY <1>1, <1>3, <1>7, <1>15, <2>1, <2>5 DEF HandInv, SmoothOK
  <2> QED BY <2>8, <2>9, <2>10, <2>11, <2>12 DEF HandInv
<1> QED BY <1>10, <1>12, <1>13, <1>14, <1>15

(* A read of the server ends early.                                        *)
LEMMA SRecvFailInv ==
  ASSUME HandInv, SRecvFail
  PROVE  HandInv'
<1>1. /\ spc \in SReads /\ spc # "done" /\ ClientSide /\ UNCHANGED <<c2s, s2c, stype, guarded>>
      /\ (cshut /\ excuse' = excuse) \/ excuse' # {}
  BY DEF SRecvFail, SReads, SGo, SEnd
<1>2. /\ UNCHANGED <<cpc, options, pipeline, type, cred, cin, owner, cshut>>
      /\ UNCHANGED <<Wrote, CBase, CPos, CEnded, CL, AL, Offered, Request>>
  BY <1>1, ServerFrame
<1>3. ~Granted'
  <2>1. CASE excuse' # {}
    BY <2>1 DEF Granted
  <2>2. CASE cshut /\ excuse' = excuse
    <3>1. cpc = "fail"
      BY <1>1, <2>2 DEF HandInv, Shapes, DownOK, SReads
    <3> QED BY <1>1, <1>2, <2>2, <3>1 DEF HandInv, SmoothOK, Granted
  <2> QED BY <1>1, <2>1, <2>2
<1>4. SmoothOK'
  BY <1>3 DEF SmoothOK
<1>5. req = <<>>
  BY <1>1 DEF HandInv, UpOK, Reading5
<1>6. CASE SEnd
  <2>1. /\ s2c' \in Seq(Word) /\ Len(s2c') <= 5 + AL
        /\ ~CEnded => /\ CPos + Len(s2c') <= 5 + AL
                      /\ (\A i \in 1..Len(s2c) : AnswerAt(CPos + i, s2c[i]))'
    BY <1>1, <1>6, SKeeps DEF SEnd, SGo
  <2> QED BY <1>1, <1>3, <1>6, <2>1, SEndInv
<1>7. CASE ~SEnd
  <2>1. /\ UNCHANGED <<req, objects, sshut>> /\ sin' = <<>>
        /\ \/ spc = "r_methods" /\ method' = "DENY" /\ spc' = "w_method" /\ rep' = rep
           \/ spc = "r_user" /\ method' = "DENY" /\ spc' = "w_user" /\ rep' = rep
           \/ spc = "r_request" /\ method' = method /\ spc' = "w_response" /\ rep' = "ADDR"
    BY <1>7 DEF SRecvFail, SGo
  <2>2. UNCHANGED <<obj, users, aref, uref, admin>>
    BY <2>1 DEF objects
  <2>3. Refs'
    BY <2>2 DEF HandInv, Refs, RefsExact
  <2>4. Answered' = Answered /\ ~Reading5'
    BY <1>2, <2>1 DEF Answered, Reading5, SReads
  <2>5. Shapes' /\ Address' /\ DownOK'
    <3>1. <<>> \in Seq(Part) /\ Len(<<>>) < 3
      OBVIOUS
    <3>2. spc' \in SWrites /\ spc' \notin SReads
      BY <2>1 DEF SWrites, SReads
    <3>3. /\ method' \in {"DENY", "NONE", "USER"} /\ stype' \in Type \cup {"NONE"}
          /\ rep' \in {"SUCC", "FAIL", "HOST", "ADDR", "IMPL"}
      BY <1>1, <2>1 DEF HandInv, Shapes
    <3>4. c2s' \in Seq(Part) /\ Len(c2s') <= Len(c2s)
      BY <1>1 DEF HandInv, Shapes
    <3> QED BY <1>1, <2>1, <2>4, <3>1, <3>2, <3>3, <3>4, SMoves
  <2>6. UpOK'
    BY <1>5, <2>1, <2>4 DEF UpOK
  <2>7. ServerOK'
    BY <1>1, <1>2, <2>1, <2>2 DEF HandInv, ServerOK, Entitled
  <2> QED BY <1>4, <2>3, <2>5, <2>6, <2>7 DEF HandInv
<1> QED BY <1>6, <1>7

(* The server acts on the request.                                         *)
LEMMA ActInv ==
  ASSUME HandInv, NEW ok \in {"ok", "no", "name"}, Act(ok)
  PROVE  HandInv'
<1>1. /\ spc = "act" /\ spc' = "w_response" /\ sin' = <<>> /\ ClientSide
      /\ UNCHANGED <<guarded, method, req, objects, c2s, s2c, sshut>>
      /\ rep' = (IF rep = "SUCC" THEN Reply(ok, req[2]) ELSE rep)
      /\ stype' = (IF rep = "SUCC" /\ ok # "name" THEN Served(req[2]) ELSE stype)
      /\ excuse' = (IF ok = "ok" THEN excuse ELSE excuse \cup {"destination"})
  BY DEF Act, SGo
<1>2. /\ UNCHANGED <<cpc, options, pipeline, type, cred, cin, owner, cshut>>
      /\ UNCHANGED <<Wrote, CBase, CPos, CEnded, CL, AL, Offered, Request>>
  BY <1>1, ServerFrame
<1>3. UNCHANGED <<obj, users, aref, uref, admin>>
  BY <1>1 DEF objects
<1>4. /\ req = Request /\ rep \in {"SUCC", "FAIL"} /\ stype = "NONE" /\ Entitled
      /\ type \in Type
  BY <1>1 DEF HandInv, ServerOK, Shapes
<1>5. req[2] = Command(type)
  BY <1>4 DEF Request
<1>6. Served(req[2]) = type
  BY <1>4, <1>5 DEF Served, Command, Type
<1>7. type # "NONE"
  BY <1>4 DEF Type
<1>8. Reply(ok, req[2]) \in {"SUCC", "FAIL", "HOST", "ADDR", "IMPL"}
      /\ (Reply(ok, req[2]) = "SUCC" <=> ok = "ok")
  BY <1>4, <1>6, <1>7 DEF Reply
<1>9. Refs'
  BY <1>3 DEF HandInv, Refs, RefsExact
<1>10. Answered' = Answered /\ ~Reading5' /\ ~Reading5
  BY <1>1, <1>2 DEF Answered, Reading5, SReads
<1>11. Shapes' /\ Address' /\ DownOK'
  <2>1. <<>> \in Seq(Part) /\ Len(<<>>) < 3
    OBVIOUS
  <2>2. spc' \in SWrites /\ spc' \notin SReads
    BY <1>1 DEF SWrites, SReads
  <2>3. /\ method' \in {"DENY", "NONE", "USER"} /\ stype' \in Type \cup {"NONE"}
        /\ rep' \in {"SUCC", "FAIL", "HOST", "ADDR", "IMPL"}
    <3>1. method' \in {"DENY", "NONE", "USER"}
      BY <1>1 DEF HandInv, Shapes
    <3> QED BY <1>1, <1>4, <1>6, <1>8, <3>1
  <2>4. c2s' \in Seq(Part) /\ Len(c2s') <= Len(c2s)
    BY <1>1 DEF HandInv, Shapes
  <2> QED BY <1>1, <1>10, <2>1, <2>2, <2>3, <2>4, SMoves
<1>12. UpOK'
  BY <1>1, <1>2, <1>10 DEF HandInv, UpOK
<1>13. ServerOK'
  <2>1. rep' = "SUCC" => stype' = type
    BY <1>1, <1>4, <1>6, <1>8
  <2>2. Entitled'
    BY <1>1, <1>2, <1>3, <1>4 DEF Entitled
  <2> QED BY <1>1, <1>2, <1>4, <2>1, <2>2 DEF ServerOK, Served5
<1>14. SmoothOK'
  <2> SUFFICES ASSUME Granted' PROVE SmoothOK'
    BY DEF SmoothOK
  <2>1. ok = "ok" /\ Granted
    BY <1>1, <1>2 DEF Granted
  <2>2. rep' = "SUCC"
    BY <1>1, <1>8, <2>1 DEF HandInv, SmoothOK
  <2> QED BY <1>1, <1>2, <1>3, <1>4, <2>1, <2>2 DEF HandInv, SmoothOK
<1> QED BY <1>9, <1>11, <1>12, <1>13, <1>14 DEF HandInv

-----------------------------------------------------------------------------
(* The theorems.                                                           *)

(* The invariant holds when both sides begin.                              *)
LEMMA HandInit == Init => HandInv
<1> SUFFICES ASSUME Init PROVE HandInv
  OBVIOUS
<1> USE DEF Init
<1>1. /\ \A S : <<>> \in Seq(S)
      /\ Len(<<>>) = 0
  OBVIOUS
<1>2. SBase = 0 /\ CBase = 0 /\ Wrote = 0 /\ Answered = 0 /\ SPos = 0 /\ CPos = 0
  BY <1>1 DEF SBase, CBase, Wrote, Answered, SPos, CPos
<1>3. Shapes
  <2>1. cshut = (cpc \in {"fail", "closed"}) /\ sshut = (spc = "done")
    <3>1. ~cshut /\ ~sshut /\ cpc \notin {"fail", "closed"} /\ spc # "done"
      OBVIOUS
    <3>2. cshut \in BOOLEAN /\ sshut \in BOOLEAN
      BY Zenon
    <3> HIDE DEF Init
    <3> QED BY <3>1, <3>2
  <2>2. cin \in Seq(Word) /\ s2c \in Seq(Word) /\ sin \in Seq(Part) /\ c2s \in Seq(Part)
    BY <1>1
  <2>3. Len(cin) = 0 /\ Len(sin) = 0 /\ Len(c2s) = 0 /\ Len(s2c) = 0
    BY <1>1
  <2> QED BY <1>2, <2>1, <2>2, <2>3 DEF Shapes, CWrites, SReads
<1>4. Refs
  BY Socks5Assumption DEF Refs, RefsExact
<1>5. Address
  BY DEF Address, CWrites
<1>6. UpOK
  BY <1>1, <1>2 DEF UpOK
<1>7. DownOK
  BY <1>1, <1>2 DEF DownOK
<1>8. ServerOK
  BY DEF ServerOK
<1>9. SmoothOK
  BY <1>1 DEF SmoothOK
<1> QED BY <1>3, <1>4, <1>5, <1>6, <1>7, <1>8, <1>9 DEF HandInv

(* Every step preserves the invariant.                                     *)
LEMMA HandStep == HandInv /\ [Next]_vars => HandInv'
<1> SUFFICES ASSUME HandInv, [Next]_vars PROVE HandInv'
  OBVIOUS
<1>1. CASE CSend
  BY <1>1, CSendInv
<1>2. CASE CSendFail
  BY <1>2, CSendFailInv
<1>3. CASE CRecv
  BY <1>3, CRecvInv
<1>4. CASE CRecvFail \/ CExpire
  BY <1>4, CWaitFailInv
<1>5. CASE CClose
  BY <1>5, CCloseInv
<1>6. CASE SSend
  BY <1>6, SSendInv
<1>7. CASE SSendFail \/ ServeEnd
  BY <1>7, SStopInv
<1>8. CASE SRecv
  BY <1>8, SRecvInv
<1>9. CASE SRecvFail
  BY <1>9, SRecvFailInv
<1>10. CASE \E ok \in {"ok", "no", "name"} : Act(ok)
  BY <1>10, ActInv
<1>11. CASE (\E u \in User : DelUser(u) \/ AddUser(u)) \/ DropAuth
  BY <1>11, AdminInv
<1>12. CASE UNCHANGED vars
  <2>1. UNCHANGED <<cpc, options, pipeline, type, cred, cin, owner, spc, sin, guarded, method,
                    req, rep, stype, obj, users, aref, uref, admin, c2s, s2c, cshut, sshut, excuse>>
    BY <1>12 DEF vars, client, server, objects, net, options
  <2>2. /\ UNCHANGED <<CL, AL, Offered, Request, Wrote, SBase, SPos, Answered, CBase, CPos,
                       CEnded, Served5, Reading5, Entitled, Granted, RefsExact>>
        /\ \A k : Stream(k)' = Stream(k)
    BY <2>1, SameStream DEF Wrote, SBase, SPos, Answered, CBase, CPos, CEnded, Served5, Reading5,
                            Entitled, Granted, RefsExact
  <2>3. \A k, x : AnswerAt(k, x)' = AnswerAt(k, x)
    BY <2>1, <2>2 DEF AnswerAt
  <2>4. Shapes' /\ Refs' /\ Address' /\ ServerOK' /\ SmoothOK'
    BY <2>1, <2>2 DEF HandInv, Shapes, Refs, Address, ServerOK, SmoothOK
  <2>5. UpOK' /\ DownOK'
    BY <2>1, <2>2, <2>3 DEF HandInv, UpOK, DownOK
  <2> QED BY <2>4, <2>5 DEF HandInv
<1> QED BY <1>1, <1>2, <1>3, <1>4, <1>5, <1>6, <1>7, <1>8, <1>9, <1>10, <1>11, <1>12
        DEF Next, Finished

(* The two sides stay in step: what is under way continues what each side  *)
(* has read, whichever of the two clients runs, whatever the server was    *)
(* given and whatever the application does to the users meanwhile.         *)
THEOREM HandshakeInvariant == Spec => []HandInv
<1>1. Init => HandInv
  BY HandInit
<1>2. HandInv /\ [Next]_vars => HandInv'
  BY HandStep
<1> QED BY <1>1, <1>2, PTL DEF Spec

(* A client whose handshake succeeds has the server at work for exactly    *)
(* its request (handshake_standard and _pipeline against the server).      *)
THEOREM ClientsAgree == Spec => []Agreement
<1>1. HandInv => Agreement
  BY DEF HandInv, DownOK, Served5, Agreement
<1> QED BY <1>1, HandshakeInvariant, PTL

(* A server with an authenticator serves only a client that gave a user    *)
(* and his password, and refers to that user (read_auth_user).             *)
THEOREM OnlyUsersServed == Spec => []Authentic
<1>1. HandInv => Authentic
  BY DEF HandInv, ServerOK, Served5, Entitled, Authentic
<1> QED BY <1>1, HandshakeInvariant, PTL

(* References and the address of the request are freed once, when nothing  *)
(* refers to them (hev_socks5_server_destruct, authenticator_clear,        *)
(* write_request), but for the one loss AddressOnce names.                 *)
THEOREM OwnershipStaysExact == Spec => []OwnershipExact
<1>1. HandInv => OwnershipExact
  <2> SUFFICES ASSUME HandInv PROVE OwnershipExact
    OBVIOUS
  <2>1. Len(c2s) <= 9 /\ Len(s2c) <= 7
    <3>1. Wrote \in 0..9 /\ Answered \in 0..7
      BY DEF Wrote, Answered, CL, AL
    <3> QED BY <3>1 DEF HandInv, Shapes
  <2>2. TypeOK
    BY <2>1 DEF HandInv, Shapes, Refs, Address, TypeOK
  <2>3. AddressOnce
    BY DEF HandInv, Address, AddressOnce, CWrites
  <2> QED BY <2>2, <2>3 DEF HandInv, Refs, OwnershipExact
<1> QED BY <1>1, HandshakeInvariant, PTL

(* With the credentials the server wants, only a time limit, a deleted     *)
(* user, the destination or a socket makes the handshake fail.             *)
THEOREM NoUserRefused == Spec => []NoFalseRefusal
<1>1. HandInv => NoFalseRefusal
  BY DEF HandInv, SmoothOK, Granted, NoFalseRefusal
<1> QED BY <1>1, HandshakeInvariant, PTL

=============================================================================
