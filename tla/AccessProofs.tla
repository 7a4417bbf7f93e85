---------------------------- MODULE AccessProofs ----------------------------
(***************************************************************************)
(* Proofs about the accounts, the sessions and the email outbox of Access, *)
(* for every number of newcomers, administrators, sign-ins, sessions,      *)
(* requests in flight, reset links, messages and deliverers.               *)
(***************************************************************************)
EXTENDS Access, SequenceTheorems, FiniteSetTheorems, TLAPS

------------------------------------------------------------------------------
(* Accounts, for every set of requests, administrators and newcomers, any  *)
(* directory and any roles to invite with.                                 *)

Statuses == {"none", "pending", "active", "disabled"}
UserRow == [status : Statuses, role : Roles, verified : BOOLEAN, password : BOOLEAN]
InvRow == [email : Newcomers, role : InviteRoles,
           accepted : BOOLEAN, revoked : BOOLEAN, expired : BOOLEAN]
VerRow == [email : Newcomers, used : BOOLEAN, expired : BOOLEAN, recent : BOOLEAN]

AdminTx == [op : {"toggle", "approve", "deny"}, actor : Emails, email : Emails,
            status : Statuses, ready : BOOLEAN]
RegisterTx == [op : {"register"}, email : Newcomers, known : BOOLEAN]
CompleteTx == [op : {"complete"}, id : Nat]
InviteTx == [op : {"invite"}, email : Newcomers, role : InviteRoles, prior : SUBSET Nat]
AcceptTx == [op : {"accept"}, id : Nat]
Tx == {Idle} \cup AdminTx \cup RegisterTx \cup CompleteTx \cup InviteTx \cup AcceptTx

Types ==
    /\ user \in [Emails -> UserRow]
    /\ inv \in Seq(InvRow) /\ ver \in Seq(VerRow)
    /\ req \in [Requests -> Tx]
    /\ decided \in [Emails -> SUBSET {"approved", "denied"}]
    /\ completed \in [Emails -> SUBSET (Nat \X Requests)]

Locked == \A r, s \in Requests : r # s => _lock_role(req[r]) \cap _lock_role(req[s]) = {}

\* What an open transaction of an administrator still may rely on.
AdminTxSound(t) ==
    /\ active_admin(t.actor)
    /\ user[t.email].status # "none" /\ t.status # "none"
    /\ t.ready => user[t.email].verified /\ user[t.email].password

RegisterTxSound(t) == t.known => user[t.email].status # "none"

\* A link that an open submission may still consume has not completed its registration.
CompleteTxSound(t) ==
    /\ t.id \in DOMAIN ver
    /\ ~ver[t.id].used => completed[ver[t.id].email] = {}

InviteTxSound(t) ==
    \A i \in DOMAIN inv :
        open(i) /\ inv[i].email = t.email /\ inv[i].role = t.role => i \in t.prior

AcceptTxSound(t) == t.id \in DOMAIN inv

Sound ==
    \A r \in Requests :
        /\ req[r] \in AdminTx => AdminTxSound(req[r])
        /\ req[r] \in RegisterTx => RegisterTxSound(req[r])
        /\ req[r] \in CompleteTx => CompleteTxSound(req[r])
        /\ req[r] \in InviteTx => InviteTxSound(req[r])
        /\ req[r] \in AcceptTx => AcceptTxSound(req[r])

\* Nobody without a confirmed address is on the way in.
ConfirmedTx ==
    Directory = "required" =>
        \A r \in Requests : req[r] \in RegisterTx \cup InviteTx => req[r].email \in Listed

\* What each table says of the users.
Tables ==
    /\ \A e \in Emails : decided[e] # {} => user[e].status \in {"active", "disabled"}
    /\ \A e \in Emails : completed[e] # {} => user[e].status # "none" /\ user[e].verified
    /\ \A i \in DOMAIN inv : inv[i].accepted => user[inv[i].email].status # "none"
    /\ \A v \in DOMAIN ver : user[ver[v].email].status # "none"

\* At most one answer, at most one completion.
Once ==
    /\ \A e \in Emails : decided[e] = {} \/ \E x : decided[e] = {x}
    /\ \A e \in Emails : completed[e] = {} \/ \E x : completed[e] = {x}

IInv ==
    /\ Types /\ Locked /\ Sound /\ ConfirmedTx /\ Tables /\ Once
    /\ AdministratorRemains /\ ActiveIsProven /\ RoleWasOffered /\ Confirmed /\ OneOpenInvitation

\* Nothing is undone: an account keeps its role and what it proved, a link keeps its
\* address and stays used, an invitation stays accepted or revoked.
Forward ==
    /\ \A e \in Emails : user[e].status # "none" =>
          /\ user'[e].status # "none" /\ user'[e].role = user[e].role
          /\ user[e].verified => user'[e].verified
          /\ user[e].password => user'[e].password
    /\ \A v \in DOMAIN ver :
          v \in DOMAIN ver' /\ ver'[v].email = ver[v].email /\ (ver[v].used => ver'[v].used)
    /\ \A i \in DOMAIN inv :
          /\ i \in DOMAIN inv'
          /\ inv'[i].email = inv[i].email /\ inv'[i].role = inv[i].role
          /\ inv[i].accepted => inv'[i].accepted
          /\ inv[i].revoked => inv'[i].revoked

-----------------------------------------------------------------------------
(* Transactions.                                                           *)

\* The rows of the two sequences.
LEMMA Rows ==
  ASSUME Types
  PROVE  /\ \A v \in DOMAIN ver : v \in Nat /\ ver[v] \in VerRow /\ ver[v].email \in Newcomers
         /\ \A i \in DOMAIN inv : i \in Nat /\ inv[i] \in InvRow /\ inv[i].email \in Newcomers
         /\ Newcomers \subseteq Emails
  <1>1. \A v \in DOMAIN ver : v \in Nat /\ ver[v] \in VerRow
    BY DEF Types
  <1>2. \A i \in DOMAIN inv : i \in Nat /\ inv[i] \in InvRow
    BY DEF Types
  <1> QED
    BY <1>1, <1>2 DEF VerRow, InvRow, Emails

\* The kind of a transaction is told by its operation.
LEMMA Kinds ==
  ASSUME Types, NEW r \in Requests
  PROVE  /\ lock_administrator_action(req[r]) <=> req[r] \in AdminTx
         /\ req[r].op = "register" <=> req[r] \in RegisterTx
         /\ req[r].op = "complete" <=> req[r] \in CompleteTx
         /\ req[r].op = "invite" <=> req[r] \in InviteTx
         /\ req[r].op = "accept" <=> req[r] \in AcceptTx
         /\ req[r].op \in {"toggle", "approve", "deny"} <=> req[r] \in AdminTx
  BY DEF Types, Tx, Idle, AdminTx, RegisterTx, CompleteTx, InviteTx, AcceptTx,
         lock_administrator_action

\* Two transactions never hold the lock of one role together.
LEMMA Exclusive ==
  ASSUME Types, Locked, NEW r \in Requests, NEW s \in Requests, r # s
  PROVE  /\ ~(req[r] \in AdminTx /\ req[s] \in AdminTx)
         /\ req[r] \in InviteTx /\ req[s] \in InviteTx => req[r].role # req[s].role
  <1>1. ASSUME NEW q \in Requests, req[q] \in AdminTx PROVE _lock_role(req[q]) = {"administrator"}
    BY <1>1 DEF _lock_role, AdminTx, Roles, lock_administrator_action
  <1>2. ASSUME NEW q \in Requests, req[q] \in InviteTx PROVE _lock_role(req[q]) = {req[q].role}
    BY <1>2, RoleAssumption DEF _lock_role, InviteTx, Roles, lock_administrator_action
  <1> QED
    BY <1>1, <1>2 DEF Locked

\* A transaction that ends frees its lock; the others keep what they rely on, when
\* the step undoes nothing, only the holder of the administrator lock takes an
\* administrator away, a completion uses up the links of its address, and only an
\* inviting transaction adds an invitation, of its role.
LEMMA FinishKeeps ==
  ASSUME IInv, NEW r \in Requests, Finish(r), Types', Forward,
         \A a \in Emails : active_admin(a) /\ ~active_admin(a)' => req[r] \in AdminTx,
         \A v \in DOMAIN ver :
            completed'[ver[v].email] # completed[ver[v].email] => ver'[v].used,
         \A i \in DOMAIN inv' \ DOMAIN inv : req[r] \in InviteTx /\ inv'[i].role = req[r].role
  PROVE  Locked' /\ Sound' /\ ConfirmedTx'
  <1>1. /\ req'[r] = Idle /\ \A s \in Requests : s # r => req'[s] = req[s]
    BY DEF IInv, Types, Finish
  <1>2. _lock_role(Idle) = {}
    BY DEF _lock_role, Idle, lock_administrator_action
  <1>3. Idle \notin AdminTx \cup RegisterTx \cup CompleteTx \cup InviteTx \cup AcceptTx
    BY DEF Idle, AdminTx, RegisterTx, CompleteTx, InviteTx, AcceptTx
  <1>4. Locked'
    BY <1>1, <1>2 DEF Locked, IInv, _lock_role, lock_administrator_action
  <1>5. ConfirmedTx'
    BY <1>1, <1>3 DEF ConfirmedTx, IInv
  <1>6. ASSUME NEW s \in Requests, s # r
        PROVE  /\ req[s] \in AdminTx => AdminTxSound(req[s])'
               /\ req[s] \in RegisterTx => RegisterTxSound(req[s])'
               /\ req[s] \in CompleteTx => CompleteTxSound(req[s])'
               /\ req[s] \in InviteTx => InviteTxSound(req[s])'
               /\ req[s] \in AcceptTx => AcceptTxSound(req[s])'
    <2>1. req'[s] = req[s]
      BY <1>1, <1>6
    <2>2. ASSUME req[s] \in AdminTx PROVE AdminTxSound(req[s])'
      <3>1. req[r] \notin AdminTx
        BY <2>2, <1>6, Exclusive DEF IInv
      <3>2. req[s].actor \in Emails /\ req[s].email \in Emails /\ req[s].status' = req[s].status
        BY <2>2, <2>1 DEF AdminTx
      <3> QED
        BY <2>1, <2>2, <3>1, <3>2 DEF AdminTxSound, IInv, Sound, Forward
    <2>3. ASSUME req[s] \in RegisterTx PROVE RegisterTxSound(req[s])'
      BY <2>3, <2>1 DEF RegisterTxSound, RegisterTx, Emails, IInv, Sound, Forward
    <2>4. ASSUME req[s] \in CompleteTx PROVE CompleteTxSound(req[s])'
      BY <2>4, <2>1 DEF CompleteTxSound, IInv, Sound, Forward
    <2>5. ASSUME req[s] \in InviteTx PROVE InviteTxSound(req[s])'
      <3>1. req[r] \in InviteTx => req[r].role # req[s].role
        BY <2>5, <1>6, Exclusive DEF IInv
      <3> QED
        BY <2>1, <2>5, <3>1 DEF InviteTxSound, IInv, Sound, Forward, open, Types, InvRow
    <2>6. ASSUME req[s] \in AcceptTx PROVE AcceptTxSound(req[s])'
      BY <2>6, <2>1 DEF AcceptTxSound, IInv, Sound, Forward
    <2> QED
      BY <2>2, <2>3, <2>4, <2>5, <2>6
  <1>7. Sound'
    BY <1>1, <1>3, <1>6 DEF Sound
  <1> QED
    BY <1>4, <1>5, <1>7

\* A request that starts a sound transaction preserves the invariant.
LEMMA BeginKeeps ==
  ASSUME IInv, NEW r \in Requests, NEW t \in Tx, Begin(r, t),
         t \in AdminTx => AdminTxSound(t),
         t \in RegisterTx => RegisterTxSound(t),
         t \in CompleteTx => CompleteTxSound(t),
         t \in InviteTx => InviteTxSound(t),
         t \in AcceptTx => AcceptTxSound(t),
         Directory = "required" /\ t \in RegisterTx \cup InviteTx => t.email \in Listed
  PROVE  IInv'
  <1>1. /\ req'[r] = t /\ \A s \in Requests : s # r => req'[s] = req[s]
        /\ req' \in [Requests -> Tx]
    BY DEF IInv, Types, Begin
  <1>2. UNCHANGED <<user, inv, ver, decided, completed>>
    BY DEF Begin
  <1>3. Types'
    BY <1>1, <1>2 DEF IInv, Types
  <1>4. Locked'
    BY <1>1 DEF Locked, IInv, Begin, locks_free, _lock_role, lock_administrator_action
  <1>5. Sound'
    <2> SUFFICES ASSUME NEW s \in Requests
                 PROVE  /\ req'[s] \in AdminTx => AdminTxSound(req[s])'
                        /\ req'[s] \in RegisterTx => RegisterTxSound(req[s])'
                        /\ req'[s] \in CompleteTx => CompleteTxSound(req[s])'
                        /\ req'[s] \in InviteTx => InviteTxSound(req[s])'
                        /\ req'[s] \in AcceptTx => AcceptTxSound(req[s])'
      BY DEF Sound
    <2> QED
      BY <1>1, <1>2 DEF IInv, Sound, AdminTxSound, RegisterTxSound, CompleteTxSound,
                        InviteTxSound, AcceptTxSound, active_admin, open
  <1>6. ConfirmedTx'
    BY <1>1, <1>2 DEF IInv, ConfirmedTx
  <1>7. Tables' /\ Once' /\ AdministratorRemains' /\ ActiveIsProven' /\ RoleWasOffered'
        /\ Confirmed' /\ OneOpenInvitation'
    BY <1>2 DEF IInv, Tables, Once, AdministratorRemains, active_admin, ActiveIsProven,
                RoleWasOffered, Confirmed, OneOpenInvitation, open
  <1> QED
    BY <1>3, <1>4, <1>5, <1>6, <1>7 DEF IInv

-----------------------------------------------------------------------------
(* The requests that start a transaction.                                  *)

\* The directory confirms only the addresses it knows.
LEMMA DirectoryConfirms ==
  ASSUME NEW e, NEW a \in Answers(e), validate_directory_email(a), Directory = "required"
  PROVE  e \in Listed
  BY DEF Answers, validate_directory_email

LEMMA RegistrationSubmitKeeps ==
  ASSUME IInv, NEW r \in Requests, registration_submit(r)
  PROVE  IInv'
  <1>1. PICK e \in Newcomers : \E a \in Answers(e) :
          /\ validate_directory_email(a)
          /\ Begin(r, [op |-> "register", email |-> e, known |-> user[e].status = "pending"])
    BY DEF registration_submit
  <1> DEFINE t == [op |-> "register", email |-> e, known |-> user[e].status = "pending"]
  <1>2. t \in RegisterTx /\ t.email = e /\ t.known = (user[e].status = "pending")
    BY DEF RegisterTx
  <1>3. t \in Tx /\ t \notin AdminTx \cup CompleteTx \cup InviteTx \cup AcceptTx
    BY <1>2 DEF Tx, AdminTx, RegisterTx, CompleteTx, InviteTx, AcceptTx
  <1>4. RegisterTxSound(t)
    BY <1>2 DEF RegisterTxSound
  <1>5. Begin(r, t)
    BY <1>1
  <1>6. Directory = "required" => t.email \in Listed
    BY <1>1, <1>2, DirectoryConfirms
  <1> HIDE DEF t
  <1> QED
    BY <1>3, <1>4, <1>5, <1>6, BeginKeeps

LEMMA VerificationSubmitKeeps ==
  ASSUME IInv, NEW r \in Requests, registration_verification_submit(r)
  PROVE  IInv'
  <1>1. PICK v \in DOMAIN ver :
          get_valid_registration_verification(v) /\ Begin(r, [op |-> "complete", id |-> v])
    BY DEF registration_verification_submit
  <1> DEFINE t == [op |-> "complete", id |-> v]
  <1>2. v \in Nat /\ ver[v].email \in Emails
    BY Rows DEF IInv
  <1>3. t \in CompleteTx /\ t.id = v
    BY <1>2 DEF CompleteTx
  <1>4. t \in Tx /\ t \notin AdminTx \cup RegisterTx \cup InviteTx \cup AcceptTx
    BY <1>3 DEF Tx, AdminTx, RegisterTx, CompleteTx, InviteTx, AcceptTx
  <1>5. CompleteTxSound(t)
    BY <1>1, <1>2, <1>3 DEF CompleteTxSound, get_valid_registration_verification, IInv, Tables
  <1>6. Begin(r, t)
    BY <1>1
  <1> HIDE DEF t
  <1> QED
    BY <1>4, <1>5, <1>6, BeginKeeps

LEMMA InviteSubmitKeeps ==
  ASSUME IInv, NEW r \in Requests, invite_submit(r)
  PROVE  IInv'
  <1>1. PICK e \in Newcomers, role \in InviteRoles : \E a \in Answers(e) :
          /\ validate_directory_email(a)
          /\ Begin(r, [op |-> "invite", email |-> e, role |-> role,
                       prior |-> {i \in DOMAIN inv : inv[i].email = e /\ open(i)}])
    BY DEF invite_submit
  <1> DEFINE P == {i \in DOMAIN inv : inv[i].email = e /\ open(i)}
             t == [op |-> "invite", email |-> e, role |-> role, prior |-> P]
  <1>2. P \subseteq Nat
    BY DEF IInv, Types
  <1>3. InviteTxSound(t)
    BY DEF InviteTxSound
  <1> HIDE DEF P
  <1>4. t \in InviteTx /\ t.email = e
    BY <1>2 DEF InviteTx
  <1>5. t \in Tx /\ t \notin AdminTx \cup RegisterTx \cup CompleteTx \cup AcceptTx
    BY <1>4 DEF Tx, AdminTx, RegisterTx, CompleteTx, InviteTx, AcceptTx
  <1>6. Begin(r, t)
    BY <1>1 DEF P
  <1>7. Directory = "required" => t.email \in Listed
    BY <1>1, <1>4, DirectoryConfirms
  <1> HIDE DEF t
  <1> QED
    BY <1>3, <1>5, <1>6, <1>7, BeginKeeps

LEMMA InvitationSubmitKeeps ==
  ASSUME IInv, NEW r \in Requests, invitation_submit(r)
  PROVE  IInv'
  <1>1. PICK i \in DOMAIN inv : Begin(r, [op |-> "accept", id |-> i])
    BY DEF invitation_submit
  <1> DEFINE t == [op |-> "accept", id |-> i]
  <1>2. t \in AcceptTx /\ t.id = i
    BY DEF AcceptTx, IInv, Types
  <1>3. t \in Tx /\ t \notin AdminTx \cup RegisterTx \cup CompleteTx \cup InviteTx
    BY <1>2 DEF Tx, AdminTx, RegisterTx, CompleteTx, InviteTx, AcceptTx
  <1>4. AcceptTxSound(t)
    BY <1>2 DEF AcceptTxSound
  <1>5. Begin(r, t)
    BY <1>1
  <1> HIDE DEF t
  <1> QED
    BY <1>3, <1>4, <1>5, BeginKeeps

LEMMA AdminMutationKeeps ==
  ASSUME IInv, NEW r \in Requests, _admin_user_mutation(r)
  PROVE  IInv'
  <1>1. PICK a \in Emails, e \in Emails, op \in {"toggle", "approve", "deny"} :
          /\ active_admin(a) /\ user[e].status # "none"
          /\ Begin(r, [op |-> op, actor |-> a, email |-> e, status |-> user[e].status,
                       ready |-> user[e].verified /\ user[e].password])
    BY DEF _admin_user_mutation
  <1> DEFINE t == [op |-> op, actor |-> a, email |-> e, status |-> user[e].status,
                   ready |-> user[e].verified /\ user[e].password]
  <1>2. user[e] \in UserRow
    BY DEF IInv, Types
  <1>3. t \in AdminTx
    BY <1>2 DEF AdminTx, UserRow
  <1>4. t \in Tx /\ t \notin RegisterTx \cup CompleteTx \cup InviteTx \cup AcceptTx
    BY <1>3 DEF Tx, AdminTx, RegisterTx, CompleteTx, InviteTx, AcceptTx
  <1>5. AdminTxSound(t)
    BY <1>1 DEF AdminTxSound
  <1>6. Begin(r, t)
    BY <1>1
  <1> HIDE DEF t
  <1> QED
    BY <1>4, <1>5, <1>6, BeginKeeps

-----------------------------------------------------------------------------
(* The updates of the two sequences.                                       *)

\* Invitations of which some more are revoked.
RevokesMore(R) ==
    /\ R \in Seq(InvRow) /\ DOMAIN R = DOMAIN inv
    /\ \A i \in DOMAIN inv :
          /\ R[i].email = inv[i].email /\ R[i].role = inv[i].role
          /\ R[i].accepted = inv[i].accepted
          /\ inv[i].revoked => R[i].revoked

LEMMA RevokeOpen ==
  ASSUME Types, NEW e
  PROVE  RevokesMore(revoke_open(e))
  <1> DEFINE R == revoke_open(e)
  <1>1. DOMAIN inv = 1..Len(inv) /\ Len(inv) \in Nat
    BY DEF Types
  <1>2. \A i \in DOMAIN inv : R[i] \in InvRow
    BY Rows DEF revoke_open, InvRow, open
  <1>3. R \in Seq(InvRow) /\ DOMAIN R = DOMAIN inv
    BY <1>1, <1>2, IsASeq DEF revoke_open
  <1>4. \A i \in DOMAIN inv :
          /\ R[i].email = inv[i].email /\ R[i].role = inv[i].role
          /\ R[i].accepted = inv[i].accepted /\ (inv[i].revoked => R[i].revoked)
    BY Rows DEF revoke_open, InvRow, open
  <1> QED
    BY <1>3, <1>4 DEF RevokesMore

LEMMA RevokePrior ==
  ASSUME Types, NEW P
  PROVE  /\ RevokesMore(revoke_prior(P))
         /\ \A i \in DOMAIN inv : i \in P => revoke_prior(P)[i].revoked
  <1> DEFINE R == revoke_prior(P)
  <1>1. DOMAIN inv = 1..Len(inv) /\ Len(inv) \in Nat
    BY DEF Types
  <1>2. \A i \in DOMAIN inv : R[i] \in InvRow
    BY Rows DEF revoke_prior, InvRow
  <1>3. R \in Seq(InvRow) /\ DOMAIN R = DOMAIN inv
    BY <1>1, <1>2, IsASeq DEF revoke_prior
  <1>4. \A i \in DOMAIN inv :
          /\ R[i].email = inv[i].email /\ R[i].role = inv[i].role
          /\ R[i].accepted = inv[i].accepted /\ (inv[i].revoked => R[i].revoked)
          /\ i \in P => R[i].revoked
    BY Rows DEF revoke_prior, InvRow
  <1> QED
    BY <1>3, <1>4 DEF RevokesMore

\* use_all marks every link of the address and leaves the others alone.
LEMMA UseAll ==
  ASSUME Types, NEW e
  PROVE  /\ use_all(e) \in Seq(VerRow) /\ DOMAIN use_all(e) = DOMAIN ver
         /\ \A v \in DOMAIN ver :
              /\ use_all(e)[v].email = ver[v].email
              /\ use_all(e)[v].used <=> ver[v].used \/ ver[v].email = e
  <1> DEFINE R == use_all(e)
  <1>1. DOMAIN ver = 1..Len(ver) /\ Len(ver) \in Nat
    BY DEF Types
  <1>2. \A v \in DOMAIN ver : R[v] \in VerRow
    BY Rows DEF use_all, VerRow
  <1>3. R \in Seq(VerRow) /\ DOMAIN R = DOMAIN ver
    BY <1>1, <1>2, IsASeq DEF use_all
  <1>4. \A v \in DOMAIN ver : /\ R[v].email = ver[v].email
                              /\ R[v].used <=> ver[v].used \/ ver[v].email = e
    BY Rows DEF use_all, VerRow
  <1> QED
    BY <1>3, <1>4

-----------------------------------------------------------------------------
(* The transactions that commit.                                           *)

\* Further revocations leave at most one open invitation.
LEMMA RevokesKeep ==
  ASSUME IInv, RevokesMore(inv')
  PROVE  OneOpenInvitation'
  <1> SUFFICES ASSUME NEW i \in DOMAIN inv', NEW j \in DOMAIN inv', i # j,
                      open(i)', open(j)', inv'[i].role = inv'[j].role
               PROVE  inv'[i].email # inv'[j].email
    BY DEF OneOpenInvitation
  <1>1. i \in DOMAIN inv /\ j \in DOMAIN inv
    BY DEF RevokesMore
  <1>2. open(i) /\ open(j)
    BY <1>1 DEF RevokesMore, open
  <1> QED
    BY <1>1, <1>2 DEF RevokesMore, OneOpenInvitation, IInv

\* A transaction that ends without a write.
LEMMA FinishOnly ==
  ASSUME IInv, NEW r \in Requests, Finish(r), UNCHANGED <<user, inv, ver, decided, completed>>
  PROVE  IInv' /\ Forward
  <1> USE DEF IInv
  <1>1. Types' /\ Forward
    BY DEF Types, Forward, Finish, Tx
  <1>2. Locked' /\ Sound' /\ ConfirmedTx'
    BY <1>1, FinishKeeps DEF active_admin
  <1> QED
    BY <1>1, <1>2 DEF Tables, Once, AdministratorRemains, active_admin, ActiveIsProven,
                      RoleWasOffered, Confirmed, OneOpenInvitation, open

\* Registration: request_self_registration.
LEMMA RegisterKeeps ==
  ASSUME IInv, NEW r \in Requests, request_self_registration(r)
  PROVE  IInv' /\ Forward
  <1> DEFINE t == req[r]  e == t.email
             row == [email |-> e, used |-> FALSE, expired |-> FALSE, recent |-> TRUE]
  <1> USE DEF IInv
  <1>1. /\ t \in RegisterTx /\ e \in Newcomers /\ e \in Emails /\ t.known \in BOOLEAN
        /\ RegisterTxSound(t) /\ (Directory = "required" => e \in Listed)
        /\ t \notin AdminTx
    BY Kinds, Rows DEF request_self_registration, RegisterTx, AdminTx, Sound, ConfirmedTx
  <1>2. Finish(r) /\ UNCHANGED <<decided, completed>>
    BY DEF request_self_registration
  <1>3. req' \in [Requests -> Tx]
    BY <1>2 DEF Finish, Types, Tx
  <1>4. \/ UNCHANGED <<user, inv, ver>>
        \/ RevokesMore(inv') /\ UNCHANGED <<user, ver>>
        \/ /\ RevokesMore(inv')
           /\ \/ t.known /\ user' = user
              \/ /\ user[e].status = "none"
                 /\ user' = [user EXCEPT ![e] = [NoUser EXCEPT !.status = "pending"]]
           /\ ver' = Append(use_all(e), row)
    BY <1>1, RevokeOpen DEF request_self_registration
  <1>5. CASE UNCHANGED <<user, inv, ver>>
    BY <1>2, <1>5, FinishOnly
  <1>6. CASE RevokesMore(inv') /\ UNCHANGED <<user, ver>>
    <2>1. Types' /\ Forward
      BY <1>2, <1>3, <1>6 DEF Types, Forward, RevokesMore
    <2>2. Locked' /\ Sound' /\ ConfirmedTx'
      BY <1>1, <1>2, <1>6, <2>1, FinishKeeps DEF active_admin, RevokesMore
    <2>3. Tables' /\ RoleWasOffered' /\ Confirmed'
      BY <1>2, <1>6 DEF Tables, RoleWasOffered, Confirmed, RevokesMore
    <2>4. Once' /\ AdministratorRemains' /\ ActiveIsProven'
      BY <1>2, <1>6 DEF Once, AdministratorRemains, active_admin, ActiveIsProven
    <2> QED
      BY <1>6, <2>1, <2>2, <2>3, <2>4, RevokesKeep
  <1>7. CASE /\ RevokesMore(inv')
             /\ \/ t.known /\ user' = user
                \/ /\ user[e].status = "none"
                   /\ user' = [user EXCEPT ![e] = [NoUser EXCEPT !.status = "pending"]]
             /\ ver' = Append(use_all(e), row)
    <2>1. /\ user' \in [Emails -> UserRow] /\ user'[e].status # "none"
          /\ \A x \in Emails : x # e \/ user[e].status # "none" => user'[x] = user[x]
          /\ user[e].status = "none" => user'[e] = [NoUser EXCEPT !.status = "pending"]
      <3>1. [NoUser EXCEPT !.status = "pending"] \in UserRow
        BY DEF NoUser, UserRow, Statuses, Roles
      <3>2. [NoUser EXCEPT !.status = "pending"].status = "pending"
        BY DEF NoUser
      <3> QED
        BY <1>1, <1>7, <3>1, <3>2 DEF Types, RegisterTxSound
    <2>2. row \in VerRow
      BY <1>1 DEF VerRow
    <2>3. /\ ver' \in Seq(VerRow) /\ DOMAIN ver' = 1..(Len(ver) + 1) /\ DOMAIN ver = 1..Len(ver)
          /\ ver'[Len(ver) + 1] = row /\ Len(ver) \in Nat
          /\ \A v \in DOMAIN ver : /\ ver'[v].email = ver[v].email
                                   /\ ver[v].used => ver'[v].used
      <3>1. use_all(e) \in Seq(VerRow) /\ DOMAIN use_all(e) = DOMAIN ver
        BY UseAll
      <3>2. Len(use_all(e)) = Len(ver) /\ DOMAIN ver = 1..Len(ver) /\ Len(ver) \in Nat
        BY <3>1, LenProperties DEF Types
      <3> QED
        BY <1>7, <2>2, <3>1, <3>2, UseAll, AppendProperties, LenProperties
    <2>4. Types'
      BY <1>2, <1>3, <1>7, <2>1, <2>3 DEF Types, RevokesMore
    <2>5. Forward
      BY <1>7, <2>1, <2>3 DEF Forward, RevokesMore
    <2>6. \A a \in Emails : active_admin(a) => active_admin(a)'
      BY <2>1 DEF active_admin
    <2>7. Locked' /\ Sound' /\ ConfirmedTx'
      BY <1>1, <1>2, <1>7, <2>4, <2>5, <2>6, FinishKeeps DEF RevokesMore
    <2>8. Tables'
      <3>1. \A v \in DOMAIN ver' : ver'[v].email = e \/ v \in DOMAIN ver
        BY <2>3
      <3>2. \A v \in DOMAIN ver' : user'[ver'[v].email].status # "none"
        BY <2>1, <2>3, <2>5, <3>1, Rows DEF Tables, Forward
      <3>3. \A i \in DOMAIN inv' : inv'[i].accepted => user'[inv'[i].email].status # "none"
        BY <1>7, <2>5, Rows DEF Tables, Forward, RevokesMore
      <3>4. \A x \in Emails : decided'[x] # {} => user'[x].status \in {"active", "disabled"}
        BY <1>2, <2>1 DEF Tables
      <3>5. \A x \in Emails : completed'[x] # {} => user'[x].status # "none" /\ user'[x].verified
        BY <1>2, <2>1 DEF Tables
      <3> QED
        BY <3>2, <3>3, <3>4, <3>5 DEF Tables
    <2>9. Once' /\ AdministratorRemains' /\ OneOpenInvitation'
      BY <1>2, <1>7, <2>6, RevokesKeep DEF Once, AdministratorRemains
    <2>10. ActiveIsProven' /\ Confirmed'
      <3>1. user[e].status = "none" => user'[e].status = "pending"
        BY <2>1 DEF NoUser
      <3>2. ActiveIsProven'
        BY <2>1, <3>1 DEF ActiveIsProven
      <3>3. Directory = "required" => \A x \in Newcomers \ Listed : user'[x].status = "none"
        BY <1>1, <2>1, Rows DEF Confirmed
      <3>4. Directory = "required" => \A i \in DOMAIN inv' : inv'[i].email \in Listed
        BY <1>7 DEF Confirmed, RevokesMore
      <3> QED
        BY <3>2, <3>3, <3>4 DEF Confirmed
    <2>11. RoleWasOffered'
      <3>1. \A i \in DOMAIN inv : inv[i].accepted => user'[inv[i].email] = user[inv[i].email]
        BY <2>1, Rows DEF Tables
      <3> QED
        BY <1>7, <3>1 DEF RoleWasOffered, RevokesMore
    <2> QED
      BY <2>4, <2>5, <2>7, <2>8, <2>9, <2>10, <2>11
  <1> QED
    BY <1>4, <1>5, <1>6, <1>7

\* The verification link: complete_self_registration.
LEMMA CompleteKeeps ==
  ASSUME IInv, NEW r \in Requests, complete_self_registration(r)
  PROVE  IInv' /\ Forward
  <1> DEFINE v == req[r].id  e == ver[v].email
  <1> USE DEF IInv
  <1>1. /\ req[r] \in CompleteTx /\ req[r] \notin AdminTx /\ v \in DOMAIN ver
        /\ e \in Emails /\ v \in Nat
        /\ ~ver[v].used => completed[e] = {}
    BY Kinds, Rows DEF complete_self_registration, CompleteTx, AdminTx, Sound, CompleteTxSound
  <1>2. Finish(r) /\ UNCHANGED <<inv, decided>>
    BY DEF complete_self_registration
  <1>3. CASE ~verification_consumed(v)
    BY <1>2, <1>3, FinishOnly DEF complete_self_registration
  <1>4. CASE verification_consumed(v)
    <2>1. /\ user' = [user EXCEPT ![e].verified = TRUE, ![e].password = TRUE]
          /\ ver' = use_all(e)
          /\ completed' = [completed EXCEPT ![e] = completed[e] \cup {<<v, r>>}]
      BY <1>4 DEF complete_self_registration
    <2>2. /\ user' \in [Emails -> UserRow] /\ user'[e].verified /\ user'[e].password
          /\ \A x \in Emails : /\ user'[x].status = user[x].status /\ user'[x].role = user[x].role
                               /\ x # e => user'[x] = user[x]
      BY <1>1, <2>1 DEF Types, UserRow
    <2>3. completed[e] = {}
      BY <1>1, <1>4 DEF verification_consumed
    <2>4. /\ completed' \in [Emails -> SUBSET (Nat \X Requests)] /\ completed'[e] = {<<v, r>>}
          /\ \A x \in Emails : x # e => completed'[x] = completed[x]
      BY <1>1, <2>1, <2>3 DEF Types
    <2>5. /\ ver' \in Seq(VerRow) /\ DOMAIN ver' = DOMAIN ver
          /\ \A w \in DOMAIN ver : /\ ver'[w].email = ver[w].email
                                   /\ ver'[w].used <=> ver[w].used \/ ver[w].email = e
      BY <2>1, UseAll
    <2>6. Types'
      BY <1>2, <2>2, <2>4, <2>5 DEF Types, Finish, Tx
    <2>7. Forward
      BY <1>2, <2>2, <2>5 DEF Forward
    <2>8. \A w \in DOMAIN ver :
             completed'[ver[w].email] # completed[ver[w].email] => ver'[w].used
      BY <2>4, <2>5, Rows
    <2>9. \A a \in Emails : active_admin(a) => active_admin(a)'
      BY <2>2 DEF active_admin
    <2>10. Locked' /\ Sound' /\ ConfirmedTx'
      BY <1>1, <1>2, <2>6, <2>7, <2>8, <2>9, FinishKeeps
    <2>11. Tables'
      <3>1. \A w \in DOMAIN ver' : user'[ver'[w].email].status # "none"
        BY <2>2, <2>5, Rows DEF Tables
      <3>2. \A i \in DOMAIN inv' : inv'[i].accepted => user'[inv'[i].email].status # "none"
        BY <1>2, <2>2, Rows DEF Tables
      <3>3. \A x \in Emails : decided'[x] # {} => user'[x].status \in {"active", "disabled"}
        BY <1>2, <2>2 DEF Tables
      <3>4. \A x \in Emails : completed'[x] # {} => user'[x].status # "none" /\ user'[x].verified
        BY <1>1, <2>2, <2>4 DEF Tables
      <3> QED
        BY <3>1, <3>2, <3>3, <3>4 DEF Tables
    <2>12. Once'
      BY <1>2, <2>4 DEF Once
    <2>13. AdministratorRemains' /\ ActiveIsProven'
      BY <2>2, <2>9 DEF AdministratorRemains, ActiveIsProven
    <2>14. RoleWasOffered' /\ Confirmed' /\ OneOpenInvitation'
      BY <1>2, <2>2, Rows DEF RoleWasOffered, Confirmed, OneOpenInvitation, open
    <2> QED
      BY <2>6, <2>7, <2>10, <2>11, <2>12, <2>13, <2>14
  <1> QED
    BY <1>3, <1>4

\* A new invitation: create_invitation.
LEMMA CreateInvitationKeeps ==
  ASSUME IInv, NEW r \in Requests, create_invitation(r)
  PROVE  IInv' /\ Forward
  <1> DEFINE t == req[r]
             R == revoke_prior(t.prior)
             row == [email |-> t.email, role |-> t.role,
                     accepted |-> FALSE, revoked |-> FALSE, expired |-> FALSE]
             n == Len(inv) + 1
  <1> USE DEF IInv
  <1>1. /\ t \in InviteTx /\ t \notin AdminTx /\ t.email \in Newcomers /\ t.role \in InviteRoles
        /\ InviteTxSound(t) /\ (Directory = "required" => t.email \in Listed)
    BY Kinds DEF create_invitation, InviteTx, AdminTx, Sound, ConfirmedTx
  <1>2. Finish(r) /\ UNCHANGED <<user, ver, decided, completed>> /\ inv' = Append(R, row)
    BY DEF create_invitation
  <1>3. RevokesMore(R) /\ \A i \in DOMAIN inv : i \in t.prior => R[i].revoked
    BY RevokePrior
  <1>4. row \in InvRow
    BY <1>1 DEF InvRow
  <1>5. /\ inv' \in Seq(InvRow) /\ Len(inv) \in Nat /\ DOMAIN inv = 1..Len(inv)
        /\ DOMAIN inv' = 1..n /\ inv'[n] = row /\ \A i \in DOMAIN inv : inv'[i] = R[i]
    <2> HIDE DEF R, row
    <2>1. R \in Seq(InvRow) /\ DOMAIN R = DOMAIN inv
      BY <1>3 DEF RevokesMore
    <2>2. Len(R) = Len(inv) /\ DOMAIN inv = 1..Len(inv) /\ Len(inv) \in Nat
      BY <2>1, LenProperties DEF Types
    <2> QED
      BY <1>2, <1>4, <2>1, <2>2, AppendProperties, LenProperties
  <1>6. /\ inv'[n].email = t.email /\ inv'[n].role = t.role /\ ~inv'[n].accepted
    BY <1>5
  <1> HIDE DEF R, row
  <1>7. \A i \in DOMAIN inv' : i = n \/ i \in DOMAIN inv
    BY <1>5
  <1>8. Types'
    BY <1>2, <1>5 DEF Types, Finish, Tx
  <1>9. Forward
    BY <1>2, <1>3, <1>5 DEF Forward, RevokesMore
  <1>10. Locked' /\ Sound' /\ ConfirmedTx'
    BY <1>1, <1>2, <1>6, <1>7, <1>8, <1>9, FinishKeeps DEF active_admin
  <1>11. Tables' /\ RoleWasOffered' /\ Confirmed'
    BY <1>1, <1>2, <1>3, <1>5, <1>6, <1>7 DEF Tables, RoleWasOffered, Confirmed, RevokesMore
  <1>12. Once' /\ AdministratorRemains' /\ ActiveIsProven'
    BY <1>2 DEF Once, AdministratorRemains, active_admin, ActiveIsProven
  <1>13. OneOpenInvitation'
    <2>1. ASSUME NEW i \in DOMAIN inv, open(i)'
          PROVE  /\ open(i) /\ inv'[i].email = inv[i].email /\ inv'[i].role = inv[i].role
                 /\ ~(inv'[i].email = t.email /\ inv'[i].role = t.role)
      BY <1>1, <1>3, <1>5, <2>1 DEF RevokesMore, open, InviteTxSound
    <2> QED
      BY <1>6, <1>7, <2>1 DEF OneOpenInvitation
  <1> QED
    BY <1>8, <1>9, <1>10, <1>11, <1>12, <1>13

\* An administrator revokes an invitation: revoke_invitation.
LEMMA RevokeInvitationKeeps ==
  ASSUME IInv, NEW r \in Requests, revoke_invitation(r)
  PROVE  IInv' /\ Forward
  <1> USE DEF IInv
  <1>1. PICK i \in DOMAIN inv : inv' = [inv EXCEPT ![i].revoked = TRUE]
    BY DEF revoke_invitation
  <1>2. UNCHANGED <<user, ver, req, decided, completed>>
    BY DEF revoke_invitation
  <1>3. RevokesMore(inv')
    <2>1. [inv[i] EXCEPT !.revoked = TRUE] \in InvRow
      BY Rows DEF InvRow
    <2>2. inv' \in Seq(InvRow)
      BY <1>1, <2>1, ExceptSeq DEF Types
    <2> QED
      BY <1>1, <2>2, Rows DEF RevokesMore, InvRow
  <1>4. Types' /\ Forward
    BY <1>2, <1>3 DEF Types, Forward, RevokesMore
  <1>5. Sound'
    <2>1. \A s \in Requests : /\ req[s] \in InviteTx => InviteTxSound(req[s])'
                              /\ req[s] \in AcceptTx => AcceptTxSound(req[s])'
      BY <1>2, <1>3 DEF Sound, InviteTxSound, AcceptTxSound, RevokesMore, open
    <2>2. \A s \in Requests : /\ req[s] \in AdminTx => AdminTxSound(req[s])'
                              /\ req[s] \in RegisterTx => RegisterTxSound(req[s])'
                              /\ req[s] \in CompleteTx => CompleteTxSound(req[s])'
      BY <1>2 DEF Sound, AdminTxSound, RegisterTxSound, CompleteTxSound, active_admin
    <2> QED
      BY <1>2, <2>1, <2>2 DEF Sound
  <1>6. Tables' /\ RoleWasOffered' /\ Confirmed'
    BY <1>2, <1>3 DEF Tables, RoleWasOffered, Confirmed, RevokesMore
  <1>7. Locked' /\ ConfirmedTx'
    BY <1>2 DEF Locked, _lock_role, lock_administrator_action, ConfirmedTx
  <1>8. Once' /\ AdministratorRemains' /\ ActiveIsProven'
    BY <1>2 DEF Once, AdministratorRemains, active_admin, ActiveIsProven
  <1> QED
    BY <1>3, <1>4, <1>5, <1>6, <1>7, <1>8, RevokesKeep

\* The invited person's account: accept_invitation.
LEMMA AcceptKeeps ==
  ASSUME IInv, NEW r \in Requests, accept_invitation(r)
  PROVE  IInv' /\ Forward
  <1> DEFINE i == req[r].id  e == inv[i].email
             row == [status |-> "active", role |-> inv[i].role, verified |-> TRUE, password |-> TRUE]
  <1> USE DEF IInv
  <1>1. /\ req[r] \in AcceptTx /\ req[r] \notin AdminTx /\ i \in DOMAIN inv /\ inv[i] \in InvRow
        /\ e \in Newcomers /\ e \in Emails
    BY Kinds, Rows DEF accept_invitation, AcceptTx, AdminTx, Sound, AcceptTxSound
  <1>2. Finish(r) /\ UNCHANGED <<ver, decided, completed>>
    BY DEF accept_invitation
  <1>3. CASE ~invitation_consumed(i)
    BY <1>2, <1>3, FinishOnly DEF accept_invitation
  <1>4. CASE invitation_consumed(i)
    <2>1. /\ inv' = [inv EXCEPT ![i].accepted = TRUE] /\ user' = [user EXCEPT ![e] = row]
          /\ user[e].status = "none"
      BY <1>4 DEF accept_invitation, invitation_consumed
    <2>2. row \in UserRow
      BY <1>1, RoleAssumption DEF UserRow, Statuses, InvRow
    <2>3. /\ user' \in [Emails -> UserRow] /\ user'[e] = row
          /\ \A x \in Emails : x # e => user'[x] = user[x]
      BY <1>1, <2>1, <2>2 DEF Types
    <2>4. /\ inv' \in Seq(InvRow) /\ DOMAIN inv' = DOMAIN inv
          /\ inv'[i].accepted /\ \A j \in DOMAIN inv : j # i => inv'[j] = inv[j]
          /\ \A j \in DOMAIN inv : /\ inv'[j].email = inv[j].email /\ inv'[j].role = inv[j].role
                                   /\ inv'[j].revoked = inv[j].revoked
      <3>1. [inv[i] EXCEPT !.accepted = TRUE] \in InvRow
        BY <1>1 DEF InvRow
      <3>2. inv' \in Seq(InvRow)
        BY <1>1, <2>1, <3>1, ExceptSeq DEF Types
      <3> QED
        BY <1>1, <2>1, <3>2, Rows DEF InvRow
    <2>5. Types'
      BY <1>2, <2>3, <2>4 DEF Types, Finish, Tx
    <2>6. Forward
      BY <1>2, <2>1, <2>3, <2>4 DEF Forward
    <2>7. \A a \in Emails : active_admin(a) => active_admin(a)'
      BY <2>1, <2>3 DEF active_admin
    <2>8. Locked' /\ Sound' /\ ConfirmedTx'
      BY <1>1, <1>2, <2>4, <2>5, <2>6, <2>7, FinishKeeps
    <2>9. Tables'
      <3>1. \A v \in DOMAIN ver' : user'[ver'[v].email].status # "none"
        BY <1>2, <2>3, Rows DEF Tables
      <3>2. \A j \in DOMAIN inv' : inv'[j].accepted => user'[inv'[j].email].status # "none"
        BY <1>1, <2>3, <2>4, Rows DEF Tables
      <3>3. \A x \in Emails : decided'[x] # {} => user'[x].status \in {"active", "disabled"}
        BY <1>2, <2>3 DEF Tables
      <3>4. \A x \in Emails : completed'[x] # {} => user'[x].status # "none" /\ user'[x].verified
        BY <1>2, <2>3 DEF Tables
      <3> QED
        BY <3>1, <3>2, <3>3, <3>4 DEF Tables
    <2>10. RoleWasOffered'
      <3>1. \A j \in DOMAIN inv : j # i /\ inv[j].email = e => ~inv[j].accepted
        BY <2>1 DEF Tables
      <3> QED
        BY <1>1, <2>3, <2>4, <3>1, Rows DEF RoleWasOffered
    <2>11. OneOpenInvitation'
      <3>1. \A j \in DOMAIN inv : open(j)' => open(j)
        BY <2>4 DEF open
      <3> QED
        BY <2>4, <3>1 DEF OneOpenInvitation
    <2>12. Once' /\ AdministratorRemains'
      BY <1>2, <2>7 DEF Once, AdministratorRemains
    <2>13. ActiveIsProven'
      BY <2>3 DEF ActiveIsProven
    <2>14. Confirmed'
      BY <1>1, <2>3, <2>4, Rows DEF Confirmed
    <2> QED
      BY <2>5, <2>6, <2>8, <2>9, <2>10, <2>11, <2>12, <2>13, <2>14
  <1> QED
    BY <1>3, <1>4

\* A status written by an administrator: on an existing account other than the
\* administrator's own, active only for one that proved itself, and answered once.
LEMMA StatusKeeps ==
  ASSUME IInv, NEW r \in Requests, Finish(r), req[r] \in AdminTx,
         NEW status \in {"active", "disabled"},
         user' = [user EXCEPT ![req[r].email].status = status],
         req[r].actor # req[r].email,
         status = "active" => req[r].ready,
         UNCHANGED <<inv, ver, completed>>,
         \/ UNCHANGED decided
         \/ /\ user[req[r].email].status = "pending"
            /\ \E answer \in {"approved", "denied"} :
                  decided' = [decided EXCEPT ![req[r].email] = decided[req[r].email] \cup {answer}]
  PROVE  IInv' /\ Forward
  <1> DEFINE e == req[r].email
  <1> USE DEF IInv
  <1>1. /\ e \in Emails /\ req[r].actor \in Emails /\ AdminTxSound(req[r])
    BY DEF AdminTx, Sound
  <1>2. /\ user' \in [Emails -> UserRow] /\ user'[e].status = status
        /\ \A x \in Emails : /\ x # e => user'[x] = user[x]
                             /\ user'[x].role = user[x].role
                             /\ user'[x].verified = user[x].verified
                             /\ user'[x].password = user[x].password
    <2>1. user[e] \in UserRow
      BY <1>1 DEF Types
    <2>2. [user[e] EXCEPT !.status = status] \in UserRow
      BY <2>1 DEF UserRow, Statuses
    <2>3. user' = [user EXCEPT ![e] = [user[e] EXCEPT !.status = status]]
      OBVIOUS
    <2>4. user' \in [Emails -> UserRow]
      BY <1>1, <2>2, <2>3 DEF Types
    <2>5. /\ user'[e] = [user[e] EXCEPT !.status = status]
          /\ \A x \in Emails : x # e => user'[x] = user[x]
      BY <1>1, <2>3 DEF Types
    <2> QED
      BY <1>1, <2>4, <2>5 DEF Types, UserRow
  <1>3. /\ decided' \in [Emails -> SUBSET {"approved", "denied"}]
        /\ \A x \in Emails : x # e => decided'[x] = decided[x]
        /\ decided'[e] = decided[e] \/ \E answer : decided'[e] = {answer}
    <2>1. CASE UNCHANGED decided
      BY <2>1 DEF Types
    <2>2. CASE ~UNCHANGED decided
      <3>1. PICK answer \in {"approved", "denied"} :
              decided' = [decided EXCEPT ![e] = decided[e] \cup {answer}]
        BY <2>2
      <3>2. decided[e] = {}
        BY <1>1, <2>2 DEF Tables
      <3> QED
        BY <1>1, <3>1, <3>2 DEF Types
    <2> QED
      BY <2>1, <2>2
  <1>4. Types'
    BY <1>2, <1>3 DEF Types, Finish, Tx
  <1>5. Forward
    BY <1>1, <1>2 DEF Forward
  <1>6. Locked' /\ Sound' /\ ConfirmedTx'
    BY <1>4, <1>5, FinishKeeps
  <1>7. Tables'
    <2>1. \A v \in DOMAIN ver' : user'[ver'[v].email].status # "none"
      BY <1>1, <1>2, Rows DEF Tables
    <2>2. \A j \in DOMAIN inv' : inv'[j].accepted => user'[inv'[j].email].status # "none"
      BY <1>1, <1>2, Rows DEF Tables
    <2>3. \A x \in Emails : decided'[x] # {} => user'[x].status \in {"active", "disabled"}
      BY <1>2, <1>3 DEF Tables
    <2>4. \A x \in Emails : completed'[x] # {} => user'[x].status # "none" /\ user'[x].verified
      BY <1>2 DEF Tables
    <2> QED
      BY <2>1, <2>2, <2>3, <2>4 DEF Tables
  <1>8. Once'
    <2>1. ASSUME NEW x \in Emails PROVE decided'[x] = {} \/ \E y : decided'[x] = {y}
      <3>1. CASE x = e /\ decided'[e] # decided[e]
        BY <1>3, <3>1
      <3>2. CASE decided'[x] = decided[x]
        BY <3>2 DEF Once
      <3> QED
        BY <1>3, <3>1, <3>2
    <2> QED
      BY <2>1 DEF Once
  <1>9. AdministratorRemains'
    <2>1. \A a \in Emails : a # e /\ active_admin(a) => active_admin(a)'
      BY <1>2 DEF active_admin
    <2> QED
      BY <1>1, <2>1 DEF AdministratorRemains, AdminTxSound
  <1>10. ActiveIsProven'
    BY <1>1, <1>2 DEF ActiveIsProven, AdminTxSound
  <1>11. RoleWasOffered' /\ OneOpenInvitation'
    BY <1>2, Rows DEF RoleWasOffered, OneOpenInvitation, open
  <1>12. Confirmed'
    BY <1>1, <1>2, Rows DEF Confirmed, AdminTxSound
  <1> QED
    BY <1>4, <1>5, <1>6, <1>7, <1>8, <1>9, <1>10, <1>11, <1>12

\* Enabling and disabling: toggle_user.
LEMMA ToggleKeeps ==
  ASSUME IInv, NEW r \in Requests, toggle_user(r)
  PROVE  IInv' /\ Forward
  <1> DEFINE t == req[r]
             status == IF t.status = "active" THEN "disabled" ELSE "active"
  <1>1. /\ t \in AdminTx /\ t.status \in Statuses /\ t.status # "none" /\ t.ready \in BOOLEAN
    <2>1. t \in AdminTx
      BY Kinds DEF toggle_user, IInv
    <2> QED
      BY <2>1 DEF IInv, Sound, AdminTxSound, AdminTx
  <1>2. Finish(r) /\ UNCHANGED <<inv, ver, decided, completed>>
    BY DEF toggle_user
  <1>3. CASE toggle_refused(t)
    BY <1>2, <1>3, FinishOnly DEF toggle_user
  <1>4. CASE ~toggle_refused(t)
    <2>1. user' = [user EXCEPT ![t.email].status = status]
      BY <1>4 DEF toggle_user
    <2>2. /\ status \in {"active", "disabled"} /\ t.actor # t.email
          /\ status = "active" => t.ready
      BY <1>1, <1>4 DEF toggle_refused, Statuses
    <2> HIDE DEF status
    <2> QED
      BY <1>1, <1>2, <2>1, <2>2, StatusKeeps
  <1> QED
    BY <1>3, <1>4

\* A pending account is not the deciding administrator's own.
LEMMA DecidesForOthers ==
  ASSUME IInv, NEW r \in Requests, req[r] \in AdminTx, pending(req[r])
  PROVE  req[r].actor # req[r].email
  BY DEF IInv, Sound, AdminTxSound, active_admin, pending

\* An approval: approve_self_registration.
LEMMA ApproveKeeps ==
  ASSUME IInv, NEW r \in Requests, approve_self_registration(r)
  PROVE  IInv' /\ Forward
  <1> DEFINE t == req[r]
  <1>1. t \in AdminTx
    BY Kinds DEF approve_self_registration, IInv
  <1>2. Finish(r) /\ UNCHANGED <<inv, ver, completed>>
    BY DEF approve_self_registration
  <1>3. CASE ~approvable(t)
    BY <1>2, <1>3, FinishOnly DEF approve_self_registration
  <1>4. CASE approvable(t)
    <2>1. /\ user' = [user EXCEPT ![t.email].status = "active"]
          /\ decided' = [decided EXCEPT ![t.email] = decided[t.email] \cup {"approved"}]
      BY <1>4 DEF approve_self_registration
    <2>2. t.ready /\ pending(t) /\ user[t.email].status = "pending"
      BY <1>4 DEF approvable, pending
    <2>3. t.actor # t.email
      BY <1>1, <2>2, DecidesForOthers
    <2> QED
      BY <1>1, <1>2, <2>1, <2>2, <2>3, StatusKeeps
  <1> QED
    BY <1>3, <1>4

\* A denial: deny_self_registration.
LEMMA DenyKeeps ==
  ASSUME IInv, NEW r \in Requests, deny_self_registration(r)
  PROVE  IInv' /\ Forward
  <1> DEFINE t == req[r]
  <1>1. t \in AdminTx
    BY Kinds DEF deny_self_registration, IInv
  <1>2. Finish(r) /\ UNCHANGED <<inv, ver, completed>>
    BY DEF deny_self_registration
  <1>3. CASE ~pending(t)
    BY <1>2, <1>3, FinishOnly DEF deny_self_registration
  <1>4. CASE pending(t)
    <2>1. /\ user' = [user EXCEPT ![t.email].status = "disabled"]
          /\ decided' = [decided EXCEPT ![t.email] = decided[t.email] \cup {"denied"}]
      BY <1>4 DEF deny_self_registration
    <2>2. user[t.email].status = "pending"
      BY <1>4 DEF pending
    <2>3. t.actor # t.email
      BY <1>1, <1>4, DecidesForOthers
    <2> QED
      BY <1>1, <1>2, <2>1, <2>2, <2>3, StatusKeeps
  <1> QED
    BY <1>3, <1>4

\* The age of a link is not part of the invariant.
LEMMA SameLinks ==
  ASSUME IInv, UNCHANGED <<user, req, decided, completed>>,
         inv' \in Seq(InvRow), DOMAIN inv' = DOMAIN inv,
         \A i \in DOMAIN inv : /\ inv'[i].email = inv[i].email /\ inv'[i].role = inv[i].role
                               /\ inv'[i].accepted = inv[i].accepted
                               /\ inv'[i].revoked = inv[i].revoked,
         ver' \in Seq(VerRow), DOMAIN ver' = DOMAIN ver,
         \A v \in DOMAIN ver : ver'[v].email = ver[v].email /\ ver'[v].used = ver[v].used
  PROVE  IInv' /\ Forward
  <1> USE DEF IInv
  <1>1. Types' /\ Forward
    BY DEF Types, Forward
  <1>2. \A i \in DOMAIN inv : open(i)' <=> open(i)
    BY DEF open
  <1>3. Sound'
    <2>1. \A s \in Requests : /\ req[s] \in InviteTx => InviteTxSound(req[s])'
                              /\ req[s] \in AcceptTx => AcceptTxSound(req[s])'
      BY <1>2 DEF Sound, InviteTxSound, AcceptTxSound
    <2>2. \A s \in Requests : /\ req[s] \in AdminTx => AdminTxSound(req[s])'
                              /\ req[s] \in RegisterTx => RegisterTxSound(req[s])'
                              /\ req[s] \in CompleteTx => CompleteTxSound(req[s])'
      BY DEF Sound, AdminTxSound, RegisterTxSound, CompleteTxSound, active_admin
    <2> QED
      BY <2>1, <2>2 DEF Sound
  <1>4. Locked' /\ ConfirmedTx'
    BY DEF Locked, _lock_role, lock_administrator_action, ConfirmedTx
  <1>5. Tables'
    BY DEF Tables
  <1>6. RoleWasOffered' /\ Confirmed'
    BY DEF RoleWasOffered, Confirmed
  <1>7. OneOpenInvitation'
    BY <1>2 DEF OneOpenInvitation
  <1>8. Once' /\ AdministratorRemains' /\ ActiveIsProven'
    BY DEF Once, AdministratorRemains, active_admin, ActiveIsProven
  <1> QED
    BY <1>1, <1>3, <1>4, <1>5, <1>6, <1>7, <1>8

LEMMA AgeKeeps ==
  ASSUME IInv, Age, UNCHANGED <<user, req, decided, completed>>
  PROVE  IInv' /\ Forward
  <1>1. Types
    BY DEF IInv
  <1>2. ASSUME NEW v \in DOMAIN ver, UNCHANGED inv,
               ver' = [ver EXCEPT ![v].expired = ~ver[v].recent, ![v].recent = FALSE]
        PROVE  IInv' /\ Forward
    <2> DEFINE row == [ver[v] EXCEPT !.expired = ~ver[v].recent, !.recent = FALSE]
    <2>1. /\ row \in VerRow /\ row.email = ver[v].email /\ row.used = ver[v].used
      BY <1>1, Rows DEF VerRow
    <2>2. ver' = [ver EXCEPT ![v] = row]
      BY <1>2
    <2> HIDE DEF row
    <2>3. ver' \in Seq(VerRow)
      BY <1>1, <2>1, <2>2, ExceptSeq DEF Types
    <2>4. /\ DOMAIN ver' = DOMAIN ver
          /\ \A w \in DOMAIN ver : ver'[w].email = ver[w].email /\ ver'[w].used = ver[w].used
      BY <1>1, <2>1, <2>2 DEF Types
    <2>5. inv' \in Seq(InvRow)
      BY <1>1, <1>2 DEF Types
    <2> QED
      BY <1>2, <2>3, <2>4, <2>5, SameLinks
  <1>3. ASSUME NEW i \in DOMAIN inv, UNCHANGED ver, inv' = [inv EXCEPT ![i].expired = TRUE]
        PROVE  IInv' /\ Forward
    <2> DEFINE row == [inv[i] EXCEPT !.expired = TRUE]
    <2>1. /\ row \in InvRow /\ row.email = inv[i].email /\ row.role = inv[i].role
          /\ row.accepted = inv[i].accepted /\ row.revoked = inv[i].revoked
      BY <1>1, Rows DEF InvRow
    <2>2. inv' = [inv EXCEPT ![i] = row]
      BY <1>3
    <2> HIDE DEF row
    <2>3. inv' \in Seq(InvRow)
      BY <1>1, <2>1, <2>2, ExceptSeq DEF Types
    <2>4. /\ DOMAIN inv' = DOMAIN inv
          /\ \A j \in DOMAIN inv : /\ inv'[j].email = inv[j].email /\ inv'[j].role = inv[j].role
                                   /\ inv'[j].accepted = inv[j].accepted
                                   /\ inv'[j].revoked = inv[j].revoked
      BY <1>1, <2>1, <2>2 DEF Types
    <2>5. ver' \in Seq(VerRow)
      BY <1>1, <1>3 DEF Types
    <2> QED
      BY <1>3, <2>3, <2>4, <2>5, SameLinks
  <1> QED
    BY <1>2, <1>3 DEF Age

-----------------------------------------------------------------------------
(* The theorems.                                                           *)

LEMMA InitIInv == Init => IInv
  <1> SUFFICES ASSUME Init PROVE IInv
    OBVIOUS
  <1> USE DEF Init
  <1>1. Types
    <2>1. [status |-> "active", role |-> "administrator", verified |-> TRUE, password |-> TRUE]
            \in UserRow /\ NoUser \in UserRow
      BY DEF UserRow, NoUser, Statuses, Roles
    <2> QED
      BY <2>1 DEF Types, Tx
  <1>2. \A r \in Requests : req[r] = Idle
    OBVIOUS
  <1>3. Idle \notin AdminTx \cup RegisterTx \cup CompleteTx \cup InviteTx \cup AcceptTx
    BY DEF Idle, AdminTx, RegisterTx, CompleteTx, InviteTx, AcceptTx
  <1>4. Locked
    BY <1>2 DEF Locked, _lock_role, Idle, lock_administrator_action
  <1>5. Sound /\ ConfirmedTx
    BY <1>2, <1>3 DEF Sound, ConfirmedTx
  <1>6. Tables /\ Once
    BY DEF Tables, Once
  <1>7. AdministratorRemains
    BY AddressAssumption DEF AdministratorRemains, active_admin, Emails
  <1>8. ActiveIsProven /\ RoleWasOffered /\ OneOpenInvitation
    BY DEF ActiveIsProven, NoUser, RoleWasOffered, OneOpenInvitation
  <1>9. Confirmed
    BY AddressAssumption DEF Confirmed, NoUser, Emails
  <1> QED
    BY <1>1, <1>4, <1>5, <1>6, <1>7, <1>8, <1>9 DEF IInv

\* A request that starts changes no table.
LEMMA StartsForward ==
  ASSUME NEW r \in Requests,
         \/ registration_submit(r) \/ registration_verification_submit(r) \/ invite_submit(r)
         \/ invitation_submit(r) \/ _admin_user_mutation(r)
  PROVE  Forward
  <1>1. UNCHANGED <<user, inv, ver>>
    BY DEF registration_submit, registration_verification_submit, invite_submit,
           invitation_submit, _admin_user_mutation, Begin
  <1> QED
    BY <1>1 DEF Forward

LEMMA NextIInv == IInv /\ [Next]_vars => IInv' /\ Forward
  <1> SUFFICES ASSUME IInv, [Next]_vars PROVE IInv' /\ Forward
    OBVIOUS
  <1>1. ASSUME NEW r \in Requests,
               \/ registration_submit(r) \/ request_self_registration(r)
               \/ registration_verification_submit(r) \/ complete_self_registration(r)
               \/ invite_submit(r) \/ create_invitation(r) \/ revoke_invitation(r)
               \/ invitation_submit(r) \/ accept_invitation(r)
               \/ _admin_user_mutation(r) \/ toggle_user(r)
               \/ approve_self_registration(r) \/ deny_self_registration(r)
        PROVE  IInv' /\ Forward
    BY <1>1, StartsForward, RegistrationSubmitKeeps, VerificationSubmitKeeps, InviteSubmitKeeps,
       InvitationSubmitKeeps, AdminMutationKeeps, RegisterKeeps, CompleteKeeps,
       CreateInvitationKeeps, RevokeInvitationKeeps, AcceptKeeps, ToggleKeeps, ApproveKeeps,
       DenyKeeps
  <1>2. CASE UNCHANGED vars
    <2>1. inv' \in Seq(InvRow) /\ ver' \in Seq(VerRow)
      BY <1>2 DEF vars, IInv, Types
    <2> QED
      BY <1>2, <2>1, SameLinks DEF vars
  <1> QED
    BY <1>1, <1>2, AgeKeeps DEF Next

\* AccountsAreSafe: whatever registrations, invitations and decisions of
\* administrators overlap, AccountsSafe holds: an active administrator remains, who
\* may sign in has proved the address, a registration is decided once and completed
\* once, the role is the one that was offered, only confirmed addresses get in, and
\* an address has one open invitation for a role.
THEOREM AccountsAreSafe == Spec => []AccountsSafe
  <1>1. Init => IInv
    BY InitIInv
  <1>2. IInv /\ [Next]_vars => IInv'
    BY NextIInv
  <1>3. IInv => AccountsSafe
    <2> SUFFICES ASSUME IInv PROVE AccountsSafe
      OBVIOUS
    <2>1. TypeOK
      BY Rows DEF IInv, Types, TypeOK, UserRow, Statuses, Locked, InvRow
    <2>2. DecidedOnce /\ CompletedOnce
      <3>1. ASSUME NEW S, S = {} \/ \E x : S = {x} PROVE Cardinality(S) <= 1
        <4>1. CASE S = {}
          BY <4>1, FS_EmptySet
        <4>2. ASSUME NEW x, S = {x} PROVE Cardinality(S) <= 1
          <5>1. Cardinality({x}) = 1
            BY FS_Singleton, Zenon
          <5> QED
            BY <4>2, <5>1
        <4> QED
          BY <3>1, <4>1, <4>2
      <3> QED
        BY <3>1 DEF IInv, Once, DecidedOnce, CompletedOnce
    <2> QED
      BY <2>1, <2>2 DEF IInv, AccountsSafe
  <1> QED
    BY <1>1, <1>2, <1>3, PTL DEF Spec

\* NothingIsUndone: no step takes an account, its role or its proofs away, reopens a
\* used link, or makes an accepted or revoked invitation usable again.
THEOREM NothingIsUndone == Spec => [][Forward]_vars
  <1>1. Init => IInv
    BY InitIInv
  <1>2. IInv /\ [Next]_vars => IInv' /\ Forward
    BY NextIInv
  <1> QED
    BY <1>1, <1>2, PTL DEF Spec

------------------------------------------------------------------------------
(* Sessions.  The account of the invariant's parts: what the browser and   *)
(* its requests in flight hold, compared with the session row.             *)
Jars == [gen : -1..MaxGen, access : 0..MaxVersion, csrf : BOOLEAN]
Sent == [pc : {"sent", "authed", "answered"}, s : SessionIds, op : Ops, jar : Jars, set : Jars,
         act : {"keep", "set", "clear", "none"}]

SignTypes == Sign!TypeOK /\ visit \in [Visits -> {Sign!NoRequest} \cup Sent]

\* The version that a status change writes is within its bound.
AdminBound == admin # Sign!NoAdmin => admin.seen.version < MaxVersion

\* Every wrong password that was weighed was counted, except at most one.
GuessesCounted == tries <= account.attempts + 1

\* A checked password is of this epoch, or of an older version of the account.
LoginsCurrent ==
    \A l \in Logins : login[l].pc = "verified" =>
        /\ login[l].version <= account.version
        /\ login[l].version = account.version => login[l].basis = epoch

\* A request in flight and a session that is live: the token it carries is the current
\* one, or the one before while the grace runs; while it runs, whoever has the current
\* token has an access token too; a rotation's answer carries the current token.
InStep(q, s) ==
    /\ q.act # "clear"
    /\ q.pc = "sent" =>
          /\ q.act = "keep"
          /\ q.jar.gen \in {sess[s].gen, sess[s].gen - 1}
          /\ ~sess[s].grace => q.jar.gen = sess[s].gen
          /\ sess[s].grace /\ q.jar.gen = sess[s].gen => q.jar.access = account.version
    /\ q.act = "set" => sess[s].grace /\ q.set.gen = sess[s].gen
                        /\ q.set.access = account.version

\* The browser has the current token, or an answer that carries it is on its way.
BrowserInStep(s) ==
    /\ jar[s].gen \in {sess[s].gen, sess[s].gen - 1} /\ jar[s].gen >= 0
    /\ ~sess[s].grace => jar[s].gen = sess[s].gen
    /\ sess[s].grace /\ jar[s].gen = sess[s].gen => jar[s].access = account.version
    /\ jar[s].gen # sess[s].gen =>
          \E r \in Visits : visit[r].pc # "idle" /\ visit[r].s = s /\ visit[r].act = "set"

SessionInStep(s) ==
    /\ sess[s].why # "reuse"
    /\ Sign!Live(s) => BrowserInStep(s)
    /\ \A r \in Visits : visit[r].pc # "idle" /\ visit[r].s = s =>
          /\ sess[s].state # "absent"
          /\ Sign!Live(s) => InStep(visit[r], s)
    /\ sess[s].state = "absent" => sess[s] = Sign!NoSession /\ jar[s] = Sign!NoJar

Refreshes == \A s \in SessionIds : SessionInStep(s)

\* The columns of a session, and the account, as TypeOK has them.
SessionRow == [state : {"absent", "live", "revoked", "expired"}, gen : 0..MaxGen,
               grace : BOOLEAN, basis : Nat, why : {"none", "reuse", "asked", "security"}]
LoginRow == [pc : {"idle", "verified", "done", "rejected"}, version : 0..MaxVersion, basis : Nat]

\* The inductive invariant.
SignInv ==
    /\ SignTypes /\ AdminBound /\ GuessesCounted
    /\ AdminOps = {} =>
          /\ admin = Sign!NoAdmin /\ account.status = "active"
          /\ LoginsCurrent /\ Sign!NoSurvivor
          /\ Prompt => Refreshes

(* The outbox.  Every claim in a deliverer's batch is its own and of        *)
(* another message; an accepted answer means that the relay took it.       *)
Batches ==
    \A d \in Deliverers :
        /\ proc[d].pc = "idle" <=> proc[d].claims = <<>>
        /\ \A i \in 1..Len(proc[d].claims) :
              /\ proc[d].claims[i][2][1] = d
              /\ \A j \in 1..Len(proc[d].claims) :
                    proc[d].claims[i][1] = proc[d].claims[j][1] => i = j
        /\ proc[d].pc = "answered" /\ proc[d].outcome = "ok" => accepted[Mail!Current(d)] > 0

\* The answer that the relay took m is about to be recorded.
Recording(d, m) ==
    proc[d].pc = "answered" /\ proc[d].outcome = "ok" /\ Mail!Current(d) = m

\* Whoever has m in its batch holds its claim; m was taken at most once, and then it is
\* sent or about to be.
Undisturbed(m) ==
    /\ \A d \in Deliverers : \A i \in 1..Len(proc[d].claims) :
          proc[d].claims[i][1] = m =>
             box[m].state = "pending" /\ box[m].claim = proc[d].claims[i][2] /\ ~box[m].stale
    /\ accepted[m] > 0 =>
          accepted[m] = 1 /\ (box[m].state = "sent" \/ \E d \in Deliverers : Recording(d, m))

\* The inductive invariant of the outbox.
MailInv ==
    /\ Mail!TypeOK /\ Mail!SentWasAccepted /\ Batches
    /\ \A m \in Messages \ excuse : Undisturbed(m)

-----------------------------------------------------------------------------
(* The rows and what the operations make of them.                          *)

\* The type invariant, one variable at a time.
LEMMA SignTypesParts ==
  SignTypes <=>
    /\ account \in Sign!Account /\ login \in [Logins -> LoginRow]
    /\ admin = Sign!NoAdmin \/ admin \in [pc : {"read", "revoked"}, op : AdminOps, seen : Sign!Account]
    /\ sess \in [SessionIds -> SessionRow] /\ jar \in [SessionIds -> Jars]
    /\ visit \in [Visits -> {Sign!NoRequest} \cup Sent]
    /\ reset \in [ResetIds -> {"none", "open", "used", "expired"}]
    /\ epoch \in Nat /\ wrong \in 0..MaxWrong /\ tries \in Nat
  BY DEF SignTypes, Sign!TypeOK, SessionRow, LoginRow, Jars

LEMMA SignTypesNext ==
  SignTypes' <=>
    /\ account' \in Sign!Account /\ login' \in [Logins -> LoginRow]
    /\ admin' = Sign!NoAdmin \/ admin' \in [pc : {"read", "revoked"}, op : AdminOps, seen : Sign!Account]
    /\ sess' \in [SessionIds -> SessionRow] /\ jar' \in [SessionIds -> Jars]
    /\ visit' \in [Visits -> {Sign!NoRequest} \cup Sent]
    /\ reset' \in [ResetIds -> {"none", "open", "used", "expired"}]
    /\ epoch' \in Nat /\ wrong' \in 0..MaxWrong /\ tries' \in Nat
  BY DEF SignTypes, Sign!TypeOK, SessionRow, LoginRow, Jars

\* A visit is idle or has the fields of a request.
LEMMA VisitKinds ==
  ASSUME SignTypes, NEW r \in Visits, visit[r].pc # "idle"
  PROVE  visit[r] \in Sent
  BY DEF SignTypes, Sign!NoRequest

\* The updates of the account keep its type.
LEMMA AccountUpdates ==
  ASSUME NEW u \in Sign!Account
  PROVE  /\ Sign!Unlocked(u) \in Sign!Account
         /\ Sign!Unlocked(u).attempts = 0 /\ Sign!Unlocked(u).version = u.version
         /\ Sign!Unlocked(u).status = u.status
         /\ u.attempts < Limit => /\ Sign!Counted(u) \in Sign!Account
                                  /\ Sign!Counted(u).attempts = u.attempts + 1
                                  /\ Sign!Counted(u).version = u.version
                                  /\ Sign!Counted(u).status = u.status
         /\ \A k \in {"none", "running", "over"} :
              /\ [u EXCEPT !.lock = k] \in Sign!Account
              /\ [u EXCEPT !.lock = k].attempts = u.attempts
              /\ [u EXCEPT !.lock = k].version = u.version
              /\ [u EXCEPT !.lock = k].status = u.status
         /\ u.version < MaxVersion => /\ Sign!NewPassword(u) \in Sign!Account
                                      /\ Sign!NewPassword(u).version = u.version + 1
                                      /\ Sign!NewPassword(u).attempts = 0
                                      /\ Sign!NewPassword(u).status = u.status
  <1> DEFINE v == Sign!Unlocked(u)
  <1> USE DEF Sign!Account
  <1>1. v \in Sign!Account /\ v.attempts = 0 /\ v.version = u.version /\ v.status = u.status
    <2>1. v = [[u EXCEPT !.attempts = 0] EXCEPT !.lock = "none"]
      BY DEF Sign!Unlocked
    <2>2. [u EXCEPT !.attempts = 0] \in Sign!Account
      BY SessionAssumption
    <2> QED
      BY <2>1, <2>2
  <1>2. ASSUME u.attempts < Limit
        PROVE  /\ Sign!Counted(u) \in Sign!Account
               /\ Sign!Counted(u).attempts = u.attempts + 1
               /\ Sign!Counted(u).version = u.version /\ Sign!Counted(u).status = u.status
    <2> DEFINE k == IF u.attempts + 1 >= Limit THEN "running" ELSE "none"
    <2> DEFINE w == [u EXCEPT !.attempts = u.attempts + 1]
    <2>1. Sign!Counted(u) = [w EXCEPT !.lock = k]
      BY <1>2, SessionAssumption DEF Sign!Counted
    <2>2. k \in {"running", "none"}
      OBVIOUS
    <2>3. w \in Sign!Account /\ w.attempts = u.attempts + 1 /\ w.version = u.version
          /\ w.status = u.status
      BY <1>2, SessionAssumption
    <2> HIDE DEF k, w
    <2> QED
      BY <2>1, <2>2, <2>3
  <1>3. \A k \in {"none", "running", "over"} :
          /\ [u EXCEPT !.lock = k] \in Sign!Account
          /\ [u EXCEPT !.lock = k].attempts = u.attempts
          /\ [u EXCEPT !.lock = k].version = u.version
          /\ [u EXCEPT !.lock = k].status = u.status
    OBVIOUS
  <1>4. ASSUME u.version < MaxVersion
        PROVE  /\ Sign!NewPassword(u) \in Sign!Account
               /\ Sign!NewPassword(u).version = u.version + 1
               /\ Sign!NewPassword(u).attempts = 0 /\ Sign!NewPassword(u).status = u.status
    <2> DEFINE w == [v EXCEPT !.hash = v.hash + 1]
    <2> HIDE DEF v
    <2>1. w \in Sign!Account /\ w.attempts = 0 /\ w.version = u.version /\ w.status = u.status
      BY <1>1
    <2>2. Sign!NewPassword(u) = [w EXCEPT !.version = w.version + 1]
      BY <1>1 DEF Sign!NewPassword, v
    <2> HIDE DEF w
    <2> QED
      BY <1>4, <2>1, <2>2, SessionAssumption
  <1> QED
    BY <1>1, <1>2, <1>3, <1>4

\* revoke_all_sessions leaves no live session and nothing else changed.
LEMMA RevokeAll ==
  ASSUME sess \in [SessionIds -> SessionRow]
  PROVE  LET S == Sign!revoke_all_sessions(sess) IN
         /\ S \in [SessionIds -> SessionRow]
         /\ \A s \in SessionIds : /\ S[s].state # "live"
                                  /\ S[s].state = "absent" <=> sess[s].state = "absent"
                                  /\ sess[s].state # "live" => S[s] = sess[s]
                                  /\ S[s].why = "reuse" => sess[s].why = "reuse"
  <1> DEFINE S == Sign!revoke_all_sessions(sess)
  <1>1. \A s \in SessionIds :
          S[s] = IF sess[s].state = "live"
                 THEN [sess[s] EXCEPT !.state = "revoked", !.why = "security"] ELSE sess[s]
    BY DEF Sign!revoke_all_sessions
  <1>2. \A s \in SessionIds :
          /\ S[s] \in SessionRow
          /\ S[s].state # "live" /\ (S[s].state = "absent" <=> sess[s].state = "absent")
          /\ sess[s].state # "live" => S[s] = sess[s]
          /\ S[s].why = "reuse" => sess[s].why = "reuse"
    BY <1>1 DEF SessionRow
  <1>3. S \in [SessionIds -> SessionRow]
    BY <1>2 DEF Sign!revoke_all_sessions
  <1> QED
    BY <1>2, <1>3

\* The row of a new session.
LEMMA NewSession ==
  ASSUME NEW b \in Nat
  PROVE  LET n == [Sign!NoSession EXCEPT !.state = "live", !.basis = b] IN
         /\ n \in SessionRow /\ n.state = "live" /\ n.basis = b /\ n.gen = 0 /\ ~n.grace
         /\ n.why = "none"
  <1> DEFINE c == [Sign!NoSession EXCEPT !.state = "live"]
             n == [c EXCEPT !.basis = b]
  <1>1. Sign!NoSession \in SessionRow
    BY SessionAssumption DEF Sign!NoSession, SessionRow
  <1>2. c \in SessionRow /\ c.state = "live" /\ c.gen = 0 /\ ~c.grace /\ c.why = "none"
    BY <1>1 DEF Sign!NoSession, SessionRow
  <1>3. n = [Sign!NoSession EXCEPT !.state = "live", !.basis = b]
    BY <1>1 DEF SessionRow
  <1> HIDE DEF c
  <1>4. n \in SessionRow /\ n.state = "live" /\ n.basis = b /\ n.gen = 0 /\ ~n.grace
        /\ n.why = "none"
    BY <1>2 DEF SessionRow
  <1> QED
    BY <1>3, <1>4

\* What authenticating a request makes of it, and nothing of the others.
LEMMA AuthedVisit ==
  ASSUME SignTypes, NEW r \in Visits, visit[r].pc # "idle",
         NEW act \in {"keep", "set", "clear", "none"}, NEW g \in -1..MaxGen, Sign!Authed(r, act, g)
  PROVE  /\ visit' \in [Visits -> {Sign!NoRequest} \cup Sent]
         /\ visit'[r].pc = "authed" /\ visit'[r].act = act /\ visit'[r].s = visit[r].s
         /\ visit'[r].set.gen = g /\ visit'[r].set.access = account.version
         /\ \A x \in Visits \ {r} : visit'[x] = visit[x]
  <1> DEFINE c == [gen |-> g, access |-> account.version, csrf |-> TRUE]
             a == [visit[r] EXCEPT !.pc = "authed"]
             b == [a EXCEPT !.act = act]
             d == [b EXCEPT !.set = c]
  <1>1. visit[r] \in Sent /\ account \in Sign!Account
    BY VisitKinds, SignTypesParts
  <1>2. c \in Jars
    BY <1>1, SessionAssumption DEF Jars, Sign!Account
  <1>3. visit' = [visit EXCEPT ![r] = d]
    BY <1>1, SignTypesParts DEF Sign!Authed, Sent
  <1>4. c.gen = g /\ c.access = account.version
    OBVIOUS
  <1> HIDE DEF c
  <1>5. a \in Sent /\ a.pc = "authed" /\ a.s = visit[r].s
    BY <1>1 DEF Sent
  <1> HIDE DEF a
  <1>6. b \in Sent /\ b.pc = "authed" /\ b.s = visit[r].s /\ b.act = act
    BY <1>5 DEF Sent
  <1> HIDE DEF b
  <1>7. d \in Sent /\ d.pc = "authed" /\ d.s = visit[r].s /\ d.act = act /\ d.set = c
    BY <1>2, <1>6 DEF Sent
  <1> HIDE DEF d
  <1> QED
    BY <1>3, <1>4, <1>7, SignTypesParts

\* An answer keeps what the authentication left, but for what happens to the cookies.
LEMMA AnsweredVisit ==
  ASSUME SignTypes, NEW r \in Visits, visit[r].pc # "idle",
         NEW act \in {"keep", "set", "clear", "none"}, Sign!Answered(r, act)
  PROVE  /\ visit' \in [Visits -> {Sign!NoRequest} \cup Sent]
         /\ visit'[r].pc = "answered" /\ visit'[r].act = act /\ visit'[r].s = visit[r].s
         /\ visit'[r].set = visit[r].set
         /\ \A x \in Visits \ {r} : visit'[x] = visit[x]
  <1> DEFINE a == [visit[r] EXCEPT !.pc = "answered"]
             b == [a EXCEPT !.act = act]
  <1>1. visit[r] \in Sent
    BY VisitKinds
  <1>2. visit' = [visit EXCEPT ![r] = b]
    BY <1>1, SignTypesParts DEF Sign!Answered, Sent
  <1>3. a \in Sent /\ a.pc = "answered" /\ a.s = visit[r].s /\ a.set = visit[r].set
    BY <1>1 DEF Sent
  <1> HIDE DEF a
  <1>4. b \in Sent /\ b.pc = "answered" /\ b.s = visit[r].s /\ b.set = visit[r].set /\ b.act = act
    BY <1>3 DEF Sent
  <1> HIDE DEF b
  <1> QED
    BY <1>2, <1>4, SignTypesParts

\* A rotation makes the next token the current one and starts the grace.
LEMMA RotatedSession ==
  ASSUME sess \in [SessionIds -> SessionRow], NEW s \in SessionIds, sess[s].gen < MaxGen,
         sess' = [sess EXCEPT ![s].gen = @ + 1, ![s].grace = TRUE]
  PROVE  /\ sess' \in [SessionIds -> SessionRow]
         /\ sess'[s].gen = sess[s].gen + 1 /\ sess'[s].grace /\ sess'[s].state = sess[s].state
         /\ sess'[s].why = sess[s].why /\ sess'[s].basis = sess[s].basis
         /\ \A x \in SessionIds \ {s} : sess'[x] = sess[x]
  <1> DEFINE a == [sess[s] EXCEPT !.gen = sess[s].gen + 1]
             b == [a EXCEPT !.grace = TRUE]
  <1>1. sess' = [sess EXCEPT ![s] = b]
    BY DEF SessionRow
  <1>2. a \in SessionRow /\ a.gen = sess[s].gen + 1 /\ a.state = sess[s].state
        /\ a.why = sess[s].why /\ a.basis = sess[s].basis
    BY SessionAssumption DEF SessionRow
  <1> HIDE DEF a
  <1>3. b \in SessionRow /\ b.gen = sess[s].gen + 1 /\ b.grace /\ b.state = sess[s].state
        /\ b.why = sess[s].why /\ b.basis = sess[s].basis
    BY <1>2 DEF SessionRow
  <1> HIDE DEF b
  <1> QED
    BY <1>1, <1>3

\* Ending one session, for the reason w, if it is live.
LEMMA RevokeOne ==
  ASSUME sess \in [SessionIds -> SessionRow], NEW s \in SessionIds,
         NEW w \in {"reuse", "asked"},
         sess' = [sess EXCEPT ![s].state = IF Sign!Live(s) THEN "revoked" ELSE @,
                              ![s].why = IF Sign!Live(s) THEN w ELSE @]
  PROVE  /\ sess' \in [SessionIds -> SessionRow]
         /\ ~Sign!Live(s)' /\ (Sign!Live(s) => sess'[s].why = w /\ sess[s].state # "absent")
         /\ sess'[s].state = "absent" <=> sess[s].state = "absent"
         /\ ~Sign!Live(s) => sess'[s] = sess[s]
         /\ \A x \in SessionIds \ {s} : sess'[x] = sess[x]
  <1> DEFINE a == [sess[s] EXCEPT !.state = "revoked"]
             b == [a EXCEPT !.why = w]
  <1>1. CASE Sign!Live(s)
    <2>1. sess' = [sess EXCEPT ![s] = b]
      BY <1>1 DEF SessionRow
    <2>2. a \in SessionRow /\ a.state = "revoked"
      BY DEF SessionRow
    <2> HIDE DEF a
    <2>3. b \in SessionRow /\ b.state = "revoked" /\ b.why = w
      BY <2>2 DEF SessionRow
    <2> HIDE DEF b
    <2> QED
      BY <1>1, <2>1, <2>3 DEF Sign!Live
  <1>2. CASE ~Sign!Live(s)
    <2>1. sess'[s] = sess[s] /\ \A x \in SessionIds \ {s} : sess'[x] = sess[x]
      BY <1>2 DEF SessionRow
    <2>2. sess' \in [SessionIds -> SessionRow]
      BY <1>2, <2>1 DEF SessionRow
    <2> QED
      BY <1>2, <2>1, <2>2 DEF Sign!Live
  <1> QED
    BY <1>1, <1>2

-----------------------------------------------------------------------------
(* Types, and the wrong passwords weighed: these hold whatever the         *)
(* administrator does.                                                     *)

Counts == SignTypes /\ AdminBound /\ GuessesCounted

\* The credential check, by its five outcomes.
LEMMA CheckCounts ==
  ASSUME Counts, NEW l \in Logins, NEW valid \in BOOLEAN, Sign!authenticate_user(l, valid)
  PROVE  Counts'
  <1> USE SessionAssumption
  <1>1. account \in Sign!Account /\ login \in [Logins -> LoginRow] /\ wrong \in 0..MaxWrong
        /\ tries \in Nat /\ epoch \in Nat /\ tries <= account.attempts + 1
    BY SignTypesParts DEF Counts, GuessesCounted
  <1>2. account.attempts \in 0..Limit /\ account.version \in 1..MaxVersion
    BY <1>1 DEF Sign!Account
  <1>3. wrong' \in 0..MaxWrong /\ UNCHANGED <<admin, sess, jar, visit, reset, epoch>>
    BY <1>1 DEF Sign!authenticate_user
  <1>4. login' \in [Logins -> LoginRow]
    <2>1. [Sign!NoLogin EXCEPT !.pc = "rejected"] \in LoginRow
      BY DEF Sign!NoLogin, LoginRow
    <2>2. [pc |-> "verified", version |-> account.version, basis |-> epoch] \in LoginRow
      BY <1>1, <1>2 DEF LoginRow
    <2>3. \/ \E u \in {account, [account EXCEPT !.lock = "running"], Sign!Unlocked(account),
                     IF Sign!counts_failure(account) THEN Sign!Counted(account) ELSE account} :
               Sign!Reject(l, u)
          \/ login' = [login EXCEPT ![l] = [pc |-> "verified", version |-> account.version,
                                           basis |-> epoch]]
      BY Zenon DEF Sign!authenticate_user
    <2> QED
      BY <1>1, <2>1, <2>2, <2>3 DEF Sign!Reject
  <1>5. account' \in Sign!Account /\ tries' \in Nat /\ tries' <= account'.attempts + 1
    <2>0. Sign!Unlocked(account) \in Sign!Account /\ Sign!Unlocked(account).attempts = 0
      BY <1>1, AccountUpdates
    <2>1. CASE Sign!Reject(l, account) /\ UNCHANGED tries
      BY <1>1, <2>1 DEF Sign!Reject
    <2>2. CASE Sign!Reject(l, [account EXCEPT !.lock = "running"]) /\ UNCHANGED tries
      BY <1>1, <2>2, AccountUpdates DEF Sign!Reject
    <2>3. CASE /\ Sign!Reject(l, Sign!Unlocked(account))
               /\ tries' = IF valid THEN 0 ELSE 1
      BY <2>3, <2>0 DEF Sign!Reject
    <2>4. CASE /\ account.attempts < Limit
               /\ Sign!Reject(l, IF Sign!counts_failure(account) THEN Sign!Counted(account)
                                                                 ELSE account)
               /\ tries' = IF Sign!counts_failure(account) THEN tries + 1 ELSE tries
      <3>1. CASE Sign!counts_failure(account)
        <4>1. account' = Sign!Counted(account) /\ tries' = tries + 1
          BY <2>4, <3>1 DEF Sign!Reject
        <4>2. Sign!Counted(account) \in Sign!Account
              /\ Sign!Counted(account).attempts = account.attempts + 1
          BY <1>1, <2>4, AccountUpdates
        <4> QED
          BY <1>1, <1>2, <4>1, <4>2
      <3>2. CASE ~Sign!counts_failure(account)
        BY <1>1, <2>4, <3>2 DEF Sign!Reject
      <3> QED
        BY <3>1, <3>2
    <2>5. CASE account' = Sign!Unlocked(account) /\ tries' = 0
      BY <2>5, <2>0
    <2> QED
      BY <2>1, <2>2, <2>3, <2>4, <2>5, Zenon DEF Sign!authenticate_user
  <1>6. SignTypes'
    BY <1>3, <1>4, <1>5, SignTypesParts, SignTypesNext DEF Counts
  <1> QED
    BY <1>3, <1>5, <1>6 DEF Counts, AdminBound, GuessesCounted

\* The second transaction of a sign-in, and the sign-in by a trusted header.
LEMMA SignInCounts ==
  ASSUME Counts, NEW l \in Logins,
         \/ Sign!authenticate_trusted_identity(l)
         \/ \E s \in SessionIds : Sign!create_session(l, s)
  PROVE  Counts'
  <1> USE SessionAssumption
  <1>1. account \in Sign!Account /\ login \in [Logins -> LoginRow] /\ epoch \in Nat
        /\ sess \in [SessionIds -> SessionRow] /\ jar \in [SessionIds -> Jars]
    BY SignTypesParts DEF Counts
  <1>2. account.version \in 1..MaxVersion
    BY <1>1 DEF Sign!Account
  <1>3. /\ [Sign!NoLogin EXCEPT !.pc = "rejected"] \in LoginRow
        /\ [Sign!NoLogin EXCEPT !.pc = "done"] \in LoginRow
        /\ [pc |-> "verified", version |-> account.version, basis |-> epoch] \in LoginRow
    BY <1>1, <1>2 DEF Sign!NoLogin, LoginRow
  <1>4. UNCHANGED <<account, admin, visit, reset, epoch, wrong, tries>>
    BY DEF Sign!authenticate_trusted_identity, Sign!create_session
  <1>5. login' \in [Logins -> LoginRow]
    BY <1>1, <1>3 DEF Sign!authenticate_trusted_identity, Sign!create_session
  <1>6. sess' \in [SessionIds -> SessionRow] /\ jar' \in [SessionIds -> Jars]
    <2>1. ASSUME NEW s \in SessionIds, Sign!create_session(l, s)
          PROVE  sess' \in [SessionIds -> SessionRow] /\ jar' \in [SessionIds -> Jars]
      <3>1. login[l].basis \in Nat
        BY <1>1 DEF LoginRow
      <3>2. [Sign!NoSession EXCEPT !.state = "live", !.basis = login[l].basis] \in SessionRow
        BY <3>1, NewSession
      <3>3. [gen |-> 0, access |-> account.version, csrf |-> TRUE] \in Jars
        BY <1>2 DEF Jars
      <3>4. \/ UNCHANGED <<sess, jar>>
            \/ /\ sess' = [sess EXCEPT ![s] = [Sign!NoSession EXCEPT !.state = "live",
                                                      !.basis = login[l].basis]]
               /\ jar' = [jar EXCEPT ![s] = [gen |-> 0, access |-> account.version, csrf |-> TRUE]]
        BY <2>1, Zenon DEF Sign!create_session
      <3> QED
        BY <1>1, <3>2, <3>3, <3>4
    <2> QED
      BY <1>1, <2>1 DEF Sign!authenticate_trusted_identity
  <1>7. SignTypes'
    BY <1>4, <1>5, <1>6, SignTypesParts, SignTypesNext DEF Counts
  <1> QED
    BY <1>4, <1>7 DEF Counts, AdminBound, GuessesCounted

\* The updates of the session rows and of a request keep their types.
LEMMA SessionFields ==
  ASSUME sess \in [SessionIds -> SessionRow], NEW s \in SessionIds
  PROVE  /\ [sess EXCEPT ![s].grace = FALSE] \in [SessionIds -> SessionRow]
         /\ [sess EXCEPT ![s].state = "expired"] \in [SessionIds -> SessionRow]
  BY DEF SessionRow

\* The requests: sent, authenticated, answered, delivered or lost.
LEMMA VisitCounts ==
  ASSUME Counts, NEW r \in Visits,
         \/ \E s \in SessionIds, op \in Ops : Sign!Send(r, s, op)
         \/ Sign!get_optional_auth(r)
         \/ Sign!Deliver(r)
         \/ Sign!Lose(r)
  PROVE  Counts'
  <1>1. SignTypes /\ account \in Sign!Account /\ sess \in [SessionIds -> SessionRow]
        /\ jar \in [SessionIds -> Jars] /\ visit \in [Visits -> {Sign!NoRequest} \cup Sent]
    BY SignTypesParts DEF Counts
  <1>2. UNCHANGED <<account, login, admin, reset, epoch, wrong, tries>>
    BY DEF Sign!Send, Sign!get_optional_auth, Sign!Deliver, Sign!Lose
  <1>3. Sign!NoJar \in Jars
    BY SessionAssumption DEF Sign!NoJar, Jars
  <1>4. sess' \in [SessionIds -> SessionRow] /\ jar' \in [SessionIds -> Jars]
        /\ visit' \in [Visits -> {Sign!NoRequest} \cup Sent]
    <2>1. ASSUME NEW s \in SessionIds, NEW op \in Ops, Sign!Send(r, s, op)
          PROVE  sess' \in [SessionIds -> SessionRow] /\ jar' \in [SessionIds -> Jars]
                 /\ visit' \in [Visits -> {Sign!NoRequest} \cup Sent]
      <3>1. [pc |-> "sent", s |-> s, op |-> op, jar |-> jar[s], set |-> Sign!NoJar,
             act |-> "keep"] \in Sent
        BY <1>1, <1>3 DEF Sent
      <3> QED
        BY <1>1, <2>1, <3>1 DEF Sign!Send
    <2>2. CASE Sign!get_optional_auth(r)
      <3> DEFINE q == visit[r]
      <3>1. q.pc = "sent" /\ q \in Sent /\ UNCHANGED jar
        BY <2>2, VisitKinds, <1>1 DEF Sign!get_optional_auth
      <3>2. q.s \in SessionIds /\ q.jar \in Jars /\ q.jar.gen \in -1..MaxGen
        BY <3>1 DEF Sent, Jars
      <3>3. sess[q.s].gen \in 0..MaxGen
        BY <1>1, <3>2 DEF SessionRow
      <3>4. \/ Sign!Authed(r, "keep", q.jar.gen) /\ UNCHANGED sess
            \/ /\ Sign!rotates(q) /\ q.jar.gen < MaxGen
               /\ sess' = [sess EXCEPT ![q.s].gen = @ + 1, ![q.s].grace = TRUE]
               /\ Sign!Authed(r, "set", q.jar.gen + 1)
            \/ Sign!duplicate_is_current(q) /\ Sign!Authed(r, "set", q.jar.gen + 1)
               /\ UNCHANGED sess
            \/ Sign!Answered(r, "none") /\ UNCHANGED sess
            \/ /\ sess' = [sess EXCEPT ![q.s].state = IF Sign!Live(q.s) THEN "revoked" ELSE @,
                                       ![q.s].why = IF Sign!Live(q.s) THEN "reuse" ELSE @]
               /\ Sign!Answered(r, "clear")
            \/ Sign!Answered(r, "clear") /\ UNCHANGED sess
        BY <2>2, Zenon DEF Sign!get_optional_auth
      <3>5. CASE Sign!Authed(r, "keep", q.jar.gen) /\ UNCHANGED sess
        BY <1>1, <3>1, <3>2, <3>5, AuthedVisit
      <3>6. CASE /\ Sign!rotates(q) /\ q.jar.gen < MaxGen
                 /\ sess' = [sess EXCEPT ![q.s].gen = @ + 1, ![q.s].grace = TRUE]
                 /\ Sign!Authed(r, "set", q.jar.gen + 1)
        <4>1. q.jar.gen + 1 \in -1..MaxGen /\ sess[q.s].gen < MaxGen
          BY <3>2, <3>6, SessionAssumption DEF Sign!rotates
        <4>2. visit' \in [Visits -> {Sign!NoRequest} \cup Sent]
          BY <1>1, <3>1, <3>6, <4>1, AuthedVisit
        <4>3. sess' \in [SessionIds -> SessionRow]
          BY <1>1, <3>2, <3>6, <4>1, RotatedSession
        <4> QED
          BY <1>1, <3>1, <4>2, <4>3
      <3>7. CASE Sign!duplicate_is_current(q) /\ Sign!Authed(r, "set", q.jar.gen + 1)
                 /\ UNCHANGED sess
        <4>1. q.jar.gen + 1 \in -1..MaxGen
          BY <3>2, <3>3, <3>7, SessionAssumption DEF Sign!duplicate_is_current
        <4> QED
          BY <1>1, <3>1, <3>7, <4>1, AuthedVisit
      <3>8. CASE Sign!Answered(r, "none") /\ UNCHANGED sess
        BY <1>1, <3>1, <3>8, AnsweredVisit
      <3>9. CASE /\ sess' = [sess EXCEPT ![q.s].state = IF Sign!Live(q.s) THEN "revoked" ELSE @,
                                         ![q.s].why = IF Sign!Live(q.s) THEN "reuse" ELSE @]
                 /\ Sign!Answered(r, "clear")
        <4>1. visit' \in [Visits -> {Sign!NoRequest} \cup Sent]
          BY <1>1, <3>1, <3>9, AnsweredVisit
        <4>2. sess' \in [SessionIds -> SessionRow]
          BY <1>1, <3>2, <3>9, RevokeOne
        <4> QED
          BY <1>1, <3>1, <4>1, <4>2
      <3>10. CASE Sign!Answered(r, "clear") /\ UNCHANGED sess
        BY <1>1, <3>1, <3>10, AnsweredVisit
      <3> QED
        BY <3>4, <3>5, <3>6, <3>7, <3>8, <3>9, <3>10, Zenon
    <2>3. CASE Sign!Deliver(r)
      <3>1. visit[r] \in Sent
        BY <2>3, VisitKinds, <1>1 DEF Sign!Deliver
      <3>2. visit[r].s \in SessionIds /\ visit[r].set \in Jars
        BY <3>1 DEF Sent
      <3>3. [jar[visit[r].s] EXCEPT !.csrf = TRUE] \in Jars /\ jar[visit[r].s] \in Jars
        BY <1>1, <3>2 DEF Jars
      <3>4. Sign!set_auth_cookies(visit[r]) \in Jars
        BY <1>3, <3>2, <3>3 DEF Sign!set_auth_cookies
      <3> QED
        BY <1>1, <2>3, <3>2, <3>4 DEF Sign!Deliver
    <2>4. CASE Sign!Lose(r)
      BY <1>1, <2>4 DEF Sign!Lose
    <2> QED
      BY <2>1, <2>2, <2>3, <2>4
  <1>5. SignTypes'
    BY <1>2, <1>4, SignTypesParts, SignTypesNext DEF Counts
  <1> QED
    BY <1>2, <1>5 DEF Counts, AdminBound, GuessesCounted

\* What Perform may do: an answer with the sessions as they were, one session ended, or
\* the password changed.
LEMMA PerformKinds ==
  ASSUME SignTypes, NEW r \in Visits, Sign!Perform(r)
  PROVE  /\ visit[r] \in Sent /\ visit[r].pc = "authed" /\ UNCHANGED <<login, admin, jar, wrong>>
         /\ \/ /\ Sign!Answered(r, visit[r].act)
               /\ UNCHANGED <<account, sess, reset, epoch, tries>>
            \/ /\ Sign!revoke_session(visit[r].s) /\ Sign!Answered(r, "clear")
               /\ UNCHANGED <<account, reset, epoch, tries>>
            \/ /\ \E s \in SessionIds : Sign!revoke_session(s)
               /\ Sign!Answered(r, visit[r].act) /\ UNCHANGED <<account, reset, epoch, tries>>
            \/ Sign!change_password /\ Sign!Answered(r, "clear")
  <1>1. visit[r].pc = "authed" /\ visit[r] \in Sent
    BY VisitKinds DEF Sign!Perform
  <1> QED
    BY <1>1, Zenon DEF Sign!Perform, Sign!page, Sign!logout_submit, Sign!revoke_session_submit,
                       Sign!password_change_submit

\* A new password: no attempt counts, no link is open and no session is live.
LEMMA PasswordTypes ==
  ASSUME account \in Sign!Account, sess \in [SessionIds -> SessionRow], epoch \in Nat,
         reset \in [ResetIds -> {"none", "open", "used", "expired"}], Sign!change_password
  PROVE  /\ account' \in Sign!Account /\ sess' \in [SessionIds -> SessionRow]
         /\ reset' \in [ResetIds -> {"none", "open", "used", "expired"}] /\ epoch' \in Nat
         /\ tries' \in Nat /\ tries' <= account'.attempts + 1
         /\ account'.version = account.version + 1 /\ account'.status = account.status
         /\ sess' = Sign!revoke_all_sessions(sess)
  <1>1. /\ account.version < MaxVersion /\ account' = Sign!NewPassword(account)
        /\ sess' = Sign!revoke_all_sessions(sess) /\ reset' = Sign!consume_resets(reset)
        /\ epoch' = epoch + 1 /\ tries' = 0
    BY DEF Sign!change_password
  <1>2. account' \in Sign!Account /\ account'.attempts = 0
        /\ account'.version = account.version + 1 /\ account'.status = account.status
    BY <1>1, AccountUpdates
  <1>3. sess' \in [SessionIds -> SessionRow]
    BY <1>1, RevokeAll
  <1>4. reset' \in [ResetIds -> {"none", "open", "used", "expired"}]
    BY <1>1 DEF Sign!consume_resets
  <1> QED
    BY <1>1, <1>2, <1>3, <1>4

LEMMA PerformCounts ==
  ASSUME Counts, NEW r \in Visits, Sign!Perform(r)
  PROVE  Counts'
  <1>1. SignTypes /\ account \in Sign!Account /\ sess \in [SessionIds -> SessionRow]
        /\ visit \in [Visits -> {Sign!NoRequest} \cup Sent]
        /\ reset \in [ResetIds -> {"none", "open", "used", "expired"}] /\ epoch \in Nat
        /\ tries \in Nat /\ tries <= account.attempts + 1
    BY SignTypesParts DEF Counts, GuessesCounted
  <1>2. /\ visit[r] \in Sent /\ visit[r].pc # "idle" /\ UNCHANGED <<login, admin, jar, wrong>>
    BY <1>1, PerformKinds
  <1>3. visit[r].act \in {"keep", "set", "clear", "none"} /\ visit[r].s \in SessionIds
    BY <1>2 DEF Sent
  <1>4. visit' \in [Visits -> {Sign!NoRequest} \cup Sent]
    <2>1. Sign!Answered(r, visit[r].act) \/ Sign!Answered(r, "clear")
      BY <1>1, PerformKinds, Zenon
    <2> QED
      BY <1>1, <1>2, <1>3, <2>1, AnsweredVisit
  <1>5. /\ account' \in Sign!Account /\ sess' \in [SessionIds -> SessionRow]
        /\ reset' \in [ResetIds -> {"none", "open", "used", "expired"}] /\ epoch' \in Nat
        /\ tries' \in Nat /\ tries' <= account'.attempts + 1
    <2>1. CASE UNCHANGED <<account, sess, reset, epoch, tries>>
      BY <1>1, <2>1
    <2>2. CASE /\ \E s \in SessionIds : Sign!revoke_session(s)
               /\ UNCHANGED <<account, reset, epoch, tries>>
      <3>1. PICK s \in SessionIds : Sign!revoke_session(s)
        BY <2>2
      <3>2. sess' \in [SessionIds -> SessionRow]
        BY <1>1, <3>1, RevokeOne DEF Sign!revoke_session
      <3> QED
        BY <1>1, <2>2, <3>2
    <2>3. CASE Sign!change_password
      BY <1>1, <2>3, PasswordTypes
    <2> QED
      BY <1>1, <1>3, <2>1, <2>2, <2>3, PerformKinds, Zenon
  <1>6. SignTypes'
    BY <1>2, <1>4, <1>5, SignTypesParts, SignTypesNext DEF Counts
  <1> QED
    BY <1>2, <1>5, <1>6 DEF Counts, AdminBound, GuessesCounted

\* The reset links.
LEMMA ResetCounts ==
  ASSUME Counts, NEW t \in ResetIds,
         \/ Sign!request_password_reset(t) \/ Sign!complete_password_reset(t)
         \/ Sign!ResetExpires(t)
  PROVE  Counts'
  <1>1. SignTypes /\ account \in Sign!Account /\ sess \in [SessionIds -> SessionRow]
        /\ reset \in [ResetIds -> {"none", "open", "used", "expired"}] /\ epoch \in Nat
        /\ tries \in Nat /\ tries <= account.attempts + 1
    BY SignTypesParts DEF Counts, GuessesCounted
  <1>2. UNCHANGED <<login, admin, jar, visit, wrong>>
    BY DEF Sign!request_password_reset, Sign!complete_password_reset, Sign!ResetExpires
  <1>3. reset' \in [ResetIds -> {"none", "open", "used", "expired"}]
    <2>1. Sign!consume_resets(reset) \in [ResetIds -> {"none", "open", "used", "expired"}]
      BY <1>1 DEF Sign!consume_resets
    <2>2. \E f \in {reset, Sign!consume_resets(reset)}, v \in {"open", "used", "expired"} :
             reset' = [f EXCEPT ![t] = v]
      BY Zenon DEF Sign!request_password_reset, Sign!complete_password_reset, Sign!ResetExpires
    <2> QED
      BY <1>1, <2>1, <2>2
  <1>4. /\ account' \in Sign!Account /\ sess' \in [SessionIds -> SessionRow]
        /\ epoch' \in Nat /\ tries' \in Nat /\ tries' <= account'.attempts + 1
    <2>1. CASE UNCHANGED <<account, sess, epoch, tries>>
      BY <1>1, <2>1
    <2>2. CASE Sign!complete_password_reset(t)
      <3>1. /\ account.version < MaxVersion /\ account' = Sign!NewPassword(account)
            /\ sess' = Sign!revoke_all_sessions(sess) /\ epoch' = epoch + 1 /\ tries' = 0
        BY <2>2 DEF Sign!complete_password_reset
      <3>2. account' \in Sign!Account /\ account'.attempts = 0
        BY <1>1, <3>1, AccountUpdates
      <3>3. sess' \in [SessionIds -> SessionRow]
        BY <1>1, <3>1, RevokeAll
      <3> QED
        BY <1>1, <3>1, <3>2, <3>3
    <2> QED
      BY <2>1, <2>2 DEF Sign!request_password_reset, Sign!ResetExpires
  <1>5. SignTypes'
    BY <1>2, <1>3, <1>4, SignTypesParts, SignTypesNext DEF Counts
  <1> QED
    BY <1>2, <1>4, <1>5 DEF Counts, AdminBound, GuessesCounted

\* What a status change writes, with the version it read.
LEMMA AdminWrites ==
  ASSUME NEW u \in Sign!Account, NEW seen \in Sign!Account, seen.version < MaxVersion
  PROVE  /\ Sign!toggled(u, seen) \in Sign!Account /\ Sign!rebound(u, seen) \in Sign!Account
         /\ Sign!toggled(u, seen).attempts \in {0, u.attempts}
         /\ Sign!rebound(u, seen).attempts = 0
  <1> DEFINE k == seen.version + 1
             v == Sign!Unlocked(u)
             a == [u EXCEPT !.status = "disabled"]
             b == [v EXCEPT !.status = "active"]
             c == [b EXCEPT !.hash = v.hash + 1]
  <1>1. k \in 1..MaxVersion
    BY SessionAssumption DEF Sign!Account
  <1>2. v \in Sign!Account /\ v.attempts = 0
    BY AccountUpdates
  <1>3. a \in Sign!Account /\ a.attempts = u.attempts
    BY DEF Sign!Account
  <1>4. [u EXCEPT !.status = "disabled", !.version = k] = [a EXCEPT !.version = k]
    BY DEF Sign!Account
  <1> HIDE DEF k
  <1>5. [a EXCEPT !.version = k] \in Sign!Account /\ [a EXCEPT !.version = k].attempts = u.attempts
    BY <1>1, <1>3 DEF Sign!Account
  <1> HIDE DEF v
  <1>6. b \in Sign!Account /\ b.attempts = 0
    BY <1>2 DEF Sign!Account
  <1>7. [v EXCEPT !.status = "active", !.version = k] = [b EXCEPT !.version = k]
    BY <1>2 DEF Sign!Account
  <1>8. [b EXCEPT !.version = k] \in Sign!Account /\ [b EXCEPT !.version = k].attempts = 0
    BY <1>1, <1>6 DEF Sign!Account
  <1>9. [v EXCEPT !.status = "active", !.hash = @ + 1, !.version = k] = [c EXCEPT !.version = k]
    <2>1. [v EXCEPT !.status = "active", !.hash = @ + 1, !.version = k]
            = [v EXCEPT !.status = "active", !.hash = v.hash + 1, !.version = k]
      BY <1>2 DEF Sign!Account
    <2>2. DOMAIN v = {"status", "version", "hash", "attempts", "lock"}
      BY <1>2 DEF Sign!Account
    <2> QED
      BY <2>1, <2>2
  <1>10. c \in Sign!Account /\ c.attempts = 0
    <2>1. v.hash + 1 \in Nat
      BY <1>2 DEF Sign!Account
    <2> HIDE DEF b
    <2> QED
      BY <1>6, <2>1 DEF Sign!Account
  <1>11. [c EXCEPT !.version = k] \in Sign!Account /\ [c EXCEPT !.version = k].attempts = 0
    BY <1>1, <1>10 DEF Sign!Account
  <1>12. Sign!toggled(u, seen) \in {[a EXCEPT !.version = k], [b EXCEPT !.version = k]}
    BY <1>4, <1>7 DEF Sign!toggled, k, v
  <1>13. Sign!rebound(u, seen) = [c EXCEPT !.version = k]
    BY <1>9 DEF Sign!rebound, k, v
  <1> HIDE DEF a, b, c
  <1> QED
    BY <1>5, <1>8, <1>11, <1>12, <1>13

\* The administrator's steps.
LEMMA AdminCounts ==
  ASSUME Counts,
         (\E op \in AdminOps : Sign!AdminRead(op)) \/ Sign!AdminRevoke \/ Sign!AdminCommit
  PROVE  Counts'
  <1> DEFINE Row == [pc : {"read", "revoked"}, op : AdminOps, seen : Sign!Account]
  <1>1. SignTypes /\ account \in Sign!Account /\ sess \in [SessionIds -> SessionRow]
        /\ (admin = Sign!NoAdmin \/ admin \in Row) /\ epoch \in Nat
        /\ tries \in Nat /\ tries <= account.attempts + 1
        /\ (admin # Sign!NoAdmin => admin.seen.version < MaxVersion)
    BY SignTypesParts DEF Counts, GuessesCounted, AdminBound
  <1>2. UNCHANGED <<login, jar, visit, reset, wrong>>
    BY DEF Sign!AdminRead, Sign!AdminRevoke, Sign!AdminCommit
  <1>3. /\ account' \in Sign!Account /\ sess' \in [SessionIds -> SessionRow]
        /\ admin' = Sign!NoAdmin \/ admin' \in Row
        /\ admin' # Sign!NoAdmin => admin'.seen.version < MaxVersion
        /\ epoch' \in Nat /\ tries' \in Nat /\ tries' <= account'.attempts + 1
    <2>1. ASSUME NEW op \in AdminOps, Sign!AdminRead(op)
          PROVE  /\ admin' \in Row /\ admin'.seen.version < MaxVersion
                 /\ UNCHANGED <<account, sess, epoch, tries>>
      BY <1>1, <2>1 DEF Sign!AdminRead
    <2>2. CASE Sign!AdminRevoke
      <3>1. admin \in Row /\ admin # Sign!NoAdmin
        BY <1>1, <2>2 DEF Sign!AdminRevoke, Sign!NoAdmin
      <3>2. admin' \in Row /\ admin'.seen = admin.seen /\ UNCHANGED <<account, epoch, tries>>
        BY <2>2, <3>1 DEF Sign!AdminRevoke
      <3>3. sess' = sess \/ sess' = Sign!revoke_all_sessions(sess)
        BY <2>2 DEF Sign!AdminRevoke
      <3>4. sess' \in [SessionIds -> SessionRow]
        BY <1>1, <3>3, RevokeAll
      <3> QED
        BY <1>1, <3>1, <3>2, <3>4
    <2>3. CASE Sign!AdminCommit
      <3>1. admin \in Row /\ admin # Sign!NoAdmin
        BY <1>1, <2>3 DEF Sign!AdminCommit, Sign!NoAdmin
      <3>2. admin.seen \in Sign!Account /\ admin.seen.version < MaxVersion
        BY <1>1, <3>1
      <3>3. /\ account' \in {Sign!toggled(account, admin.seen), Sign!rebound(account, admin.seen)}
            /\ epoch' \in {epoch, epoch + 1} /\ admin' = Sign!NoAdmin /\ UNCHANGED sess
            /\ tries' = IF account'.attempts = 0 THEN 0 ELSE tries
        BY <2>3 DEF Sign!AdminCommit
      <3>4. account' \in Sign!Account /\ account'.attempts \in {0, account.attempts}
        BY <1>1, <3>2, <3>3, AdminWrites
      <3> QED
        BY <1>1, <3>3, <3>4
    <2> QED
      BY <1>1, <2>1, <2>2, <2>3
  <1>4. SignTypes'
    BY <1>2, <1>3, SignTypesParts, SignTypesNext DEF Counts
  <1> QED
    BY <1>3, <1>4 DEF Counts, AdminBound, GuessesCounted

\* Time, and the browser that drops a cookie.
LEMMA TimeCounts ==
  ASSUME Counts,
         \/ Sign!LockElapses
         \/ \E s \in SessionIds : \/ Sign!DropCsrfCookie(s) \/ Sign!GraceElapses(s)
                                  \/ Sign!AccessExpires(s) \/ Sign!SessionExpires(s)
  PROVE  Counts'
  <1>1. SignTypes /\ account \in Sign!Account /\ sess \in [SessionIds -> SessionRow]
        /\ jar \in [SessionIds -> Jars] /\ visit \in [Visits -> {Sign!NoRequest} \cup Sent]
        /\ tries \in Nat /\ tries <= account.attempts + 1
    BY SignTypesParts DEF Counts, GuessesCounted
  <1>2. UNCHANGED <<login, admin, reset, epoch, wrong, tries>>
    BY DEF Sign!LockElapses, Sign!DropCsrfCookie, Sign!GraceElapses, Sign!AccessExpires,
           Sign!SessionExpires
  <1>3. /\ account' \in Sign!Account /\ account'.attempts = account.attempts
        /\ sess' \in [SessionIds -> SessionRow] /\ jar' \in [SessionIds -> Jars]
        /\ visit' \in [Visits -> {Sign!NoRequest} \cup Sent]
    <2>1. CASE Sign!LockElapses
      BY <1>1, <2>1, AccountUpdates DEF Sign!LockElapses
    <2>2. ASSUME NEW s \in SessionIds,
                 Sign!DropCsrfCookie(s) \/ Sign!GraceElapses(s) \/ Sign!SessionExpires(s)
          PROVE  /\ sess' \in [SessionIds -> SessionRow] /\ jar' \in [SessionIds -> Jars]
                 /\ UNCHANGED <<account, visit>>
      <3>1. CASE Sign!DropCsrfCookie(s)
        BY <1>1, <3>1 DEF Sign!DropCsrfCookie, Jars
      <3>2. CASE Sign!GraceElapses(s)
        BY <1>1, <3>2, SessionFields DEF Sign!GraceElapses
      <3>3. CASE Sign!SessionExpires(s)
        BY <1>1, <3>3, SessionFields DEF Sign!SessionExpires
      <3> QED
        BY <2>2, <3>1, <3>2, <3>3
    <2>3. ASSUME NEW s \in SessionIds, Sign!AccessExpires(s)
          PROVE  /\ jar' \in [SessionIds -> Jars]
                 /\ visit' \in [Visits -> {Sign!NoRequest} \cup Sent] /\ UNCHANGED <<account, sess>>
      <3>1. jar' = [jar EXCEPT ![s].access = 0] /\ UNCHANGED <<account, sess>>
            /\ visit' = [r \in Visits |-> IF visit[r].pc = "sent" /\ visit[r].s = s
                                          THEN [visit[r] EXCEPT !.jar.access = 0] ELSE visit[r]]
        BY <2>3 DEF Sign!AccessExpires
      <3>2. jar' \in [SessionIds -> Jars]
        BY <1>1, <3>1, SessionAssumption DEF Jars
      <3>3. ASSUME NEW r \in Visits, visit[r].pc = "sent"
            PROVE  [visit[r] EXCEPT !.jar.access = 0] \in Sent
        <4>1. visit[r] \in Sent
          BY <1>1, <3>3, VisitKinds
        <4>2. [visit[r].jar EXCEPT !.access = 0] \in Jars
          BY <4>1, SessionAssumption DEF Sent, Jars
        <4>3. [visit[r] EXCEPT !.jar.access = 0]
                = [visit[r] EXCEPT !.jar = [visit[r].jar EXCEPT !.access = 0]]
          BY <4>1 DEF Sent, Jars
        <4> QED
          BY <4>1, <4>2, <4>3 DEF Sent
      <3> QED
        BY <1>1, <3>1, <3>2, <3>3
    <2> QED
      BY <1>1, <2>1, <2>2, <2>3 DEF Sign!LockElapses
  <1>4. SignTypes'
    BY <1>2, <1>3, SignTypesParts, SignTypesNext DEF Counts
  <1> QED
    BY <1>1, <1>2, <1>3, <1>4 DEF Counts, AdminBound, GuessesCounted

LEMMA CountsNext ==
  ASSUME Counts, Sign!Next
  PROVE  Counts'
  BY CheckCounts, SignInCounts, VisitCounts, PerformCounts, ResetCounts, AdminCounts, TimeCounts,
     Zenon DEF Sign!Next, Sign!login_submit, Sign!federated_login_submit

-----------------------------------------------------------------------------
(* No session outlives what ended it.                                      *)

\* Without the administrator's unlocked writes.
Quiet == admin = Sign!NoAdmin /\ account.status = "active" /\ LoginsCurrent /\ Sign!NoSurvivor

\* A step that moves neither the version nor the epoch, and makes no session live.
LEMMA QuietFrame ==
  ASSUME Quiet, UNCHANGED <<admin, epoch, login>>, account'.version = account.version,
         account'.status = account.status,
         \A s \in SessionIds : Sign!Live(s)' => Sign!Live(s) /\ sess'[s].basis = sess[s].basis
  PROVE  Quiet'
  BY DEF Quiet, LoginsCurrent, Sign!NoSurvivor, Sign!Live

\* A new password: every session ends, and every check made before is of an older version.
LEMMA QuietPassword ==
  ASSUME Counts, Quiet, UNCHANGED <<admin, login>>, sess' = Sign!revoke_all_sessions(sess),
         account' = Sign!NewPassword(account), account.version < MaxVersion
  PROVE  Quiet'
  <1>1. account \in Sign!Account /\ sess \in [SessionIds -> SessionRow]
        /\ login \in [Logins -> LoginRow]
    BY SignTypesParts DEF Counts
  <1>2. account'.version = account.version + 1 /\ account'.status = account.status
    BY <1>1, AccountUpdates
  <1>3. \A s \in SessionIds : sess'[s].state # "live"
    BY <1>1, RevokeAll
  <1>4. account.version \in Nat /\ \A l \in Logins : login[l].version \in Nat
    BY <1>1 DEF Sign!Account, LoginRow
  <1>5. LoginsCurrent'
    BY <1>2, <1>4 DEF Quiet, LoginsCurrent
  <1> QED
    BY <1>2, <1>3, <1>5 DEF Quiet, Sign!NoSurvivor, Sign!Live

\* A credential check leaves the version and the status alone.
LEMMA CheckVersion ==
  ASSUME SignTypes, NEW l \in Logins,
         \/ \E valid \in BOOLEAN : Sign!authenticate_user(l, valid)
         \/ Sign!authenticate_trusted_identity(l)
  PROVE  account'.version = account.version /\ account'.status = account.status
  <1>1. account \in Sign!Account
    BY SignTypesParts
  <1>2. \/ account' \in {account, [account EXCEPT !.lock = "running"], Sign!Unlocked(account)}
        \/ account.attempts < Limit /\ account' = Sign!Counted(account)
    BY Zenon DEF Sign!authenticate_user, Sign!authenticate_trusted_identity, Sign!Reject
  <1>3. CASE account' = account
    BY <1>3
  <1>4. CASE account' = [account EXCEPT !.lock = "running"]
    BY <1>1, <1>4, AccountUpdates
  <1>5. CASE account' = Sign!Unlocked(account)
    BY <1>1, <1>5, AccountUpdates
  <1>6. CASE account.attempts < Limit /\ account' = Sign!Counted(account)
    BY <1>1, <1>6, AccountUpdates
  <1> QED
    BY <1>2, <1>3, <1>4, <1>5, <1>6

\* The checks: what was verified is of this version and this epoch.
LEMMA QuietCheck ==
  ASSUME Counts, Quiet, NEW l \in Logins,
         \/ \E valid \in BOOLEAN : Sign!authenticate_user(l, valid)
         \/ Sign!authenticate_trusted_identity(l)
  PROVE  Quiet'
  <1>1. account \in Sign!Account /\ login \in [Logins -> LoginRow]
    BY SignTypesParts DEF Counts
  <1>2. UNCHANGED <<admin, epoch, sess>>
    BY DEF Sign!authenticate_user, Sign!authenticate_trusted_identity
  <1>3. account'.version = account.version /\ account'.status = account.status
    BY CheckVersion DEF Counts
  <1>4. \/ login' = [login EXCEPT ![l] = [Sign!NoLogin EXCEPT !.pc = "rejected"]]
        \/ login' = [login EXCEPT ![l] = [pc |-> "verified", version |-> account.version,
                                          basis |-> epoch]]
    BY Zenon DEF Sign!authenticate_user, Sign!authenticate_trusted_identity, Sign!Reject
  <1>5. LoginsCurrent'
    <2>1. account.version \in Nat
      BY <1>1 DEF Sign!Account
    <2> QED
      BY <1>1, <1>2, <1>3, <1>4, <2>1 DEF Quiet, LoginsCurrent, Sign!NoLogin
  <1> QED
    BY <1>2, <1>3, <1>5 DEF Quiet, Sign!NoSurvivor, Sign!Live

\* The new session rests on a check of this epoch: the versions agree.
LEMMA QuietCreate ==
  ASSUME Counts, Quiet, NEW l \in Logins, NEW s \in SessionIds, Sign!create_session(l, s)
  PROVE  Quiet'
  <1>1. login \in [Logins -> LoginRow] /\ sess \in [SessionIds -> SessionRow]
    BY SignTypesParts DEF Counts
  <1>2. UNCHANGED <<account, admin, epoch>> /\ login[l].pc = "verified"
    BY DEF Sign!create_session
  <1>3. \E p \in {"done", "rejected"} : login' = [login EXCEPT ![l] = [Sign!NoLogin EXCEPT !.pc = p]]
    BY Zenon DEF Sign!create_session
  <1>4. LoginsCurrent'
    BY <1>1, <1>2, <1>3 DEF Quiet, LoginsCurrent, Sign!NoLogin
  <1>5. Sign!NoSurvivor'
    <2>1. CASE Sign!expected(l)
      <3> DEFINE n == [Sign!NoSession EXCEPT !.state = "live", !.basis = login[l].basis]
      <3>1. sess' = [sess EXCEPT ![s] = n]
        BY <2>1 DEF Sign!create_session
      <3>2. login[l].basis \in Nat /\ login[l].basis = epoch
        BY <1>1, <1>2, <2>1 DEF Quiet, LoginsCurrent, Sign!expected, LoginRow
      <3>3. n.basis = epoch
        BY <3>2, NewSession
      <3> HIDE DEF n
      <3> QED
        BY <1>1, <1>2, <3>1, <3>3 DEF Quiet, Sign!NoSurvivor, Sign!Live
    <2>2. CASE ~Sign!expected(l)
      BY <1>2, <2>2 DEF Sign!create_session, Quiet, Sign!NoSurvivor, Sign!Live
    <2> QED
      BY <2>1, <2>2
  <1> QED
    BY <1>2, <1>4, <1>5 DEF Quiet

\* The requests end sessions, or leave them as they are.
LEMMA QuietVisit ==
  ASSUME Counts, Quiet, NEW r \in Visits,
         \/ \E s \in SessionIds, op \in Ops : Sign!Send(r, s, op)
         \/ Sign!get_optional_auth(r) \/ Sign!Perform(r) \/ Sign!Deliver(r) \/ Sign!Lose(r)
  PROVE  Quiet'
  <1>1. SignTypes /\ account \in Sign!Account /\ sess \in [SessionIds -> SessionRow]
    BY SignTypesParts DEF Counts
  <1>2. ASSUME NEW s \in SessionIds, NEW w \in {"reuse", "asked"},
               sess' = [sess EXCEPT ![s].state = IF Sign!Live(s) THEN "revoked" ELSE @,
                                    ![s].why = IF Sign!Live(s) THEN w ELSE @]
        PROVE  \A x \in SessionIds : Sign!Live(x)' => Sign!Live(x) /\ sess'[x].basis = sess[x].basis
    BY <1>1, <1>2, RevokeOne DEF Sign!Live
  <1>3. CASE \/ \E s \in SessionIds, op \in Ops : Sign!Send(r, s, op)
             \/ Sign!Deliver(r) \/ Sign!Lose(r)
    <2>1. UNCHANGED <<account, admin, epoch, login, sess>>
      BY <1>3 DEF Sign!Send, Sign!Deliver, Sign!Lose
    <2> QED
      BY <2>1, QuietFrame DEF Sign!Live
  <1>4. CASE Sign!get_optional_auth(r)
    <2> DEFINE q == visit[r]
    <2>1. UNCHANGED <<account, admin, epoch, login>> /\ q \in Sent
      BY <1>1, <1>4, VisitKinds DEF Sign!get_optional_auth
    <2>2. q.s \in SessionIds
      BY <2>1 DEF Sent
    <2>3. \/ UNCHANGED sess
          \/ /\ Sign!rotates(q) /\ q.jar.gen < MaxGen
             /\ sess' = [sess EXCEPT ![q.s].gen = @ + 1, ![q.s].grace = TRUE]
          \/ sess' = [sess EXCEPT ![q.s].state = IF Sign!Live(q.s) THEN "revoked" ELSE @,
                                  ![q.s].why = IF Sign!Live(q.s) THEN "reuse" ELSE @]
      BY <1>4, Zenon DEF Sign!get_optional_auth
    <2>4. \A x \in SessionIds : Sign!Live(x)' => Sign!Live(x) /\ sess'[x].basis = sess[x].basis
      <3>1. CASE UNCHANGED sess
        BY <3>1 DEF Sign!Live
      <3>2. CASE /\ Sign!rotates(q) /\ q.jar.gen < MaxGen
                 /\ sess' = [sess EXCEPT ![q.s].gen = @ + 1, ![q.s].grace = TRUE]
        <4>1. sess[q.s].gen < MaxGen
          BY <3>2 DEF Sign!rotates
        <4> QED
          BY <1>1, <2>2, <3>2, <4>1, RotatedSession DEF Sign!Live
      <3>3. CASE sess' = [sess EXCEPT ![q.s].state = IF Sign!Live(q.s) THEN "revoked" ELSE @,
                                      ![q.s].why = IF Sign!Live(q.s) THEN "reuse" ELSE @]
        BY <1>2, <2>2, <3>3
      <3> QED
        BY <2>3, <3>1, <3>2, <3>3, Zenon
    <2> QED
      BY <2>1, <2>4, QuietFrame
  <1>5. CASE Sign!Perform(r)
    <2>1. UNCHANGED <<admin, login>> /\ visit[r] \in Sent
      BY <1>1, <1>5, PerformKinds
    <2>2. visit[r].s \in SessionIds
      BY <2>1 DEF Sent
    <2>3. \/ UNCHANGED <<account, sess, epoch>>
          \/ (\E s \in SessionIds : Sign!revoke_session(s)) /\ UNCHANGED <<account, epoch>>
          \/ Sign!change_password
      BY <1>1, <1>5, <2>2, PerformKinds, Zenon
    <2>4. CASE UNCHANGED <<account, sess, epoch>>
      BY <2>1, <2>4, QuietFrame DEF Sign!Live
    <2>5. CASE (\E s \in SessionIds : Sign!revoke_session(s)) /\ UNCHANGED <<account, epoch>>
      <3>1. \A x \in SessionIds : Sign!Live(x)' => Sign!Live(x) /\ sess'[x].basis = sess[x].basis
        BY <1>2, <2>5 DEF Sign!revoke_session
      <3> QED
        BY <2>1, <2>5, <3>1, QuietFrame
    <2>6. CASE Sign!change_password
      BY <2>1, <2>6, QuietPassword DEF Sign!change_password
    <2> QED
      BY <2>3, <2>4, <2>5, <2>6
  <1> QED
    BY <1>3, <1>4, <1>5

LEMMA QuietNext ==
  ASSUME AdminOps = {}, Counts, Quiet, Sign!Next
  PROVE  Quiet'
  <1>1. account \in Sign!Account /\ sess \in [SessionIds -> SessionRow]
    BY SignTypesParts DEF Counts
  <1>2. ASSUME NEW t \in ResetIds, \/ Sign!request_password_reset(t) \/ Sign!ResetExpires(t)
        PROVE  Quiet'
    <2>1. UNCHANGED <<account, admin, epoch, login, sess>>
      BY <1>2 DEF Sign!request_password_reset, Sign!ResetExpires
    <2> QED
      BY <2>1, QuietFrame DEF Sign!Live
  <1>3. ASSUME NEW t \in ResetIds, Sign!complete_password_reset(t)
        PROVE  Quiet'
    BY <1>3, QuietPassword DEF Sign!complete_password_reset
  <1>4. CASE Sign!LockElapses
    <2>1. account'.version = account.version /\ account'.status = account.status
          /\ UNCHANGED <<admin, epoch, login, sess>>
      BY <1>1, <1>4, AccountUpdates DEF Sign!LockElapses
    <2> QED
      BY <2>1, QuietFrame DEF Sign!Live
  <1>5. ASSUME NEW s \in SessionIds,
               \/ Sign!DropCsrfCookie(s) \/ Sign!GraceElapses(s) \/ Sign!AccessExpires(s)
               \/ Sign!SessionExpires(s)
        PROVE  Quiet'
    <2>1. UNCHANGED <<account, admin, epoch, login>>
      BY <1>5 DEF Sign!DropCsrfCookie, Sign!GraceElapses, Sign!AccessExpires, Sign!SessionExpires
    <2>2. \/ UNCHANGED sess
          \/ sess' = [sess EXCEPT ![s].grace = FALSE] \/ sess' = [sess EXCEPT ![s].state = "expired"]
      BY <1>5 DEF Sign!DropCsrfCookie, Sign!GraceElapses, Sign!AccessExpires, Sign!SessionExpires
    <2>3. \A x \in SessionIds : Sign!Live(x)' => Sign!Live(x) /\ sess'[x].basis = sess[x].basis
      BY <1>1, <2>2 DEF Sign!Live, SessionRow
    <2> QED
      BY <2>1, <2>3, QuietFrame
  <1>6. ~Sign!AdminRevoke /\ ~Sign!AdminCommit
    BY DEF Quiet, Sign!NoAdmin, Sign!AdminRevoke, Sign!AdminCommit
  <1> QED
    BY <1>2, <1>3, <1>4, <1>5, <1>6, QuietCheck, QuietCreate, QuietVisit, Zenon
       DEF Sign!Next, Sign!login_submit, Sign!federated_login_submit

-----------------------------------------------------------------------------
(* The browser and its requests stay in step with a live session.          *)

\* What the session sees is unchanged: its row, its browser, its requests.
LEMMA StepFrame ==
  ASSUME NEW s \in SessionIds, SessionInStep(s), account'.version = account.version,
         sess'[s] = sess[s], jar'[s] = jar[s],
         \A r \in Visits :
            \/ visit'[r] = visit[r]
            \/ /\ visit[r].pc = "idle" \/ visit[r].s # s
               /\ visit'[r].pc = "idle" \/ visit'[r].s # s
  PROVE  SessionInStep(s)'
  <1>1. Sign!Live(s)' <=> Sign!Live(s)
    BY DEF Sign!Live
  <1>2. ASSUME Sign!Live(s) PROVE BrowserInStep(s)'
    BY <1>2 DEF SessionInStep, BrowserInStep
  <1>3. ASSUME NEW r \in Visits, visit'[r].pc # "idle", visit'[r].s = s
        PROVE  sess'[s].state # "absent" /\ (Sign!Live(s) => InStep(visit[r], s)')
    <2>1. visit'[r] = visit[r]
      BY <1>3
    <2> QED
      BY <1>3, <2>1 DEF SessionInStep, InStep
  <1> QED
    BY <1>1, <1>2, <1>3 DEF SessionInStep

\* A session that is not live any more, or never was, asks nothing.
LEMMA StepDead ==
  ASSUME NEW s \in SessionIds, SessionInStep(s), ~Sign!Live(s)', sess'[s].why # "reuse",
         sess[s].state # "absent" => sess'[s].state # "absent",
         sess[s].state = "absent" =>
            /\ sess'[s] = sess[s] /\ jar'[s] = jar[s]
            /\ \A r \in Visits : visit'[r].pc # "idle" /\ visit'[r].s = s =>
                  visit[r].pc # "idle" /\ visit[r].s = s
  PROVE  SessionInStep(s)'
  BY DEF SessionInStep

\* One request of a live session moves, and stays in step.
LEMMA StepVisit ==
  ASSUME NEW s \in SessionIds, SessionInStep(s), account'.version = account.version,
         sess'[s] = sess[s], jar'[s] = jar[s], sess[s].state # "absent",
         NEW r \in Visits, visit'[r].pc # "idle", visit'[r].s = s,
         \A x \in Visits \ {r} : visit'[x] = visit[x],
         Sign!Live(s) => InStep(visit[r], s)',
         Sign!Live(s) /\ visit[r].pc # "idle" /\ visit[r].act = "set" => visit'[r].act = "set"
  PROVE  SessionInStep(s)'
  <1>1. Sign!Live(s)' <=> Sign!Live(s)
    BY DEF Sign!Live
  <1>2. ASSUME Sign!Live(s) PROVE BrowserInStep(s)'
    <2>1. BrowserInStep(s)
      BY <1>2 DEF SessionInStep
    <2>2. ASSUME NEW x \in Visits, visit[x].pc # "idle", visit[x].s = s, visit[x].act = "set"
          PROVE  visit'[x].pc # "idle" /\ visit'[x].s = s /\ visit'[x].act = "set"
      BY <1>2, <2>2
    <2> QED
      BY <2>1, <2>2 DEF BrowserInStep
  <1>3. ASSUME NEW x \in Visits \ {r}, visit'[x].pc # "idle", visit'[x].s = s, Sign!Live(s)
        PROVE  InStep(visit[x], s)'
    BY <1>3 DEF SessionInStep, InStep
  <1> QED
    BY <1>1, <1>2, <1>3 DEF SessionInStep

\* The steps that touch neither sessions nor browsers.
LEMMA StepAside ==
  ASSUME Refreshes, account'.version = account.version, UNCHANGED <<sess, jar, visit>>
  PROVE  Refreshes'
  BY StepFrame DEF Refreshes

\* A new session: its browser has the only token, and no request is in flight.
LEMMA StepCreate ==
  ASSUME Counts, Refreshes, NEW l \in Logins, NEW s \in SessionIds, Sign!create_session(l, s)
  PROVE  Refreshes'
  <1>1. sess \in [SessionIds -> SessionRow] /\ jar \in [SessionIds -> Jars]
        /\ login \in [Logins -> LoginRow]
    BY SignTypesParts DEF Counts
  <1>2. UNCHANGED <<account, visit>> /\ sess[s].state = "absent"
    BY DEF Sign!create_session
  <1>3. CASE UNCHANGED <<sess, jar>>
    BY <1>2, <1>3, StepAside
  <1>4. CASE ~UNCHANGED <<sess, jar>>
    <2> DEFINE n == [Sign!NoSession EXCEPT !.state = "live", !.basis = login[l].basis]
               c == [gen |-> 0, access |-> account.version, csrf |-> TRUE]
    <2>1. sess' = [sess EXCEPT ![s] = n] /\ jar' = [jar EXCEPT ![s] = c]
      BY <1>4 DEF Sign!create_session
    <2>2. login[l].basis \in Nat
      BY <1>1 DEF LoginRow
    <2>3. n.state = "live" /\ n.gen = 0 /\ ~n.grace /\ n.why = "none"
      BY <2>2, NewSession
    <2>4. c.gen = 0 /\ c.access = account.version
      OBVIOUS
    <2> HIDE DEF n, c
    <2>5. \A r \in Visits : visit[r].pc = "idle" \/ visit[r].s # s
      BY <1>2 DEF Refreshes, SessionInStep
    <2>6. sess'[s] = n /\ jar'[s] = c
      BY <1>1, <2>1
    <2>7. BrowserInStep(s)'
      BY <2>3, <2>4, <2>6 DEF BrowserInStep
    <2>8. SessionInStep(s)'
      BY <1>2, <2>3, <2>5, <2>6, <2>7 DEF SessionInStep
    <2>9. ASSUME NEW x \in SessionIds \ {s} PROVE SessionInStep(x)'
      BY <1>1, <1>2, <2>1, StepFrame DEF Refreshes
    <2> QED
      BY <2>8, <2>9 DEF Refreshes
  <1> QED
    BY <1>3, <1>4

\* A request carries the cookies of its browser.
LEMMA StepSend ==
  ASSUME Counts, Refreshes, NEW r \in Visits, NEW s \in SessionIds, NEW op \in Ops,
         Sign!Send(r, s, op)
  PROVE  Refreshes'
  <1> DEFINE q == [pc |-> "sent", s |-> s, op |-> op, jar |-> jar[s], set |-> Sign!NoJar,
                   act |-> "keep"]
  <1>1. visit \in [Visits -> {Sign!NoRequest} \cup Sent]
    BY SignTypesParts DEF Counts
  <1>2. /\ visit[r].pc = "idle" /\ jar[s].gen >= 0 /\ visit' = [visit EXCEPT ![r] = q]
        /\ UNCHANGED <<account, sess, jar>>
    BY DEF Sign!Send
  <1>3. q.pc = "sent" /\ q.s = s /\ q.act = "keep" /\ q.jar = jar[s]
    OBVIOUS
  <1> HIDE DEF q
  <1>4. visit'[r] = q /\ \A x \in Visits \ {r} : visit'[x] = visit[x]
    BY <1>1, <1>2
  <1>5. sess[s].state # "absent"
    BY <1>2 DEF Refreshes, SessionInStep, Sign!NoJar
  <1>6. ASSUME Sign!Live(s) PROVE InStep(visit[r], s)'
    BY <1>2, <1>3, <1>4, <1>6 DEF Refreshes, SessionInStep, BrowserInStep, InStep
  <1>7. SessionInStep(s)'
    BY <1>2, <1>3, <1>4, <1>5, <1>6, StepVisit DEF Refreshes
  <1>8. ASSUME NEW x \in SessionIds \ {s} PROVE SessionInStep(x)'
    BY <1>2, <1>3, <1>4, StepFrame DEF Refreshes
  <1> QED
    BY <1>7, <1>8 DEF Refreshes

\* Authentication.  While the grace runs, whoever has the current token has an access
\* token too; so a rotation starts from a session whose grace is over, everyone has the
\* current token, and the answer that carries the next one is the first.
LEMMA StepAuth ==
  ASSUME Counts, Quiet, Refreshes, NEW r \in Visits, Sign!get_optional_auth(r)
  PROVE  Refreshes'
  <1> DEFINE q == visit[r]
  <1>1. SignTypes /\ sess \in [SessionIds -> SessionRow] /\ account \in Sign!Account
    BY SignTypesParts DEF Counts
  <1>2. q.pc = "sent" /\ q \in Sent /\ UNCHANGED <<account, jar>>
    BY <1>1, VisitKinds DEF Sign!get_optional_auth
  <1>s. PICK s \in SessionIds : s = q.s
    BY <1>2 DEF Sent
  <1>3. q.jar.gen \in -1..MaxGen /\ q.jar.access \in 0..MaxVersion
    BY <1>2 DEF Sent, Jars
  <1>4. sess[s].gen \in 0..MaxGen /\ account.version \in 1..MaxVersion
    BY <1>1 DEF SessionRow, Sign!Account
  <1>5. account.status = "active" /\ SessionInStep(s) /\ sess[s].state # "absent"
    BY <1>s, <1>2, <1>3 DEF Quiet, Refreshes, SessionInStep
  <1>6. ASSUME Sign!Live(s)
        PROVE  /\ q.act = "keep" /\ q.jar.gen \in {sess[s].gen, sess[s].gen - 1}
               /\ ~sess[s].grace => q.jar.gen = sess[s].gen
               /\ sess[s].grace /\ q.jar.gen = sess[s].gen => q.jar.access = account.version
    BY <1>s, <1>2, <1>3, <1>6 DEF Refreshes, SessionInStep, InStep
  <1>7. ASSUME \A x \in Visits \ {r} : visit'[x] = visit[x], visit'[r].s = s,
               \A x \in SessionIds \ {s} : sess'[x] = sess[x]
        PROVE  \A x \in SessionIds \ {s} : SessionInStep(x)'
    BY <1>s, <1>2, <1>7, StepFrame DEF Refreshes
  <1>8. CASE Sign!access_accepted(q) /\ Sign!Authed(r, "keep", q.jar.gen) /\ UNCHANGED sess
    <2>1. /\ visit'[r].pc = "authed" /\ visit'[r].act = "keep" /\ visit'[r].s = s
          /\ \A x \in Visits \ {r} : visit'[x] = visit[x]
      BY <1>s, <1>1, <1>2, <1>3, <1>8, AuthedVisit
    <2>2. InStep(visit[r], s)'
      BY <1>s, <2>1 DEF InStep
    <2>3. SessionInStep(s)'
      BY <1>s, <1>2, <1>3, <1>5, <1>6, <1>8, <2>1, <2>2, StepVisit
    <2> QED
      BY <1>s, <1>7, <1>8, <2>1, <2>3 DEF Refreshes
  <1>9. CASE /\ ~Sign!access_accepted(q) /\ Sign!rotates(q) /\ q.jar.gen < MaxGen
             /\ sess' = [sess EXCEPT ![s].gen = @ + 1, ![s].grace = TRUE]
             /\ Sign!Authed(r, "set", q.jar.gen + 1)
    <2>1. Sign!Live(s) /\ sess[s].gen = q.jar.gen /\ q.jar.gen + 1 \in -1..MaxGen
      BY <1>s, <1>3, <1>4, <1>9, SessionAssumption DEF Sign!rotates
    <2>2. ~sess[s].grace
      BY <1>s, <1>4, <1>5, <1>6, <1>9, <2>1 DEF Sign!access_accepted
    <2>3. /\ visit'[r].pc = "authed" /\ visit'[r].act = "set" /\ visit'[r].s = s
          /\ visit'[r].set.gen = sess[s].gen + 1 /\ visit'[r].set.access = account.version
          /\ \A x \in Visits \ {r} : visit'[x] = visit[x]
      BY <1>s, <1>1, <1>2, <1>9, <2>1, AuthedVisit
    <2>4. /\ sess'[s].gen = sess[s].gen + 1 /\ sess'[s].grace /\ sess'[s].state = sess[s].state
          /\ sess'[s].why = sess[s].why
          /\ \A x \in SessionIds \ {s} : sess'[x] = sess[x]
      BY <1>s, <1>1, <1>3, <1>9, <2>1, RotatedSession
    <2>5. Sign!Live(s)'
      BY <1>s, <2>1, <2>4 DEF Sign!Live
    <2>6. InStep(visit[r], s)'
      BY <1>s, <1>2, <2>3, <2>4 DEF InStep
    <2>7. ASSUME NEW x \in Visits \ {r}, visit'[x].pc # "idle", visit'[x].s = s
          PROVE  InStep(visit[x], s)'
      <3>1. InStep(visit[x], s) /\ visit'[x] = visit[x]
        BY <1>s, <1>5, <2>1, <2>3, <2>7 DEF SessionInStep
      <3> QED
        BY <1>s, <1>4, <2>2, <2>4, <3>1 DEF InStep
    <2>8. BrowserInStep(s)'
      <3>1. jar[s].gen = sess[s].gen /\ jar[s].gen >= 0
        BY <1>s, <1>5, <2>1, <2>2 DEF SessionInStep, BrowserInStep
      <3> QED
        BY <1>s, <1>2, <1>4, <2>3, <2>4, <3>1 DEF BrowserInStep
    <2>9. SessionInStep(s)'
      BY <1>s, <1>5, <2>4, <2>5, <2>6, <2>7, <2>8 DEF SessionInStep
    <2> QED
      BY <1>s, <1>7, <2>3, <2>4, <2>9 DEF Refreshes
  <1>10. CASE Sign!duplicate_is_current(q) /\ Sign!Authed(r, "set", q.jar.gen + 1) /\ UNCHANGED sess
    <2>1. q.jar.gen + 1 = sess[s].gen /\ sess[s].grace /\ q.jar.gen + 1 \in -1..MaxGen
      BY <1>s, <1>3, <1>4, <1>10, SessionAssumption DEF Sign!duplicate_is_current
    <2>2. /\ visit'[r].pc = "authed" /\ visit'[r].act = "set" /\ visit'[r].s = s
          /\ visit'[r].set.gen = sess[s].gen /\ visit'[r].set.access = account.version
          /\ \A x \in Visits \ {r} : visit'[x] = visit[x]
      BY <1>s, <1>1, <1>2, <1>10, <2>1, AuthedVisit
    <2>3. InStep(visit[r], s)'
      BY <1>s, <1>2, <1>10, <2>1, <2>2 DEF InStep
    <2>4. SessionInStep(s)'
      BY <1>s, <1>2, <1>3, <1>5, <1>10, <2>2, <2>3, StepVisit
    <2> QED
      BY <1>s, <1>7, <1>10, <2>2, <2>4 DEF Refreshes
  <1>11. CASE Sign!Answered(r, "none") /\ UNCHANGED sess
    <2>1. /\ visit'[r].pc = "answered" /\ visit'[r].act = "none" /\ visit'[r].s = s
          /\ \A x \in Visits \ {r} : visit'[x] = visit[x]
      BY <1>s, <1>1, <1>2, <1>11, AnsweredVisit
    <2>2. InStep(visit[r], s)'
      BY <1>s, <2>1 DEF InStep
    <2>3. SessionInStep(s)'
      BY <1>s, <1>2, <1>3, <1>5, <1>6, <1>11, <2>1, <2>2, StepVisit
    <2> QED
      BY <1>s, <1>7, <1>11, <2>1, <2>3 DEF Refreshes
  <1>12. CASE /\ ~Sign!Live(s)
              /\ sess' = [sess EXCEPT ![s].state = IF Sign!Live(s) THEN "revoked" ELSE @,
                                      ![s].why = IF Sign!Live(s) THEN "reuse" ELSE @]
                 \/ UNCHANGED sess
              /\ Sign!Answered(r, "clear")
    <2>1. visit'[r].s = s /\ \A x \in Visits \ {r} : visit'[x] = visit[x]
      BY <1>s, <1>1, <1>2, <1>12, AnsweredVisit
    <2>2. \A x \in SessionIds : sess'[x] = sess[x]
      BY <1>s, <1>1, <1>3, <1>12, RevokeOne
    <2>3. SessionInStep(s)'
      BY <1>s, <1>3, <1>5, <1>12, <2>2, StepDead DEF Sign!Live, SessionInStep
    <2> QED
      BY <1>s, <1>7, <2>1, <2>2, <2>3 DEF Refreshes
  <1>13. Sign!Live(s) => Sign!rotates(q) \/ Sign!duplicate_is_current(q)
    BY <1>s, <1>3, <1>4, <1>5, <1>6 DEF Sign!rotates, Sign!duplicate_is_current, Sign!replayed
  <1>14. Sign!rotates(q) => Sign!Live(s) /\ ~Sign!replayed(q)
    BY <1>s, <1>3, <1>4 DEF Sign!rotates, Sign!replayed
  <1>15. Sign!duplicate_is_current(q) => Sign!replayed(q)
    BY DEF Sign!duplicate_is_current
  <1> QED
    BY <1>s, <1>5, <1>8, <1>9, <1>10, <1>11, <1>12, <1>13, <1>14, <1>15, Zenon
       DEF Sign!get_optional_auth

\* Every session ends with the password.
LEMMA StepPassword ==
  ASSUME Counts, Refreshes, sess' = Sign!revoke_all_sessions(sess), UNCHANGED jar,
         \A r \in Visits : visit'[r].pc # "idle" => visit[r].pc # "idle" /\ visit'[r].s = visit[r].s
  PROVE  Refreshes'
  <1>1. sess \in [SessionIds -> SessionRow]
    BY SignTypesParts DEF Counts
  <1>2. ASSUME NEW s \in SessionIds PROVE SessionInStep(s)'
    <2>1. SessionInStep(s) /\ sess[s].why # "reuse"
      BY DEF Refreshes, SessionInStep
    <2>2. /\ sess'[s].state # "live" /\ (sess'[s].state = "absent" <=> sess[s].state = "absent")
          /\ sess[s].state # "live" => sess'[s] = sess[s]
          /\ sess'[s].why = "reuse" => sess[s].why = "reuse"
      BY <1>1, RevokeAll
    <2> QED
      BY <2>1, <2>2, StepDead DEF Sign!Live
  <1> QED
    BY <1>2 DEF Refreshes

\* The request is answered: its rotation, if it made one, is still on its way.
LEMMA StepPerform ==
  ASSUME Counts, Refreshes, NEW r \in Visits, Sign!Perform(r)
  PROVE  Refreshes'
  <1>1. SignTypes /\ sess \in [SessionIds -> SessionRow]
    BY SignTypesParts DEF Counts
  <1>2. visit[r] \in Sent /\ visit[r].pc = "authed" /\ UNCHANGED jar
    BY <1>1, PerformKinds
  <1>s. PICK s \in SessionIds : s = visit[r].s
    BY <1>2 DEF Sent
  <1>3. visit[r].act \in {"keep", "set", "clear", "none"}
    BY <1>2 DEF Sent
  <1>4. SessionInStep(s) /\ sess[s].state # "absent" /\ (Sign!Live(s) => InStep(visit[r], s))
    BY <1>2, <1>s DEF Refreshes, SessionInStep
  <1>5. ASSUME NEW x \in SessionIds, UNCHANGED account, sess'[x] = sess[x],
               Sign!Answered(r, visit[r].act)
        PROVE  SessionInStep(x)'
    <2>1. /\ visit'[r].pc = "answered" /\ visit'[r].act = visit[r].act /\ visit'[r].s = s
          /\ visit'[r].set = visit[r].set /\ \A y \in Visits \ {r} : visit'[y] = visit[y]
      BY <1>1, <1>2, <1>s, <1>3, <1>5, AnsweredVisit
    <2>2. CASE x = s
      <3>1. Sign!Live(s) => InStep(visit[r], s)'
        BY <1>4, <1>5, <2>1, <2>2 DEF InStep
      <3> QED
        BY <1>2, <1>4, <1>5, <2>1, <2>2, <3>1, StepVisit
    <2>3. CASE x # s
      BY <1>2, <1>5, <1>s, <2>1, <2>3, StepFrame DEF Refreshes
    <2> QED
      BY <2>2, <2>3
  <1>6. CASE Sign!Answered(r, visit[r].act) /\ UNCHANGED <<account, sess>>
    BY <1>5, <1>6 DEF Refreshes
  <1>7. CASE /\ Sign!revoke_session(s) /\ Sign!Answered(r, "clear")
             /\ UNCHANGED account
    <2>1. visit'[r].s = s /\ \A y \in Visits \ {r} : visit'[y] = visit[y]
      BY <1>1, <1>2, <1>s, <1>7, AnsweredVisit
    <2>2. /\ ~Sign!Live(s)' /\ (Sign!Live(s) => sess'[s].why = "asked")
          /\ sess'[s].state = "absent" <=> sess[s].state = "absent"
          /\ ~Sign!Live(s) => sess'[s] = sess[s]
          /\ \A x \in SessionIds \ {s} : sess'[x] = sess[x]
      BY <1>1, <1>7, RevokeOne DEF Sign!revoke_session
    <2>3. SessionInStep(s)'
      <3>1. sess'[s].why # "reuse"
        BY <1>4, <2>2 DEF SessionInStep
      <3> QED
        BY <1>4, <2>2, <3>1, StepDead
    <2>4. ASSUME NEW x \in SessionIds \ {s} PROVE SessionInStep(x)'
      BY <1>2, <1>s, <1>7, <2>1, <2>2, StepFrame DEF Refreshes
    <2> QED
      BY <2>3, <2>4 DEF Refreshes
  <1>8. ASSUME NEW d \in SessionIds, Sign!revoke_session(d), Sign!Answered(r, visit[r].act),
               UNCHANGED account
        PROVE  Refreshes'
    <2>1. /\ ~Sign!Live(d)' /\ (Sign!Live(d) => sess'[d].why = "asked" /\ sess[d].state # "absent")
          /\ sess'[d].state = "absent" <=> sess[d].state = "absent"
          /\ ~Sign!Live(d) => sess'[d] = sess[d]
          /\ \A x \in SessionIds \ {d} : sess'[x] = sess[x]
      BY <1>1, <1>8, RevokeOne DEF Sign!revoke_session
    <2>2. \A x \in SessionIds \ {d} : SessionInStep(x)'
      BY <1>5, <1>8, <2>1
    <2>3. CASE Sign!Live(d)
      <3>1. SessionInStep(d) /\ sess[d].state # "absent"
        BY <2>1, <2>3 DEF Refreshes
      <3> QED
        BY <2>1, <2>2, <2>3, <3>1, StepDead DEF Refreshes
    <2>4. CASE ~Sign!Live(d)
      BY <1>5, <1>8, <2>1, <2>2, <2>4 DEF Refreshes
    <2> QED
      BY <2>3, <2>4
  <1>9. CASE Sign!change_password /\ Sign!Answered(r, "clear")
    <2>1. visit'[r].s = visit[r].s /\ \A x \in Visits \ {r} : visit'[x] = visit[x]
      BY <1>1, <1>2, <1>9, AnsweredVisit
    <2>2. \A x \in Visits : visit'[x].pc # "idle" => visit[x].pc # "idle" /\ visit'[x].s = visit[x].s
      BY <1>2, <2>1
    <2> QED
      BY <1>2, <1>9, <2>2, StepPassword DEF Sign!change_password
  <1>10. \/ Sign!Answered(r, visit[r].act) /\ UNCHANGED <<account, sess>>
         \/ Sign!revoke_session(visit[r].s) /\ Sign!Answered(r, "clear") /\ UNCHANGED account
         \/ /\ \E d \in SessionIds : Sign!revoke_session(d)
            /\ Sign!Answered(r, visit[r].act) /\ UNCHANGED account
         \/ Sign!change_password /\ Sign!Answered(r, "clear")
    BY <1>1, PerformKinds
  <1> QED
    BY <1>s, <1>6, <1>7, <1>8, <1>9, <1>10, Zenon

\* The answer of a rotation brings the current token.
LEMMA StepDeliver ==
  ASSUME Counts, Refreshes, NEW r \in Visits, Sign!Deliver(r)
  PROVE  Refreshes'
  <1>1. SignTypes /\ jar \in [SessionIds -> Jars] /\ visit \in [Visits -> {Sign!NoRequest} \cup Sent]
    BY SignTypesParts DEF Counts
  <1>2. /\ visit[r].pc = "answered" /\ UNCHANGED <<account, sess>>
        /\ jar' = [jar EXCEPT ![visit[r].s] = Sign!set_auth_cookies(visit[r])]
        /\ visit' = [visit EXCEPT ![r] = Sign!NoRequest]
    BY DEF Sign!Deliver
  <1>3. visit[r] \in Sent
    BY <1>1, <1>2, VisitKinds
  <1>s. PICK s \in SessionIds : s = visit[r].s
    BY <1>3 DEF Sent
  <1>4. SessionInStep(s) /\ sess[s].state # "absent" /\ (Sign!Live(s) => InStep(visit[r], s))
    BY <1>2, <1>s DEF Refreshes, SessionInStep
  <1>5. visit'[r].pc = "idle" /\ \A x \in Visits \ {r} : visit'[x] = visit[x]
    BY <1>1, <1>2 DEF Sign!NoRequest
  <1>6. jar'[s] = Sign!set_auth_cookies(visit[r]) /\ \A x \in SessionIds \ {s} : jar'[x] = jar[x]
    BY <1>1, <1>2, <1>s
  <1>7. ASSUME Sign!Live(s) PROVE BrowserInStep(s)'
    <2>1. BrowserInStep(s) /\ InStep(visit[r], s) /\ visit[r].act # "clear"
      BY <1>4, <1>7 DEF SessionInStep, InStep
    <2>2. CASE visit[r].act = "set"
      <3>1. jar'[s] = visit[r].set
        BY <1>6, <2>2 DEF Sign!set_auth_cookies
      <3>2. visit[r].set.gen = sess[s].gen /\ visit[r].set.access = account.version
        BY <2>1, <2>2 DEF InStep
      <3>3. sess[s].gen >= 0
        BY SignTypesParts, <1>1 DEF SessionRow
      <3> QED
        BY <1>2, <3>1, <3>2, <3>3 DEF BrowserInStep
    <2>3. CASE visit[r].act # "set"
      <3>1. jar'[s] = jar[s] \/ jar'[s] = [jar[s] EXCEPT !.csrf = TRUE]
        BY <1>6, <1>s, <2>1, <2>3 DEF Sign!set_auth_cookies
      <3>2. jar'[s].gen = jar[s].gen /\ jar'[s].access = jar[s].access
        BY <1>1, <3>1 DEF Jars
      <3>3. ASSUME NEW x \in Visits, visit[x].pc # "idle", visit[x].s = s, visit[x].act = "set"
            PROVE  visit'[x].pc # "idle" /\ visit'[x].s = s /\ visit'[x].act = "set"
        BY <1>5, <2>3, <3>3
      <3> QED
        BY <1>2, <2>1, <3>2, <3>3 DEF BrowserInStep
    <2> QED
      BY <2>2, <2>3
  <1>8. SessionInStep(s)'
    <2>1. Sign!Live(s)' <=> Sign!Live(s)
      BY <1>2 DEF Sign!Live
    <2>2. ASSUME NEW x \in Visits, visit'[x].pc # "idle", visit'[x].s = s, Sign!Live(s)
          PROVE  InStep(visit[x], s)'
      BY <1>2, <1>4, <1>5, <2>2 DEF SessionInStep, InStep
    <2> QED
      BY <1>2, <1>4, <1>7, <2>1, <2>2 DEF SessionInStep
  <1>9. ASSUME NEW x \in SessionIds \ {s} PROVE SessionInStep(x)'
    BY <1>2, <1>s, <1>5, <1>6, StepFrame DEF Refreshes
  <1> QED
    BY <1>8, <1>9 DEF Refreshes

\* Time.  A grace ends only when no request of its browser is in flight, and an access
\* token only when no grace runs.
LEMMA StepTime ==
  ASSUME Prompt, Counts, Refreshes, NEW s \in SessionIds,
         \/ Sign!DropCsrfCookie(s) \/ Sign!GraceElapses(s) \/ Sign!AccessExpires(s)
         \/ Sign!SessionExpires(s)
  PROVE  Refreshes'
  <1>1. /\ SignTypes /\ jar \in [SessionIds -> Jars] /\ sess \in [SessionIds -> SessionRow]
        /\ visit \in [Visits -> {Sign!NoRequest} \cup Sent] /\ SessionInStep(s)
    BY SignTypesParts DEF Counts, Refreshes
  <1>2. UNCHANGED account
    BY DEF Sign!DropCsrfCookie, Sign!GraceElapses, Sign!AccessExpires, Sign!SessionExpires
  <1>3. CASE Sign!DropCsrfCookie(s)
    <2>1. jar' = [jar EXCEPT ![s].csrf = FALSE] /\ UNCHANGED <<sess, visit>> /\ jar[s].csrf
      BY <1>3 DEF Sign!DropCsrfCookie
    <2>2. jar'[s].gen = jar[s].gen /\ jar'[s].access = jar[s].access
          /\ \A x \in SessionIds \ {s} : jar'[x] = jar[x]
      BY <1>1, <2>1 DEF Jars
    <2>3. sess[s].state # "absent"
      BY <1>1, <2>1 DEF SessionInStep, Sign!NoJar
    <2>4. SessionInStep(s)'
      <3>1. Sign!Live(s) => BrowserInStep(s)'
        BY <1>1, <1>2, <2>1, <2>2 DEF SessionInStep, BrowserInStep
      <3>2. \A r \in Visits : InStep(visit[r], s)' <=> InStep(visit[r], s)
        BY <1>2, <2>1 DEF InStep
      <3>3. Sign!Live(s)' <=> Sign!Live(s)
        BY <2>1 DEF Sign!Live
      <3> QED
        BY <1>1, <2>1, <2>3, <3>1, <3>2, <3>3 DEF SessionInStep
    <2>5. ASSUME NEW x \in SessionIds \ {s} PROVE SessionInStep(x)'
      BY <1>2, <2>1, <2>2, StepFrame DEF Refreshes
    <2> QED
      BY <2>4, <2>5 DEF Refreshes
  <1>4. CASE Sign!GraceElapses(s)
    <2>1. sess[s].grace /\ sess' = [sess EXCEPT ![s].grace = FALSE] /\ UNCHANGED <<jar, visit>>
          /\ \A r \in Visits : visit[r].pc = "idle" \/ visit[r].s # s
      BY <1>4 DEF Sign!GraceElapses, Sign!InFlight
    <2>2. /\ ~sess'[s].grace /\ sess'[s].gen = sess[s].gen /\ sess'[s].state = sess[s].state
          /\ sess'[s].why = sess[s].why /\ \A x \in SessionIds \ {s} : sess'[x] = sess[x]
      BY <1>1, <2>1 DEF SessionRow
    <2>3. sess[s].state # "absent"
      BY <1>1, <2>1 DEF SessionInStep, Sign!NoSession
    <2>4. SessionInStep(s)'
      <3>1. ASSUME Sign!Live(s) PROVE BrowserInStep(s)'
        <4>1. BrowserInStep(s) /\ jar[s].gen = sess[s].gen
          BY <1>1, <2>1, <3>1 DEF SessionInStep, BrowserInStep
        <4> QED
          BY <2>1, <2>2, <4>1 DEF BrowserInStep
      <3> QED
        BY <1>1, <2>1, <2>2, <2>3, <3>1 DEF SessionInStep, Sign!Live
    <2>5. ASSUME NEW x \in SessionIds \ {s} PROVE SessionInStep(x)'
      BY <1>2, <2>1, <2>2, StepFrame DEF Refreshes
    <2> QED
      BY <2>4, <2>5 DEF Refreshes
  <1>5. CASE Sign!AccessExpires(s)
    <2>1. /\ ~sess[s].grace /\ jar' = [jar EXCEPT ![s].access = 0] /\ UNCHANGED sess
          /\ visit' = [r \in Visits |-> IF visit[r].pc = "sent" /\ visit[r].s = s
                                        THEN [visit[r] EXCEPT !.jar.access = 0] ELSE visit[r]]
          /\ jar[s].access # 0 \/ \E r \in Visits : visit[r].pc = "sent" /\ visit[r].s = s
      BY <1>5 DEF Sign!AccessExpires
    <2>2. jar'[s].gen = jar[s].gen /\ \A x \in SessionIds \ {s} : jar'[x] = jar[x]
      BY <1>1, <2>1 DEF Jars
    <2>3. sess[s].state # "absent"
      BY <1>1, <2>1 DEF SessionInStep, Sign!NoJar
    <2>4. ASSUME NEW r \in Visits
          PROVE  \/ visit'[r] = visit[r]
                 \/ /\ visit[r].pc = "sent" /\ visit[r].s = s
                    /\ visit'[r].pc = "sent" /\ visit'[r].s = s /\ visit'[r].act = visit[r].act
                    /\ visit'[r].set = visit[r].set /\ visit'[r].jar.gen = visit[r].jar.gen
      <3>1. CASE visit[r].pc = "sent" /\ visit[r].s = s
        <4>1. visit[r] \in Sent /\ visit'[r] = [visit[r] EXCEPT !.jar.access = 0]
          BY <1>1, <2>1, <3>1, VisitKinds
        <4> QED
          BY <3>1, <4>1 DEF Sent, Jars
      <3>2. CASE ~(visit[r].pc = "sent" /\ visit[r].s = s)
        BY <2>1, <3>2
      <3> QED
        BY <3>1, <3>2
    <2>5. SessionInStep(s)'
      <3>1. Sign!Live(s)' <=> Sign!Live(s)
        BY <2>1 DEF Sign!Live
      <3>2. Sign!Live(s) => BrowserInStep(s)'
        BY <1>1, <2>1, <2>2 DEF SessionInStep, BrowserInStep
      <3>3. ASSUME NEW r \in Visits, visit'[r].pc # "idle", visit'[r].s = s, Sign!Live(s)
            PROVE  InStep(visit[r], s)'
        <4>1. visit[r].pc # "idle" /\ visit[r].s = s
          BY <2>4, <3>3
        <4>2. InStep(visit[r], s)
          BY <1>1, <3>3, <4>1 DEF SessionInStep
        <4> QED
          BY <1>2, <2>1, <2>4, <4>2 DEF InStep
      <3> QED
        BY <1>1, <2>1, <2>3, <3>1, <3>2, <3>3 DEF SessionInStep
    <2>6. ASSUME NEW x \in SessionIds \ {s} PROVE SessionInStep(x)'
      BY <1>2, <2>1, <2>2, <2>4, StepFrame DEF Refreshes
    <2> QED
      BY <2>5, <2>6 DEF Refreshes
  <1>6. CASE Sign!SessionExpires(s)
    <2>1. sess[s].state = "live" /\ sess' = [sess EXCEPT ![s].state = "expired"]
          /\ UNCHANGED <<jar, visit>>
      BY <1>6 DEF Sign!SessionExpires, Sign!Live
    <2>2. sess'[s].state = "expired" /\ sess'[s].why = sess[s].why
          /\ \A x \in SessionIds \ {s} : sess'[x] = sess[x]
      BY <1>1, <2>1 DEF SessionRow
    <2>3. SessionInStep(s)'
      BY <1>1, <2>1, <2>2, StepDead DEF Sign!Live, SessionInStep
    <2>4. ASSUME NEW x \in SessionIds \ {s} PROVE SessionInStep(x)'
      BY <1>2, <2>1, <2>2, StepFrame DEF Refreshes
    <2> QED
      BY <2>3, <2>4 DEF Refreshes
  <1> QED
    BY <1>3, <1>4, <1>5, <1>6

LEMMA RefreshesNext ==
  ASSUME AdminOps = {}, Prompt, Counts, Quiet, Refreshes, Sign!Next
  PROVE  Refreshes'
  <1>1. account \in Sign!Account
    BY SignTypesParts DEF Counts
  <1>2. ASSUME NEW l \in Logins,
               \/ \E valid \in BOOLEAN : Sign!authenticate_user(l, valid)
               \/ Sign!authenticate_trusted_identity(l)
        PROVE  Refreshes'
    <2>1. UNCHANGED <<sess, jar, visit>>
      BY <1>2 DEF Sign!authenticate_user, Sign!authenticate_trusted_identity
    <2>2. account'.version = account.version
      BY <1>2, CheckVersion DEF Counts
    <2> QED
      BY <2>1, <2>2, StepAside
  <1>3. ASSUME NEW t \in ResetIds, Sign!request_password_reset(t) \/ Sign!ResetExpires(t)
        PROVE  Refreshes'
    <2>1. UNCHANGED <<account, sess, jar, visit>>
      BY <1>3 DEF Sign!request_password_reset, Sign!ResetExpires
    <2> QED
      BY <2>1, StepAside
  <1>4. ASSUME NEW t \in ResetIds, Sign!complete_password_reset(t)
        PROVE  Refreshes'
    <2>1. sess' = Sign!revoke_all_sessions(sess) /\ UNCHANGED <<jar, visit>>
      BY <1>4 DEF Sign!complete_password_reset
    <2> QED
      BY <2>1, StepPassword
  <1>5. CASE Sign!LockElapses
    <2>1. account'.version = account.version /\ UNCHANGED <<sess, jar, visit>>
      BY <1>1, <1>5, AccountUpdates DEF Sign!LockElapses
    <2> QED
      BY <2>1, StepAside
  <1>6. ~Sign!AdminRevoke /\ ~Sign!AdminCommit
    BY DEF Quiet, Sign!NoAdmin, Sign!AdminRevoke, Sign!AdminCommit
  <1>7. \A r \in Visits : ~Sign!Lose(r)
    BY DEF Sign!Lose
  <1> QED
    BY <1>2, <1>3, <1>4, <1>5, <1>6, <1>7, StepCreate, StepSend, StepAuth, StepPerform,
       StepDeliver, StepTime, Zenon DEF Sign!Next, Sign!login_submit, Sign!federated_login_submit

-----------------------------------------------------------------------------

(* SessionsAreSafe: whatever sign-ins, overlapping requests, password      *)
(* changes and resets interleave, and however many there are, at most      *)
(* Limit + 1 wrong passwords are weighed between two locks; and where no   *)
(* status change runs, no session outlives the change that ended it, and   *)
(* no browser whose answers arrive is signed out by its own requests       *)
(* (authenticate_user, create_session, rotate_session).                    *)
THEOREM SessionsAreSafe == Sign!Spec => []SessionsSafe
  <1>1. Sign!Init => SignInv
    <2> SUFFICES ASSUME Sign!Init PROVE SignInv
      OBVIOUS
    <2>2. SignTypes
      BY SessionAssumption DEF Sign!Init, SignTypes, Sign!TypeOK, Sign!Account, Sign!NoLogin,
         Sign!NoSession, Sign!NoJar
    <2>3. AdminBound /\ GuessesCounted
      BY SessionAssumption DEF Sign!Init, AdminBound, GuessesCounted
    <2>4. Quiet
      BY DEF Sign!Init, Quiet, LoginsCurrent, Sign!NoLogin, Sign!NoSurvivor, Sign!NoSession,
             Sign!Live
    <2>5. Refreshes
      BY DEF Sign!Init, Refreshes, SessionInStep, Sign!NoSession, Sign!Live, Sign!NoRequest
    <2> QED
      BY <2>2, <2>3, <2>4, <2>5 DEF SignInv, Quiet
  <1>2. SignInv /\ [Sign!Next]_Sign!vars => SignInv'
    <2>1. ASSUME SignInv, Sign!Next PROVE SignInv'
      <3>1. Counts /\ (AdminOps = {} => Quiet /\ (Prompt => Refreshes))
        BY <2>1 DEF SignInv, Counts, Quiet
      <3>2. Counts' /\ (AdminOps = {} => Quiet' /\ (Prompt => Refreshes'))
        BY <2>1, <3>1, CountsNext, QuietNext, RefreshesNext
      <3> QED
        BY <3>2 DEF SignInv, Counts, Quiet
    <2>2. ASSUME SignInv, UNCHANGED Sign!vars PROVE SignInv'
      BY <2>2 DEF Sign!vars, SignInv, SignTypes, Sign!TypeOK, AdminBound, GuessesCounted,
         LoginsCurrent, Sign!NoSurvivor, Sign!Live, Refreshes, SessionInStep, BrowserInStep, InStep
    <2> QED
      BY <2>1, <2>2
  <1>3. SignInv => SessionsSafe
    <2> SUFFICES ASSUME SignInv PROVE SessionsSafe
      OBVIOUS
    <2>2. account.attempts \in 0..Limit /\ tries \in Nat /\ tries <= account.attempts + 1
      BY SignTypesParts DEF SignInv, GuessesCounted, Sign!Account
    <2>3. Sign!GuessesBounded
      BY <2>2, SessionAssumption DEF Sign!GuessesBounded
    <2>4. AdminOps = {} => Sign!NoSurvivor /\ Sign!NoSelfSignOut
      BY DEF SignInv, Refreshes, SessionInStep, Sign!NoSelfSignOut
    <2> QED
      BY <2>3, <2>4 DEF SessionsSafe, Sign!Safety, SignInv, SignTypes
  <1> QED
    BY <1>1, <1>2, <1>3, PTL DEF Sign!Spec

-----------------------------------------------------------------------------
(* The outbox: the rows and the batches.                                   *)

Claims == Deliverers \X Nat
MailRow == [state : {"absent", "pending", "sent", "failed"}, attempts : 0..MaxSends,
            claim : {Mail!None} \cup Claims, stale : BOOLEAN, due : BOOLEAN]
ProcRow == [pc : {"idle", "next", "sending", "answered"}, claims : Seq(Messages \X Claims),
            attempt : 0..MaxSends, outcome : {"none", "ok", "error"}]

LEMMA MailTypes ==
  Mail!TypeOK <=> /\ box \in [Messages -> MailRow] /\ proc \in [Deliverers -> ProcRow]
                  /\ accepted \in [Messages -> 0..MaxSends]
  BY DEF Mail!TypeOK, MailRow, ProcRow, Claims

LEMMA MailTypesNext ==
  Mail!TypeOK' <=> /\ box' \in [Messages -> MailRow] /\ proc' \in [Deliverers -> ProcRow]
                   /\ accepted' \in [Messages -> 0..MaxSends]
  BY DEF Mail!TypeOK, MailRow, ProcRow, Claims

\* What claiming, failing, giving up and sending make of a row.
LEMMA RowUpdates ==
  ASSUME NEW b \in MailRow
  PROVE  /\ \A c \in Claims : LET n == [b EXCEPT !.claim = c, !.stale = FALSE] IN
               n \in MailRow /\ n.state = b.state /\ n.claim = c /\ ~n.stale
         /\ LET n == [b EXCEPT !.state = "failed", !.claim = Mail!None, !.stale = FALSE] IN
            n \in MailRow /\ n.state = "failed"
         /\ LET n == [b EXCEPT !.due = FALSE, !.claim = Mail!None, !.stale = FALSE] IN
            n \in MailRow /\ n.state = b.state
         /\ LET n == [b EXCEPT !.state = "sent", !.claim = Mail!None, !.stale = FALSE] IN
            n \in MailRow /\ n.state = "sent"
         /\ [Mail!NoMessage EXCEPT !.state = "pending"] \in MailRow
         /\ [Mail!NoMessage EXCEPT !.state = "pending"].state = "pending"
  <1>1. ASSUME NEW x \in MailRow, NEW c \in {Mail!None} \cup Claims
        PROVE  LET n == [x EXCEPT !.claim = c, !.stale = FALSE] IN
               n \in MailRow /\ n.state = x.state /\ n.claim = c /\ ~n.stale
    <2> DEFINE y == [x EXCEPT !.claim = c]
               n == [y EXCEPT !.stale = FALSE]
    <2>1. y \in MailRow /\ y.state = x.state /\ y.claim = c
      BY <1>1 DEF MailRow
    <2>2. [x EXCEPT !.claim = c, !.stale = FALSE] = n
      BY <1>1 DEF MailRow
    <2> HIDE DEF y
    <2>3. n \in MailRow /\ n.state = x.state /\ n.claim = c /\ ~n.stale
      BY <2>1 DEF MailRow
    <2> QED
      BY <2>2, <2>3
  <1>2. ASSUME NEW v \in {"failed", "sent"}
        PROVE  LET n == [b EXCEPT !.state = v, !.claim = Mail!None, !.stale = FALSE] IN
               n \in MailRow /\ n.state = v
    <2> DEFINE x == [b EXCEPT !.state = v]
               n == [x EXCEPT !.claim = Mail!None, !.stale = FALSE]
    <2>1. x \in MailRow /\ x.state = v
      BY <1>2 DEF MailRow
    <2>2. [b EXCEPT !.state = v, !.claim = Mail!None, !.stale = FALSE] = n
      BY DEF MailRow
    <2> HIDE DEF x
    <2>3. n \in MailRow /\ n.state = v
      BY <1>1, <2>1
    <2> QED
      BY <2>2, <2>3
  <1>3. LET n == [b EXCEPT !.due = FALSE, !.claim = Mail!None, !.stale = FALSE] IN
        n \in MailRow /\ n.state = b.state
    <2> DEFINE x == [b EXCEPT !.due = FALSE]
               n == [x EXCEPT !.claim = Mail!None, !.stale = FALSE]
    <2>1. x \in MailRow /\ x.state = b.state
      BY DEF MailRow
    <2>2. [b EXCEPT !.due = FALSE, !.claim = Mail!None, !.stale = FALSE] = n
      BY DEF MailRow
    <2> HIDE DEF x
    <2>3. n \in MailRow /\ n.state = b.state
      BY <1>1, <2>1
    <2> QED
      BY <2>2, <2>3
  <1>4. /\ [Mail!NoMessage EXCEPT !.state = "pending"] \in MailRow
        /\ [Mail!NoMessage EXCEPT !.state = "pending"].state = "pending"
    <2>1. Mail!NoMessage \in MailRow
      BY OutboxAssumption DEF Mail!NoMessage, MailRow
    <2> QED
      BY <2>1 DEF MailRow
  <1> QED
    BY <1>1, <1>2, <1>3, <1>4

\* The rest of a batch.
LEMMA RestOfBatch ==
  ASSUME proc \in [Deliverers -> ProcRow], NEW d \in Deliverers, proc[d].claims # <<>>
  PROVE  LET c == proc[d].claims
             n == Mail!Rest(d)
         IN /\ n \in ProcRow /\ n.pc \in {"idle", "next"} /\ Len(n.claims) = Len(c) - 1
            /\ n.pc = "idle" <=> n.claims = <<>>
            /\ \A i \in 1..Len(n.claims) : i + 1 \in 1..Len(c) /\ n.claims[i] = c[i + 1]
  <1> DEFINE c == proc[d].claims
  <1>1. c \in Seq(Messages \X Claims) /\ Len(c) \in Nat /\ Len(c) >= 1
    BY DEF ProcRow
  <1>2. Mail!Idle \in ProcRow /\ Mail!Idle.claims = <<>> /\ Mail!Idle.pc = "idle"
    BY OutboxAssumption DEF Mail!Idle, ProcRow
  <1>3. CASE Len(c) = 1
    BY <1>2, <1>3 DEF Mail!Rest
  <1>4. CASE Len(c) # 1
    <2> DEFINE t == Tail(c)
               a == [Mail!Idle EXCEPT !.pc = "next"]
               n == [a EXCEPT !.claims = t]
    <2>1. t \in Seq(Messages \X Claims) /\ Len(t) = Len(c) - 1
          /\ \A i \in 1..Len(t) : i + 1 \in 1..Len(c) /\ t[i] = c[i + 1]
      BY <1>1, <1>4
    <2>2. Mail!Rest(d) = n
      BY <1>2, <1>4 DEF Mail!Rest, ProcRow
    <2> HIDE DEF t
    <2>3. a \in ProcRow /\ a.pc = "next"
      BY <1>2 DEF ProcRow
    <2> HIDE DEF a
    <2>4. n \in ProcRow /\ n.pc = "next" /\ n.claims = t
      BY <2>1, <2>3 DEF ProcRow
    <2>5. t # <<>>
      <3>1. Len(t) # 0
        BY <1>1, <1>4, <2>1
      <3>2. t = <<>> => Len(t) = 0
        OBVIOUS
      <3> QED
        BY <3>1, <3>2
    <2> QED
      BY <2>1, <2>2, <2>4, <2>5
  <1> QED
    BY <1>3, <1>4

\* A deliverer at work has a current claim, and it is its own.
LEMMA CurrentClaim ==
  ASSUME Mail!TypeOK, Batches, NEW d \in Deliverers, proc[d].pc # "idle"
  PROVE  /\ proc[d].claims # <<>> /\ 1 \in 1..Len(proc[d].claims)
         /\ Mail!Current(d) = proc[d].claims[1][1] /\ Mail!Current(d) \in Messages
         /\ Head(proc[d].claims)[2] = proc[d].claims[1][2]
  <1>1. proc[d].claims # <<>> /\ proc[d].claims \in Seq(Messages \X Claims)
    BY MailTypes DEF Batches, ProcRow
  <1>2. Head(proc[d].claims) = proc[d].claims[1] /\ 1 \in 1..Len(proc[d].claims)
    BY <1>1
  <1>3. proc[d].claims[1] \in Messages \X Claims
    BY <1>1, <1>2
  <1> QED
    BY <1>1, <1>2, <1>3 DEF Mail!Current

\* The current message of a deliverer, undisturbed: the claim is still its own.
LEMMA ClaimHeld ==
  ASSUME Mail!TypeOK, Batches, NEW d \in Deliverers, proc[d].pc # "idle",
         Undisturbed(Mail!Current(d))
  PROVE  Mail!holds(d) /\ box[Mail!Current(d)].state = "pending"
  BY CurrentClaim DEF Undisturbed, Mail!holds

\* An undisturbed message is in one batch at most.
LEMMA SoleHolder ==
  ASSUME Mail!TypeOK, Batches, NEW m \in Messages, Undisturbed(m),
         NEW d \in Deliverers, NEW i \in 1..Len(proc[d].claims), proc[d].claims[i][1] = m,
         NEW e \in Deliverers, NEW j \in 1..Len(proc[e].claims), proc[e].claims[j][1] = m
  PROVE  d = e /\ i = j
  <1>1. proc[d].claims[i][2] = proc[e].claims[j][2]
    BY DEF Undisturbed
  <1> QED
    BY <1>1 DEF Batches

\* A message that nobody has in a batch was not taken, or is sent.
LEMMA NobodyRecords ==
  ASSUME Mail!TypeOK, Batches, NEW m \in Messages, Undisturbed(m),
         \A d \in Deliverers : \A i \in 1..Len(proc[d].claims) : proc[d].claims[i][1] # m
  PROVE  accepted[m] > 0 => box[m].state = "sent"
  BY CurrentClaim DEF Undisturbed, Recording

\* A step that leaves the row's claim, and takes no answer away, disturbs nothing.
LEMMA UndisturbedFrame ==
  ASSUME NEW m \in Messages, Undisturbed(m), accepted'[m] = accepted[m],
         box'[m].state = box[m].state, box'[m].claim = box[m].claim, box'[m].stale = box[m].stale,
         \A d \in Deliverers : \A i \in 1..Len(proc'[d].claims) :
            proc'[d].claims[i][1] = m =>
               \E j \in 1..Len(proc[d].claims) : proc[d].claims[j] = proc'[d].claims[i],
         \A d \in Deliverers : Recording(d, m) => Recording(d, m)'
  PROVE  Undisturbed(m)'
  <1>1. ASSUME NEW d \in Deliverers, NEW i \in 1..Len(proc'[d].claims), proc'[d].claims[i][1] = m
        PROVE  box'[m].state = "pending" /\ box'[m].claim = proc'[d].claims[i][2] /\ ~box'[m].stale
    BY <1>1 DEF Undisturbed
  <1>2. accepted[m] > 0 =>
          accepted[m] = 1 /\ (box'[m].state = "sent" \/ \E d \in Deliverers : Recording(d, m)')
    BY DEF Undisturbed
  <1> QED
    BY <1>1, <1>2 DEF Undisturbed

\* The steps that leave the batches alone.
LEMMA BatchesFrame ==
  ASSUME Mail!TypeOK, Batches, UNCHANGED <<proc, accepted>>
  PROVE  Batches'
  BY DEF Batches, Mail!Current

\* queue_email and retry_failed put a message in the outbox, which nobody has in a batch or
\* which an operator chose to send again.
LEMMA MailQueued ==
  ASSUME MailInv, NEW m \in Messages, Mail!queue_email(m) \/ Mail!retry_failed(m)
  PROVE  MailInv'
  <1> DEFINE n == [Mail!NoMessage EXCEPT !.state = "pending"]
  <1>1. /\ Mail!TypeOK /\ Batches /\ box \in [Messages -> MailRow]
        /\ \A x \in Messages \ excuse : Undisturbed(x)
    BY MailTypes DEF MailInv
  <1>2. /\ UNCHANGED <<proc, accepted>> /\ box' = [box EXCEPT ![m] = n]
        /\ (box[m].state = "absent" \/ m \in excuse')
    BY DEF Mail!queue_email, Mail!retry_failed
  <1>3. excuse \subseteq excuse'
    BY DEF Mail!queue_email, Mail!retry_failed
  <1>4. n \in MailRow /\ n.state = "pending"
    BY <1>1, RowUpdates
  <1> HIDE DEF n
  <1>5. box'[m] = n /\ \A x \in Messages \ {m} : box'[x] = box[x]
    BY <1>1, <1>2
  <1>6. Mail!TypeOK'
    BY <1>1, <1>2, <1>4, MailTypes, MailTypesNext
  <1>7. Mail!SentWasAccepted'
    BY <1>2, <1>4, <1>5 DEF MailInv, Mail!SentWasAccepted
  <1>8. ASSUME NEW x \in Messages \ excuse' PROVE Undisturbed(x)'
    <2>1. Undisturbed(x)
      BY <1>1, <1>3, <1>8
    <2>2. CASE x = m
      <3>1. box[m].state = "absent"
        BY <1>2, <1>8, <2>2
      <3>2. \A d \in Deliverers : \A i \in 1..Len(proc[d].claims) : proc[d].claims[i][1] # m
        BY <2>1, <2>2, <3>1 DEF Undisturbed
      <3>3. ~(accepted[m] > 0)
        BY <1>1, <2>1, <2>2, <3>1, <3>2, NobodyRecords
      <3> QED
        BY <1>2, <2>2, <3>2, <3>3 DEF Undisturbed
    <2>3. CASE x # m
      BY <1>2, <1>5, <2>1, <2>3, UndisturbedFrame DEF Recording, Mail!Current
    <2> QED
      BY <2>2, <2>3
  <1> QED
    BY <1>1, <1>2, <1>6, <1>7, <1>8, BatchesFrame DEF MailInv

\* Time.  A claim that goes stale while someone has it in a batch is an excuse.
LEMMA MailTime ==
  ASSUME MailInv, NEW m \in Messages, Mail!BecomesDue(m) \/ Mail!ClaimTimesOut(m)
  PROVE  MailInv'
  <1>1. /\ Mail!TypeOK /\ Batches /\ box \in [Messages -> MailRow]
        /\ \A x \in Messages \ excuse : Undisturbed(x)
    BY MailTypes DEF MailInv
  <1>2. /\ UNCHANGED <<proc, accepted>> /\ excuse \subseteq excuse'
        /\ box' = [box EXCEPT ![m].due = TRUE] \/ box' = [box EXCEPT ![m].stale = TRUE]
    BY DEF Mail!BecomesDue, Mail!ClaimTimesOut
  <1>3. /\ box' \in [Messages -> MailRow] /\ \A x \in Messages \ {m} : box'[x] = box[x]
        /\ box'[m].state = box[m].state
    BY <1>1, <1>2 DEF MailRow
  <1>4. Mail!TypeOK'
    BY <1>1, <1>2, <1>3, MailTypes, MailTypesNext
  <1>5. Mail!SentWasAccepted'
    BY <1>2, <1>3 DEF MailInv, Mail!SentWasAccepted
  <1>6. ASSUME NEW x \in Messages \ excuse' PROVE Undisturbed(x)'
    <2>1. Undisturbed(x)
      BY <1>1, <1>2, <1>6
    <2>2. CASE x = m /\ Mail!ClaimTimesOut(m)
      <3>1. Mail!Abandoned(m)
        BY <1>6, <2>2 DEF Mail!ClaimTimesOut
      <3>2. ASSUME NEW d \in Deliverers, NEW i \in 1..Len(proc[d].claims)
            PROVE  proc[d].claims[i][1] # m
        <4>1. proc[d].claims[i] \in Messages \X Claims
          BY <1>1, MailTypes DEF ProcRow
        <4>2. proc[d].claims[i] # <<m, box[m].claim>>
          BY <3>1 DEF Mail!Abandoned
        <4> QED
          BY <2>1, <2>2, <4>1, <4>2 DEF Undisturbed
      <3>3. accepted[m] > 0 => box[m].state = "sent" /\ accepted[m] = 1
        BY <1>1, <2>1, <2>2, <3>2, NobodyRecords DEF Undisturbed
      <3> QED
        BY <1>2, <1>3, <2>2, <3>2, <3>3 DEF Undisturbed
    <2>3. CASE x # m \/ Mail!BecomesDue(m)
      <3>1. box'[x].state = box[x].state /\ box'[x].claim = box[x].claim /\ box'[x].stale = box[x].stale
        BY <1>1, <1>3, <2>3 DEF Mail!BecomesDue, MailRow
      <3> QED
        BY <1>2, <2>1, <3>1, UndisturbedFrame DEF Recording, Mail!Current
    <2> QED
      BY <2>2, <2>3
  <1> QED
    BY <1>1, <1>2, <1>4, <1>5, <1>6, BatchesFrame DEF MailInv

\* A process dies: what the relay took before is an excuse.
LEMMA MailCrash ==
  ASSUME MailInv, NEW d \in Deliverers, Mail!Crash(d)
  PROVE  MailInv'
  <1>1. /\ Mail!TypeOK /\ Batches /\ proc \in [Deliverers -> ProcRow]
        /\ accepted \in [Messages -> 0..MaxSends]
        /\ \A x \in Messages \ excuse : Undisturbed(x)
    BY MailTypes DEF MailInv
  <1>2. /\ UNCHANGED <<box, accepted>> /\ proc' = [proc EXCEPT ![d] = Mail!Idle]
        /\ excuse' = excuse \cup {m \in Messages : accepted[m] > 0}
    BY DEF Mail!Crash
  <1>3. /\ Mail!Idle \in ProcRow /\ Mail!Idle.claims = <<>> /\ Mail!Idle.pc = "idle"
        /\ Len(Mail!Idle.claims) = 0
    BY OutboxAssumption DEF Mail!Idle, ProcRow
  <1>4. proc'[d] = Mail!Idle /\ \A e \in Deliverers \ {d} : proc'[e] = proc[e]
    BY <1>1, <1>2
  <1>5. Mail!TypeOK'
    BY <1>1, <1>2, <1>3, MailTypes, MailTypesNext
  <1>6. Batches'
    BY <1>1, <1>2, <1>3, <1>4 DEF Batches, Mail!Current
  <1>7. ASSUME NEW x \in Messages \ excuse' PROVE Undisturbed(x)'
    <2>1. Undisturbed(x) /\ ~(accepted'[x] > 0)
      BY <1>1, <1>2, <1>7
    <2> QED
      BY <1>2, <1>3, <1>4, <2>1 DEF Undisturbed
  <1> QED
    BY <1>2, <1>5, <1>6, <1>7 DEF MailInv, Mail!SentWasAccepted

\* A batch is claimed: nobody has what is claimable, if it was not disturbed.
LEMMA MailClaim ==
  ASSUME MailInv, NEW d \in Deliverers, Mail!_claim_pending(d)
  PROVE  MailInv'
  <1> DEFINE token(m) == <<d, box[m].attempts + 1>>
  <1>1. /\ Mail!TypeOK /\ Batches /\ box \in [Messages -> MailRow]
        /\ proc \in [Deliverers -> ProcRow] /\ proc[d].pc = "idle" /\ proc[d].claims = <<>>
        /\ UNCHANGED <<accepted, excuse>> /\ \A x \in Messages \ excuse : Undisturbed(x)
    BY MailTypes DEF MailInv, Batches, Mail!_claim_pending
  <1> DEFINE Taken(n, order) ==
               LET S == {order[i] : i \in 1..n} IN
               /\ \A i, j \in 1..n : order[i] = order[j] => i = j
               /\ box' = [m \in Messages |-> IF m \in S
                             THEN [box[m] EXCEPT !.claim = token(m), !.stale = FALSE] ELSE box[m]]
               /\ proc' = [proc EXCEPT ![d] = [Mail!Idle EXCEPT !.pc = "next",
                             !.claims = [i \in 1..n |-> <<order[i], token(order[i])>>]]]
  <1>n. PICK n \in 1..Batch : \E order \in [1..n -> {m \in Messages : Mail!claimable(m)}] :
          Taken(n, order)
    BY Zenon DEF Mail!_claim_pending, Mail!Token
  <1>2. PICK order \in [1..n -> {m \in Messages : Mail!claimable(m)}] : Taken(n, order)
    BY <1>n
  <1> DEFINE S == {order[i] : i \in 1..n}
             c == [i \in 1..n |-> <<order[i], token(order[i])>>]
  <1>3. n \in Nat /\ n >= 1
    BY OutboxAssumption
  <1>4. ASSUME NEW m \in Messages PROVE token(m) \in Claims
    BY <1>1 DEF Claims, MailRow
  <1>5. \A i \in 1..n : order[i] \in Messages /\ Mail!claimable(order[i])
    OBVIOUS
  <1>o. \A i, j \in 1..n : order[i] = order[j] => i = j
    BY <1>2
  <1>t. \A m \in Messages : token(m)[1] = d
    OBVIOUS
  <1> HIDE DEF token
  <1>6. /\ c \in Seq(Messages \X Claims) /\ Len(c) = n
        /\ \A i \in 1..n : c[i] = <<order[i], token(order[i])>>
    BY <1>3, <1>4, <1>5
  <1>7. /\ proc' \in [Deliverers -> ProcRow] /\ proc'[d].pc = "next" /\ proc'[d].claims = c
        /\ \A e \in Deliverers \ {d} : proc'[e] = proc[e]
    <2> DEFINE a == [Mail!Idle EXCEPT !.pc = "next"]
               b == [a EXCEPT !.claims = c]
    <2>0. Mail!Idle \in ProcRow
      BY OutboxAssumption DEF Mail!Idle, ProcRow
    <2>1. a \in ProcRow /\ a.pc = "next"
      BY <2>0 DEF ProcRow
    <2>2. proc' = [proc EXCEPT ![d] = b]
      BY <1>2 DEF Mail!Idle
    <2> HIDE DEF a, c
    <2>3. b \in ProcRow /\ b.pc = "next" /\ b.claims = c
      BY <1>6, <2>1 DEF ProcRow
    <2> HIDE DEF b
    <2> QED
      BY <1>1, <2>2, <2>3
  <1>8. /\ box' \in [Messages -> MailRow] /\ \A m \in Messages : box'[m].state = box[m].state
        /\ \A m \in S : box'[m].claim = token(m) /\ ~box'[m].stale
        /\ \A m \in Messages \ S : box'[m] = box[m]
    <2>1. ASSUME NEW m \in Messages
          PROVE  LET b == [box[m] EXCEPT !.claim = token(m), !.stale = FALSE] IN
                 b \in MailRow /\ b.state = box[m].state /\ b.claim = token(m) /\ ~b.stale
      BY <1>1, <1>4, RowUpdates
    <2>2. S \subseteq Messages
      BY <1>5
    <2>3. box' = [m \in Messages |-> IF m \in S
                     THEN [box[m] EXCEPT !.claim = token(m), !.stale = FALSE] ELSE box[m]]
      BY <1>2
    <2> HIDE DEF S
    <2> QED
      BY <1>1, <2>1, <2>2, <2>3
  <1> HIDE DEF c
  <1>9. Mail!TypeOK'
    BY <1>1, <1>7, <1>8, MailTypes, MailTypesNext
  <1>10. Batches'
    <2>1. c # <<>>
      <3>1. c = <<>> => Len(c) = 0
        OBVIOUS
      <3> QED
        BY <1>3, <1>6, <3>1
    <2>2. ASSUME NEW i \in 1..n
          PROVE  c[i][2][1] = d /\ \A j \in 1..n : c[i][1] = c[j][1] => i = j
      <3>1. c[i] = <<order[i], token(order[i])>>
        BY <1>6
      <3>2. c[i][1] = order[i] /\ c[i][2] = token(order[i])
        BY <3>1
      <3>3. c[i][2][1] = d
        BY <1>5, <1>t, <3>2
      <3>4. ASSUME NEW j \in 1..n, c[i][1] = c[j][1] PROVE i = j
        BY <1>6, <1>o, <3>2, <3>4
      <3> QED
        BY <3>3, <3>4
    <2> QED
      BY <1>1, <1>6, <1>7, <2>1, <2>2 DEF Batches, Mail!Current
  <1>11. ASSUME NEW m \in Messages \ excuse' PROVE Undisturbed(m)'
    <2>1. Undisturbed(m)
      BY <1>1, <1>11
    <2>2. CASE m \in S
      <3>1. Mail!claimable(m)
        BY <1>5, <2>2
      <3>2. ASSUME NEW e \in Deliverers, NEW i \in 1..Len(proc[e].claims)
            PROVE  proc[e].claims[i][1] # m
        <4>1. proc[e].claims[i][2] \in Claims /\ Mail!None \notin Claims
          <5>1. proc[e].claims[i] \in Messages \X Claims
            BY <1>1 DEF ProcRow
          <5>2. proc[e].claims[i][2] \in Claims
            BY <5>1
          <5>3. \A x \in Claims : x # Mail!None
            BY DEF Claims, Mail!None
          <5> QED
            BY <5>2, <5>3
        <4> QED
          BY <2>1, <3>1, <4>1 DEF Undisturbed, Mail!claimable
      <3>3. ~(accepted[m] > 0)
        BY <1>1, <2>1, <3>1, <3>2, NobodyRecords DEF Mail!claimable
      <3>4. ASSUME NEW e \in Deliverers, NEW i \in 1..Len(proc'[e].claims), proc'[e].claims[i][1] = m
            PROVE  e = d /\ proc'[e].claims[i][2] = token(m)
        <4>1. e = d
          BY <1>7, <3>2, <3>4
        <4>2. i \in 1..n /\ proc'[e].claims[i] = <<order[i], token(order[i])>>
          BY <1>6, <1>7, <3>4, <4>1
        <4> QED
          BY <3>4, <4>1, <4>2
      <3> QED
        BY <1>1, <1>8, <2>2, <3>1, <3>3, <3>4 DEF Undisturbed, Mail!claimable
    <2>3. CASE m \notin S
      <3>1. ASSUME NEW e \in Deliverers, NEW i \in 1..Len(proc'[e].claims), proc'[e].claims[i][1] = m
            PROVE  e # d
        BY <1>6, <1>7, <2>3, <3>1
      <3>2. \A e \in Deliverers : Recording(e, m) => Recording(e, m)'
        BY <1>1, <1>7 DEF Recording, Mail!Current
      <3> QED
        BY <1>1, <1>7, <1>8, <2>1, <2>3, <3>1, <3>2, UndisturbedFrame
    <2> QED
      BY <2>2, <2>3
  <1>12. Mail!SentWasAccepted'
    BY <1>1, <1>8 DEF MailInv, Mail!SentWasAccepted
  <1> QED
    BY <1>9, <1>10, <1>11, <1>12 DEF MailInv

\* A deliverer moves within its current claim: its batch stays.
LEMMA WithinClaim ==
  ASSUME proc \in [Deliverers -> ProcRow], NEW d \in Deliverers,
         \/ \E k \in 0..MaxSends : proc' = [proc EXCEPT ![d].pc = "sending", ![d].attempt = k]
         \/ \E o \in {"ok", "error"} : proc' = [proc EXCEPT ![d].pc = "answered", ![d].outcome = o]
  PROVE  /\ proc' \in [Deliverers -> ProcRow] /\ proc'[d].claims = proc[d].claims
         /\ proc'[d].pc \in {"sending", "answered"}
         /\ \A e \in Deliverers \ {d} : proc'[e] = proc[e]
  <1>1. CASE \E k \in 0..MaxSends : proc' = [proc EXCEPT ![d].pc = "sending", ![d].attempt = k]
    <2>1. PICK k \in 0..MaxSends : proc' = [proc EXCEPT ![d].pc = "sending", ![d].attempt = k]
      BY <1>1
    <2> DEFINE a == [proc[d] EXCEPT !.pc = "sending"]
               b == [a EXCEPT !.attempt = k]
    <2>2. a \in ProcRow /\ a.pc = "sending" /\ a.claims = proc[d].claims
      BY DEF ProcRow
    <2>3. proc' = [proc EXCEPT ![d] = b]
      BY <2>1 DEF ProcRow
    <2> HIDE DEF a
    <2>4. b \in ProcRow /\ b.pc = "sending" /\ b.claims = proc[d].claims
      BY <2>2 DEF ProcRow
    <2> HIDE DEF b
    <2> QED
      BY <2>3, <2>4
  <1>2. CASE \E o \in {"ok", "error"} :
               proc' = [proc EXCEPT ![d].pc = "answered", ![d].outcome = o]
    <2>1. PICK o \in {"ok", "error"} : proc' = [proc EXCEPT ![d].pc = "answered", ![d].outcome = o]
      BY <1>2
    <2> DEFINE a == [proc[d] EXCEPT !.pc = "answered"]
               b == [a EXCEPT !.outcome = o]
    <2>0. proc[d] \in ProcRow
      OBVIOUS
    <2>2. a \in ProcRow /\ a.pc = "answered" /\ a.claims = proc[d].claims
      BY <2>0 DEF ProcRow
    <2>3. proc' = [proc EXCEPT ![d] = b]
      BY <2>1 DEF ProcRow
    <2> HIDE DEF a
    <2>4. b \in ProcRow /\ b.pc = "answered" /\ b.claims = proc[d].claims
      BY <2>2 DEF ProcRow
    <2> HIDE DEF b
    <2> QED
      BY <2>3, <2>4
  <1> QED
    BY <1>1, <1>2

\* The attempt is counted before the send.
LEMMA MailBegin ==
  ASSUME MailInv, NEW d \in Deliverers, Mail!BeginAttempt(d), Mail!holds(d)
  PROVE  MailInv'
  <1>1. /\ Mail!TypeOK /\ Batches /\ box \in [Messages -> MailRow]
        /\ proc \in [Deliverers -> ProcRow] /\ proc[d].pc = "next"
        /\ UNCHANGED <<accepted, excuse>> /\ \A x \in Messages \ excuse : Undisturbed(x)
    BY MailTypes DEF MailInv, Mail!BeginAttempt
  <1>m. PICK m \in Messages : m = Mail!Current(d)
    BY <1>1, CurrentClaim
  <1>2. /\ box[m].attempts < MaxSends /\ box' = [box EXCEPT ![m].attempts = @ + 1]
        /\ proc' = [proc EXCEPT ![d].pc = "sending", ![d].attempt = box[m].attempts + 1]
    BY <1>m DEF Mail!BeginAttempt
  <1>3. box[m].attempts + 1 \in 0..MaxSends
    BY <1>1, <1>2, OutboxAssumption DEF MailRow
  <1>4. /\ box' \in [Messages -> MailRow]
        /\ \A x \in Messages : box'[x].state = box[x].state /\ box'[x].claim = box[x].claim
                               /\ box'[x].stale = box[x].stale
    BY <1>1, <1>2, <1>3 DEF MailRow
  <1>5. /\ proc' \in [Deliverers -> ProcRow] /\ proc'[d].claims = proc[d].claims
        /\ \A e \in Deliverers \ {d} : proc'[e] = proc[e]
    BY <1>1, <1>2, <1>3, WithinClaim
  <1>6. proc'[d].pc = "sending"
    BY <1>1, <1>2 DEF ProcRow
  <1>7. Mail!TypeOK'
    BY <1>1, <1>4, <1>5, MailTypes, MailTypesNext
  <1>8. Batches'
    BY <1>1, <1>5, <1>6 DEF Batches, Mail!Current
  <1>9. ASSUME NEW x \in Messages \ excuse' PROVE Undisturbed(x)'
    <2>1. Undisturbed(x)
      BY <1>1, <1>9
    <2>2. \A e \in Deliverers : Recording(e, x) => Recording(e, x)'
      BY <1>1, <1>5 DEF Recording, Mail!Current
    <2>3. \A e \in Deliverers : proc'[e].claims = proc[e].claims
      BY <1>5
    <2> QED
      BY <1>1, <1>4, <2>1, <2>2, <2>3, UndisturbedFrame
  <1>10. Mail!SentWasAccepted'
    BY <1>1, <1>4 DEF MailInv, Mail!SentWasAccepted
  <1> QED
    BY <1>7, <1>8, <1>9, <1>10 DEF MailInv

\* The relay takes a message that nobody else sends, or the loss of its answer is an excuse.
LEMMA MailSend ==
  ASSUME MailInv, NEW d \in Deliverers, NEW taken \in BOOLEAN, NEW outcome \in {"ok", "error"},
         Mail!send(d, taken, outcome)
  PROVE  MailInv'
  <1>1. /\ Mail!TypeOK /\ Batches /\ accepted \in [Messages -> 0..MaxSends]
        /\ proc \in [Deliverers -> ProcRow] /\ proc[d].pc = "sending"
        /\ UNCHANGED box /\ \A x \in Messages \ excuse : Undisturbed(x)
    BY MailTypes DEF MailInv, Mail!send
  <1>m. PICK m \in Messages : m = Mail!Current(d)
    BY <1>1, CurrentClaim
  <1>2. /\ accepted[m] < MaxSends /\ (outcome = "ok" => taken)
        /\ accepted' = IF taken THEN [accepted EXCEPT ![m] = @ + 1] ELSE accepted
        /\ excuse' = IF taken /\ outcome = "error" THEN excuse \cup {m} ELSE excuse
        /\ proc' = [proc EXCEPT ![d].pc = "answered", ![d].outcome = outcome]
    BY <1>m, Zenon DEF Mail!send
  <1>3. /\ proc' \in [Deliverers -> ProcRow] /\ proc'[d].claims = proc[d].claims
        /\ \A e \in Deliverers \ {d} : proc'[e] = proc[e]
    BY <1>1, <1>2, WithinClaim
  <1>4. proc'[d].pc = "answered" /\ proc'[d].outcome = outcome
    BY <1>1, <1>2 DEF ProcRow
  <1>5. /\ accepted' \in [Messages -> 0..MaxSends] /\ excuse \subseteq excuse'
        /\ accepted'[m] = IF taken THEN accepted[m] + 1 ELSE accepted[m]
        /\ \A x \in Messages \ {m} : accepted'[x] = accepted[x]
    BY <1>1, <1>2, OutboxAssumption
  <1>6. \A x \in Messages : /\ accepted[x] \in Nat /\ accepted'[x] \in Nat
                            /\ accepted'[x] >= accepted[x]
    BY <1>1, <1>5, OutboxAssumption
  <1>7. Mail!TypeOK'
    BY <1>1, <1>3, <1>5, MailTypes, MailTypesNext
  <1>8. \A e \in Deliverers : /\ proc'[e].claims = proc[e].claims
                              /\ proc[e].pc # "idle" => Mail!Current(e)' = Mail!Current(e)
    BY <1>3 DEF Mail!Current
  <1>9. Batches'
    <2>1. ASSUME outcome = "ok" PROVE accepted'[Mail!Current(d)'] > 0
      <3>1. taken /\ Mail!Current(d)' = m
        BY <1>1, <1>2, <1>m, <1>8, <2>1
      <3> QED
        BY <1>5, <1>6, <3>1
    <2>2. ASSUME NEW e \in Deliverers \ {d}, proc[e].pc = "answered", proc[e].outcome = "ok"
          PROVE  accepted'[Mail!Current(e)'] > 0
      <3>1. accepted[Mail!Current(e)] > 0 /\ Mail!Current(e) \in Messages
        BY <1>1, <2>2, CurrentClaim DEF Batches
      <3>2. Mail!Current(e)' = Mail!Current(e)
        BY <1>8, <2>2
      <3>3. accepted'[Mail!Current(e)] > 0
        BY <1>6, <3>1
      <3> QED
        BY <3>2, <3>3
    <2> QED
      BY <1>1, <1>3, <1>4, <1>8, <2>1, <2>2 DEF Batches
  <1>10. ASSUME NEW x \in Messages \ excuse' PROVE Undisturbed(x)'
    <2>1. Undisturbed(x)
      BY <1>1, <1>5, <1>10
    <2>2. CASE x = m /\ taken
      <3>1. outcome = "ok"
        BY <1>2, <1>10, <2>2
      <3>2. box[m].state = "pending"
        BY <1>1, <1>m, <2>1, <2>2, ClaimHeld
      <3>3. ASSUME NEW e \in Deliverers, Recording(e, m) PROVE FALSE
        <4>1. e = d
          BY <1>1, <1>m, <2>1, <2>2, <3>3, CurrentClaim, SoleHolder DEF Recording
        <4> QED
          BY <1>1, <3>3, <4>1 DEF Recording
      <3>4. accepted[m] = 0
        BY <1>6, <2>1, <2>2, <3>2, <3>3 DEF Undisturbed
      <3>5. Recording(d, m)'
        BY <1>1, <1>4, <1>8, <1>m, <3>1 DEF Recording
      <3>6. accepted'[m] = 1
        BY <1>5, <2>2, <3>4
      <3> QED
        BY <1>1, <1>8, <2>1, <2>2, <3>5, <3>6 DEF Undisturbed
    <2>3. CASE ~(x = m /\ taken)
      <3>1. accepted'[x] = accepted[x]
        BY <1>5, <2>3
      <3>2. \A e \in Deliverers : Recording(e, x) => Recording(e, x)'
        BY <1>1, <1>3, <1>8 DEF Recording
      <3> QED
        BY <1>1, <1>8, <2>1, <3>1, <3>2, UndisturbedFrame
    <2> QED
      BY <2>2, <2>3
  <1>11. Mail!SentWasAccepted'
    BY <1>1, <1>6 DEF MailInv, Mail!SentWasAccepted
  <1> QED
    BY <1>7, <1>9, <1>10, <1>11 DEF MailInv

\* The deliverer goes on to its next claim, after it wrote what became of the current one.
LEMMA MailNextClaim ==
  ASSUME MailInv, NEW d \in Deliverers, proc[d].pc # "idle", UNCHANGED <<accepted, excuse>>,
         proc' = [proc EXCEPT ![d] = Mail!Rest(d)], NEW m \in Messages, m = Mail!Current(d),
         \/ ~Mail!holds(d) /\ box' = box
         \/ \E n \in MailRow : /\ box' = [box EXCEPT ![m] = n]
                               /\ n.state = "sent" => accepted[m] > 0
                               /\ accepted[m] > 0 /\ m \notin excuse => n.state = "sent"
  PROVE  MailInv'
  <1>1. /\ Mail!TypeOK /\ Batches /\ box \in [Messages -> MailRow]
        /\ proc \in [Deliverers -> ProcRow] /\ accepted \in [Messages -> 0..MaxSends]
        /\ \A x \in Messages \ excuse : Undisturbed(x)
    BY MailTypes DEF MailInv
  <1>2. proc[d].claims # <<>> /\ 1 \in 1..Len(proc[d].claims) /\ m = proc[d].claims[1][1]
        /\ Len(proc[d].claims) \in Nat
    BY <1>1, CurrentClaim DEF ProcRow
  <1> DEFINE c == proc[d].claims
             r == Mail!Rest(d)
  <1>3. /\ r \in ProcRow /\ r.pc \in {"idle", "next"} /\ Len(r.claims) = Len(c) - 1
        /\ r.pc = "idle" <=> r.claims = <<>>
        /\ \A i \in 1..Len(r.claims) : i + 1 \in 1..Len(c) /\ r.claims[i] = c[i + 1]
    BY <1>1, <1>2, RestOfBatch
  <1>4. proc' \in [Deliverers -> ProcRow] /\ proc'[d] = r
        /\ \A e \in Deliverers \ {d} : proc'[e] = proc[e]
    BY <1>1, <1>3
  <1> HIDE DEF r
  <1>5. /\ box' \in [Messages -> MailRow] /\ \A x \in Messages \ {m} : box'[x] = box[x]
        /\ box'[m].state = "sent" => accepted[m] > 0
    BY <1>1 DEF MailInv, Mail!SentWasAccepted
  <1>6. Mail!TypeOK'
    BY <1>1, <1>4, <1>5, MailTypes, MailTypesNext
  <1>7. Mail!SentWasAccepted'
    BY <1>5 DEF MailInv, Mail!SentWasAccepted
  <1>8. ASSUME NEW i \in 1..Len(r.claims) PROVE r.claims[i][1] # m
    <2>1. i + 1 \in 1..Len(c) /\ r.claims[i] = c[i + 1] /\ i + 1 # 1
      BY <1>3
    <2> QED
      BY <1>1, <1>2, <2>1 DEF Batches
  <1>9. Batches'
    <2>1. ASSUME NEW i \in 1..Len(r.claims)
          PROVE  r.claims[i][2][1] = d /\ \A j \in 1..Len(r.claims) :
                                             r.claims[i][1] = r.claims[j][1] => i = j
      <3>1. i + 1 \in 1..Len(c) /\ r.claims[i] = c[i + 1]
        BY <1>3
      <3>2. r.claims[i][2][1] = d
        BY <1>1, <3>1 DEF Batches
      <3>3. ASSUME NEW j \in 1..Len(r.claims), r.claims[i][1] = r.claims[j][1] PROVE i = j
        <4>1. j + 1 \in 1..Len(c) /\ r.claims[j] = c[j + 1]
          BY <1>3
        <4>2. i + 1 = j + 1
          BY <1>1, <3>1, <3>3, <4>1 DEF Batches
        <4> QED
          BY <4>2
      <3> QED
        BY <3>2, <3>3
    <2> QED
      BY <1>1, <1>3, <1>4, <2>1 DEF Batches, Mail!Current
  <1>10. ASSUME NEW x \in Messages \ excuse' PROVE Undisturbed(x)'
    <2>1. Undisturbed(x)
      BY <1>1, <1>10
    <2>2. CASE x = m
      <3>1. Mail!holds(d)
        BY <1>1, <2>1, <2>2, ClaimHeld
      <3>2. ASSUME NEW e \in Deliverers, NEW i \in 1..Len(proc'[e].claims) PROVE proc'[e].claims[i][1] # m
        <4>1. CASE e = d
          BY <1>4, <1>8, <4>1
        <4>2. CASE e # d
          BY <1>1, <1>2, <1>4, <2>1, <2>2, <4>2, SoleHolder
        <4> QED
          BY <4>1, <4>2
      <3>3. accepted[m] > 0 => accepted[m] = 1 /\ box'[m].state = "sent"
        BY <1>1, <1>10, <2>1, <2>2, <3>1 DEF Undisturbed
      <3> QED
        BY <2>2, <3>2, <3>3 DEF Undisturbed
    <2>3. CASE x # m
      <3>1. ASSUME NEW e \in Deliverers, NEW i \in 1..Len(proc'[e].claims)
            PROVE  \E j \in 1..Len(proc[e].claims) : proc[e].claims[j] = proc'[e].claims[i]
        <4>1. CASE e = d
          BY <1>3, <1>4, <4>1
        <4>2. CASE e # d
          BY <1>4, <4>2
        <4> QED
          BY <4>1, <4>2
      <3>2. \A e \in Deliverers : Recording(e, x) => Recording(e, x)'
        BY <1>4, <2>3 DEF Recording, Mail!Current
      <3> QED
        BY <1>5, <2>1, <2>3, <3>1, <3>2, UndisturbedFrame
    <2> QED
      BY <2>2, <2>3
  <1> QED
    BY <1>6, <1>7, <1>9, <1>10 DEF MailInv

\* A claim that another process took over is skipped; an answer is recorded by who holds it.
LEMMA MailRecord ==
  ASSUME MailInv, NEW d \in Deliverers,
         (Mail!BeginAttempt(d) /\ ~Mail!holds(d)) \/ Mail!RecordFailure(d) \/ Mail!RecordSent(d)
  PROVE  MailInv'
  <1>1. /\ Mail!TypeOK /\ Batches /\ box \in [Messages -> MailRow] /\ proc[d].pc # "idle"
        /\ UNCHANGED <<accepted, excuse>> /\ proc' = [proc EXCEPT ![d] = Mail!Rest(d)]
    BY MailTypes DEF MailInv, Mail!BeginAttempt, Mail!RecordFailure, Mail!RecordSent
  <1>m. PICK m \in Messages : m = Mail!Current(d)
    BY <1>1, CurrentClaim
  <1>2. CASE ~Mail!holds(d)
    <2>1. box' = box
      BY <1>2 DEF Mail!BeginAttempt, Mail!RecordFailure, Mail!RecordSent
    <2> QED
      BY <1>1, <1>m, <1>2, <2>1, MailNextClaim
  <1>3. CASE Mail!holds(d) /\ Mail!RecordFailure(d)
    <2> DEFINE n == IF Mail!exhausted(proc[d].attempt)
                    THEN [box[m] EXCEPT !.state = "failed", !.claim = Mail!None, !.stale = FALSE]
                    ELSE [box[m] EXCEPT !.due = FALSE, !.claim = Mail!None, !.stale = FALSE]
    <2>1. box[m].state = "pending" /\ proc[d].outcome = "error"
      BY <1>m, <1>3 DEF Mail!holds, Mail!RecordFailure
    <2>2. box' = [box EXCEPT ![m] = n]
      BY <1>m, <1>3 DEF Mail!RecordFailure
    <2>3. n \in MailRow /\ n.state \in {"failed", "pending"}
      BY <1>1, <2>1, RowUpdates
    <2> HIDE DEF n
    <2>4. m \notin excuse => ~(accepted[m] > 0)
      <3> SUFFICES ASSUME m \notin excuse, accepted[m] > 0 PROVE FALSE
        OBVIOUS
      <3>1. Undisturbed(m)
        BY DEF MailInv
      <3>2. PICK e \in Deliverers : Recording(e, m)
        BY <2>1, <3>1 DEF Undisturbed
      <3>3. e = d
        BY <1>1, <1>m, <3>1, <3>2, CurrentClaim, SoleHolder DEF Recording
      <3> QED
        BY <2>1, <3>2, <3>3 DEF Recording
    <2> QED
      BY <1>1, <1>m, <2>2, <2>3, <2>4, MailNextClaim
  <1>4. CASE Mail!holds(d) /\ Mail!RecordSent(d)
    <2> DEFINE n == [box[m] EXCEPT !.state = "sent", !.claim = Mail!None, !.stale = FALSE]
    <2>1. box' = [box EXCEPT ![m] = n]
      BY <1>m, <1>4 DEF Mail!RecordSent
    <2>2. n \in MailRow /\ n.state = "sent"
      BY <1>1, RowUpdates
    <2> HIDE DEF n
    <2>3. accepted[m] > 0
      BY <1>1, <1>m, <1>4 DEF Batches, Mail!RecordSent
    <2> QED
      BY <1>1, <1>m, <2>1, <2>2, <2>3, MailNextClaim
  <1> QED
    BY <1>2, <1>3, <1>4

(* MailIsSafe: with any number of messages and deliverers, and any crashes *)
(* and timeouts, a message is marked sent only when the relay took it, and *)
(* the relay takes it twice only after a crash, a stale claim, a lost      *)
(* answer or an operator's retry (_claim_pending, deliver_pending).        *)
THEOREM MailIsSafe == Mail!Spec => []MailSafe
  <1>1. Mail!Init => MailInv
    <2> SUFFICES ASSUME Mail!Init PROVE MailInv
      OBVIOUS
    <2>1. /\ Mail!NoMessage \in MailRow /\ Mail!NoMessage.state = "absent"
          /\ Mail!Idle \in ProcRow /\ Mail!Idle.claims = <<>> /\ Mail!Idle.pc = "idle"
          /\ Len(Mail!Idle.claims) = 0
      BY OutboxAssumption DEF Mail!NoMessage, Mail!Idle, MailRow, ProcRow
    <2>2. /\ box = [m \in Messages |-> Mail!NoMessage] /\ proc = [d \in Deliverers |-> Mail!Idle]
          /\ accepted = [m \in Messages |-> 0]
      BY DEF Mail!Init
    <2>3. Mail!TypeOK
      BY <2>1, <2>2, MailTypes, OutboxAssumption
    <2> QED
      BY <2>1, <2>2, <2>3 DEF MailInv, Mail!SentWasAccepted, Batches, Undisturbed
  <1>2. MailInv /\ [Mail!Next]_Mail!vars => MailInv'
    <2>1. ASSUME MailInv, Mail!Next PROVE MailInv'
      BY <2>1, MailQueued, MailTime, MailCrash, MailClaim, MailBegin, MailSend, MailRecord, Zenon
         DEF Mail!Next, Mail!deliver_pending_with_metrics
    <2>2. ASSUME MailInv, UNCHANGED Mail!vars PROVE MailInv'
      BY <2>2 DEF Mail!vars, MailInv, Mail!TypeOK, Mail!SentWasAccepted, Batches, Undisturbed,
                  Recording, Mail!Current
    <2> QED
      BY <2>1, <2>2
  <1>3. MailInv => MailSafe
    <2> SUFFICES ASSUME MailInv PROVE MailSafe
      OBVIOUS
    <2>1. ASSUME NEW m \in Messages, accepted[m] > 1 PROVE m \in excuse
      <3>1. accepted[m] \in Nat
        BY MailTypes, OutboxAssumption DEF MailInv
      <3> QED
        BY <2>1, <3>1 DEF MailInv, Undisturbed
    <2> QED
      BY <2>1 DEF MailInv, MailSafe, Mail!Safety, Mail!SentOnce
  <1> QED
    BY <1>1, <1>2, <1>3, PTL DEF Mail!Spec
=============================================================================
