---------------------------- MODULE Credentials ----------------------------
(***************************************************************************)
(* The life of the two credentials of a trusted host: the installation's   *)
(* (`ieos auth`, packages/adapters/cli) and the harness service's          *)
(* (stage3-service-auth, tools/harness).                                   *)
(*                                                                         *)
(* A command writes a file and prints a statement; it never calls the      *)
(* Evidence Plane. The owner applies the statements: in whatever order, one*)
(* twice, one never. What authenticates is decided by the plane's row,     *)
(* what is presented is what the file holds.                               *)
(*                                                                         *)
(* A token is named by the command that minted it, and so is an identity.  *)
(* Tokens do not expire here.                                              *)
(***************************************************************************)
EXTENDS Naturals, FiniteSets, SequencesExt

CONSTANTS
    AuthCommand,   \* runs of either command line
    MaxApplied,    \* bound on how often the owner applies a statement
    None

Principal == {"installation", "service"}   \* the kinds, each with a file of its own
Verb      == {"enroll", "rotate", "revoke"}

ASSUME NoneIsApart == None \notin AuthCommand \union Principal \union Verb

VARIABLES
    credential,  \* the file of each kind
    auth,        \* what each command is at, and what it was asked
    printed,     \* the statements of each kind, in the order they were printed
    applied,     \* the ones the owner applied, in that order
    principals,  \* the plane's rows, by identity
    stored,      \* history: tokens that were once whole in a file
    tidy,        \* history: of this kind, commands did not overlap, none died or was given
                 \* an identity, no file was lost, and statements were applied as printed
    sole         \* history: the last command, if no other ran since it was typed
credentialVars == <<credential, auth, printed, applied, principals, stored, tidy, sole>>

NoFile   == [is |-> "absent", id |-> None, token |-> None]
TornFile == [is |-> "torn", id |-> None, token |-> None]
File(id, token) == [is |-> "whole", id |-> id, token |-> token]

NoRow == [kind |-> None, token |-> None, revoked |-> FALSE]
Row(kind, token) == [kind |-> kind, token |-> token, revoked |-> FALSE]

Statement(verb, kind, id, token) == [verb |-> verb, kind |-> kind, id |-> id, token |-> token]

CredentialsInit ==
    /\ credential = [k \in Principal |-> NoFile]
    /\ auth = [p \in AuthCommand |->
                 [at |-> "none", verb |-> None, kind |-> None, given |-> None, id |-> None]]
    /\ printed = [k \in Principal |-> <<>>]
    /\ applied = [k \in Principal |-> <<>>]
    /\ principals = [id \in AuthCommand |-> NoRow]
    /\ stored = {}
    /\ tidy = [k \in Principal |-> TRUE]
    /\ sole = None

Busy(p) == auth[p].at \in {"typed", "write", "print", "remove"}

\* Identities the owner may pass with --installation or --service.
Known(kind) == {s.id : s \in Range(printed[kind])}

Type(p, verb, kind, given) ==
    /\ auth[p].at = "none"
    /\ auth' = [auth EXCEPT ![p] = [at |-> "typed", verb |-> verb, kind |-> kind,
                                    given |-> given, id |-> None]]
    /\ LET overlaps == \E q \in AuthCommand : Busy(q) /\ auth[q].kind = kind IN
       /\ sole' = IF \E q \in AuthCommand : Busy(q) THEN None ELSE p
       /\ tidy' = [tidy EXCEPT ![kind] = @ /\ ~overlaps /\ given = None]
    /\ UNCHANGED <<credential, printed, applied, principals, stored>>

\* A wrong ReadId: the identity is looked for where the file is not.
ReadNobody(kind) == None

\* readInstallationId, readServiceId: a file that cannot be read names nobody.
ReadId(kind) == IF credential[kind].is = "whole" THEN credential[kind].id ELSE None

\* Enrolment does not look at the service's file for an identity, there must be none.
KnownId(p) ==
    IF auth[p].given # None THEN auth[p].given
    ELSE IF auth[p].kind = "service" /\ auth[p].verb = "enroll" THEN None
    ELSE ReadId(auth[p].kind)

\* The service's rotate and revoke need an identity; every other command mints one.
Refused(p) ==
    \/ auth[p].verb = "enroll" /\ credential[auth[p].kind].is # "absent"
    \/ auth[p].kind = "service" /\ auth[p].verb # "enroll" /\ KnownId(p) = None

\* Exit 4.
RefuseAuth(p) ==
    /\ auth[p].at = "typed" /\ Refused(p)
    /\ auth' = [auth EXCEPT ![p].at = "refused"]
    /\ UNCHANGED <<credential, printed, applied, principals, stored, tidy, sole>>

First(verb) == IF verb = "revoke" THEN "print" ELSE "write"

Identify(p) ==
    /\ auth[p].at = "typed" /\ ~Refused(p)
    /\ auth' = [auth EXCEPT ![p].id = IF KnownId(p) = None THEN p ELSE KnownId(p),
                            ![p].at = First(auth[p].verb)]
    /\ UNCHANGED <<credential, printed, applied, principals, stored, tidy, sole>>

WriteCredential(p) ==
    /\ auth[p].at = "write"
    /\ credential' = [credential EXCEPT ![auth[p].kind] = File(auth[p].id, p)]
    /\ stored' = stored \union {p}
    /\ auth' = [auth EXCEPT ![p].at = "print"]
    /\ UNCHANGED <<printed, applied, principals, tidy, sole>>

Printed(p) == Statement(auth[p].verb, auth[p].kind, auth[p].id,
                        IF auth[p].verb = "revoke" THEN None ELSE p)

PrintStatement(p) ==
    /\ auth[p].at = "print"
    /\ printed' = [printed EXCEPT ![auth[p].kind] = Append(@, Printed(p))]
    /\ auth' = [auth EXCEPT ![p].at = IF auth[p].verb = "revoke" THEN "remove" ELSE "done"]
    /\ UNCHANGED <<credential, applied, principals, stored, tidy, sole>>

RemoveCredential(p) ==
    /\ auth[p].at = "remove"
    /\ credential' = [credential EXCEPT ![auth[p].kind] = NoFile]
    /\ auth' = [auth EXCEPT ![p].at = "done"]
    /\ UNCHANGED <<printed, applied, principals, stored, tidy, sole>>

AuthDies(p) ==
    /\ Busy(p)
    /\ auth' = [auth EXCEPT ![p].at = "dead"]
    /\ tidy' = [tidy EXCEPT ![auth[p].kind] = FALSE]
    /\ \/ credential' = credential
       \/ /\ auth[p].at = "write"
          /\ credential' = [credential EXCEPT ![auth[p].kind] = TornFile]
    /\ UNCHANGED <<printed, applied, principals, stored, sole>>

\* A machine is replaced, a directory cleaned.
LoseCredential(kind) ==
    /\ credential[kind].is # "absent"
    /\ credential' = [credential EXCEPT ![kind] = NoFile]
    /\ tidy' = [tidy EXCEPT ![kind] = FALSE]
    /\ sole' = None
    /\ UNCHANGED <<auth, printed, applied, principals, stored>>

----------------------------------------------------------------------------
(***************************************************************************)
(* The owner, at the plane: the rows a statement leaves. One whose key is  *)
(* taken, or whose `where` finds no row, leaves them as they are. No two   *)
(* statements share a token, so the constraint on token_hash never bites.  *)
(***************************************************************************)
EnrolmentStatement(s) ==
    IF principals[s.id] # NoRow THEN principals
    ELSE [principals EXCEPT ![s.id] = Row(s.kind, s.token)]

\* A wrong rotation: a revoked principal stays so.
RotationKeepingRevoked(s) ==
    IF principals[s.id].kind # s.kind THEN principals
    ELSE [principals EXCEPT ![s.id].token = s.token]

RotationStatement(s) ==
    IF principals[s.id].kind # s.kind THEN principals
    ELSE [principals EXCEPT ![s.id].token = s.token, ![s.id].revoked = FALSE]

\* The installation's names no kind: the ids of the two are apart.
RevocationStatement(s) ==
    IF principals[s.id] = NoRow \/ principals[s.id].revoked THEN principals
    ELSE [principals EXCEPT ![s.id].revoked = TRUE]

Times(s) == Cardinality({i \in 1 .. Len(applied[s.kind]) : applied[s.kind][i] = s})

Apply(s) ==
    /\ Times(s) < MaxApplied
    /\ applied' = [applied EXCEPT ![s.kind] = Append(@, s)]
    /\ principals' = CASE s.verb = "enroll" -> EnrolmentStatement(s)
                       [] s.verb = "rotate" -> RotationStatement(s)
                       [] s.verb = "revoke" -> RevocationStatement(s)
    /\ tidy' = [tidy EXCEPT ![s.kind] = @ /\ IsPrefix(applied'[s.kind], printed[s.kind])]
    /\ UNCHANGED <<credential, auth, printed, stored, sole>>

AuthStep(p) ==
    \/ \E verb \in Verb, kind \in Principal : \E given \in Known(kind) \union {None} :
           Type(p, verb, kind, given)
    \/ RefuseAuth(p) \/ Identify(p) \/ WriteCredential(p) \/ PrintStatement(p)
    \/ RemoveCredential(p) \/ AuthDies(p)

CredentialsNext ==
    \/ \E p \in AuthCommand : AuthStep(p)
    \/ \E kind \in Principal : LoseCredential(kind)
    \/ \E kind \in Principal : \E s \in Range(printed[kind]) : Apply(s)

CredentialsSpec == CredentialsInit /\ [][CredentialsNext]_credentialVars

----------------------------------------------------------------------------
\* ieos_principal: the row of a kind that holds a token's hash, and is not revoked.
Live(kind) == {i \in AuthCommand : principals[i].kind = kind /\ ~principals[i].revoked}

Authenticates(kind, token) == \E i \in Live(kind) : principals[i].token = token

CredentialsTypeOK ==
    /\ \A k \in Principal :
         \/ credential[k] \in {NoFile, TornFile}
         \/ /\ credential[k].is = "whole"
            /\ credential[k].id \in AuthCommand /\ credential[k].token \in AuthCommand
    /\ \A k \in Principal :
         /\ \A s \in Range(printed[k]) : s.verb \in Verb /\ s.kind = k /\ s.id \in AuthCommand
         /\ Range(applied[k]) \subseteq Range(printed[k])
    /\ \A i \in AuthCommand : principals[i].kind \in Principal \union {None}

\* A statement that puts a token's hash into the plane is printed only after that token
\* was whole in the credential file: a command that dies leaves a machine that must rotate
\* again, never a principal whose token nobody has.
TokensWereStored ==
    \A k \in Principal : \A s \in Range(printed[k]) : s.verb # "revoke" => s.token \in stored

\* Commands typed one at a time and statements applied in the order they were printed keep
\* the file and the plane in step: once all are applied, the token in the file is the one
\* that authenticates, and when `revoke` has removed the file none does. The installation's
\* `rotate` without a file is excepted: it mints an identity no row has.
TidyIsInStep ==
    \A kind \in Principal :
        (/\ tidy[kind] /\ ~\E p \in AuthCommand : Busy(p) /\ auth[p].kind = kind
         /\ applied[kind] = printed[kind]) =>
            LET file == credential[kind]
                live == {principals[i].token : i \in Live(kind)} IN
            /\ file.is = "absent" => live = {}
            /\ (file.is = "whole" /\ auth[file.id].verb = "enroll") => live = {file.token}
            /\ (file.is = "whole" /\ kind = "service") => auth[file.id].verb = "enroll"

\* Whatever was torn, overlapped, lost, revoked or applied out of order before, a `rotate`
\* that runs alone, of an identity the plane has, and whose statement is the last of its
\* kind applied, leaves a file whose token authenticates.
RotationRepairs ==
    \A p \in AuthCommand :
        (/\ sole = p /\ auth[p].at = "done" /\ auth[p].verb = "rotate"
         /\ applied[auth[p].kind] # <<>> /\ Last(applied[auth[p].kind]).token = p
         /\ principals[auth[p].id].kind = auth[p].kind) =>
            /\ credential[auth[p].kind] = File(auth[p].id, p)
            /\ Authenticates(auth[p].kind, p)
=============================================================================
