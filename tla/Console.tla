------------------------------ MODULE Console ------------------------------
(***************************************************************************)
(* Console sessions of the rum kernel: kernel/process/session.c.           *)
(*                                                                         *)
(* A console session groups the processes that descend from one root       *)
(* process (the shell, or a program started by the recovery shell).  At    *)
(* most one session is active, and in it at most one process owns the      *)
(* keyboard.  A process launched in the foreground takes the ownership     *)
(* from its launcher and remembers it (restore); when the owner exits, the *)
(* ownership returns along those links.  The links are counted pointers    *)
(* into a table of process records that is reused, so the counts decide    *)
(* when a record may be reclaimed.                                         *)
(*                                                                         *)
(* All operations run with interrupts disabled, hence one action each.     *)
(* A Member is a process record's embedded console_member; a Session is an *)
(* entry of the static pool.  NoMember and NoSession are the null pointers.*)
(***************************************************************************)
EXTENDS Integers, FiniteSets

CONSTANTS Member, Session, NoMember, NoSession

(* The pool and the table of members are finite arrays. *)
ASSUME MemberAssumption == IsFiniteSet(Member) /\ NoMember \notin Member
(* One session per process record is enough: a session in use always holds *)
(* at least one record (session.c:5-6).                                    *)
ASSUME SessionAssumption ==
  /\ IsFiniteSet(Session)
  /\ NoSession \notin Session
  /\ Cardinality(Session) >= Cardinality(Member)

VARIABLES
  \* struct console_member
  session, restore, references, live, cancelled, shell, command,
  \* struct console_session
  sessionRefs, closing, exitRequested, root, owner, members,
  \* the session that has the keyboard
  active

memberVars == <<session, restore, references, live, cancelled, shell, command>>
sessionVars == <<sessionRefs, closing, exitRequested, root, owner, members>>
consoleVars == <<session, restore, references, live, cancelled, shell, command,
                 sessionRefs, closing, exitRequested, root, owner, members, active>>

AnyMember == Member \cup {NoMember}
AnySession == Session \cup {NoSession}

(* All structures start zeroed. *)
ConsoleInit ==
  /\ session = [m \in Member |-> NoSession]
  /\ restore = [m \in Member |-> NoMember]
  /\ references = [m \in Member |-> 0]
  /\ live = [m \in Member |-> FALSE]
  /\ cancelled = [m \in Member |-> FALSE]
  /\ shell = [m \in Member |-> FALSE]
  /\ command = [m \in Member |-> FALSE]
  /\ sessionRefs = [s \in Session |-> 0]
  /\ closing = [s \in Session |-> FALSE]
  /\ exitRequested = [s \in Session |-> FALSE]
  /\ root = [s \in Session |-> NoMember]
  /\ owner = [s \in Session |-> NoMember]
  /\ members = [s \in Session |-> {}]
  /\ active = NoSession

-----------------------------------------------------------------------------
(* Who may do what. *)

Bit(b) == IF b THEN 1 ELSE 0

(* The number of pointers to m that the members of a set hold. *)
PointersFrom(C, f, m) == Cardinality({x \in C : f[x] = m})

(* Mutant: every session but the one with the console counts as free. *)
AvailableWhileClosing(s) == s # active

(* Mutant: a new session waits until every closed one is cleaned up. *)
AvailableAfterCleanup(s) == sessionRefs[s] = 0 /\ \A other \in Session : ~closing[other]

Available(s) == sessionRefs[s] = 0

Owns(m) ==
  /\ live[m] /\ ~cancelled[m]
  /\ session[m] # NoSession
  /\ session[m] = active
  /\ ~closing[active]
  /\ owner[active] = m

IsShell(m) ==
  /\ live[m] /\ shell[m]
  /\ session[m] # NoSession
  /\ ~closing[session[m]]
  /\ root[session[m]] = m

(* Mutant: a process in the background may launch in the foreground. *)
CanLaunchFromBackground(parent, foreground) ==
  IF parent = NoMember
  THEN foreground => active = NoSession /\ \E s \in Session : Available(s)
  ELSE /\ live[parent] /\ ~cancelled[parent]
       /\ foreground => session[parent] # NoSession
       /\ session[parent] # NoSession =>
            ~closing[session[parent]] /\ members[session[parent]] # Member

(* Mutant: neither cancellation nor closing stops a background launch. *)
CanLaunchWhenCancelled(parent, foreground) ==
  IF parent = NoMember
  THEN foreground => active = NoSession /\ \E s \in Session : Available(s)
  ELSE /\ live[parent]
       /\ foreground => Owns(parent)
       /\ session[parent] # NoSession => members[session[parent]] # Member

(* parent = NoMember stands for trusted kernel code.  The member array of a *)
(* session has one entry per process record, so it is full only when every  *)
(* record is a member.                                                      *)
CanLaunch(parent, foreground) ==
  IF parent = NoMember
  THEN foreground => active = NoSession /\ \E s \in Session : Available(s)
  ELSE /\ live[parent] /\ ~cancelled[parent]
       /\ foreground => Owns(parent)
       /\ session[parent] # NoSession =>
            /\ ~closing[session[parent]]
            /\ members[session[parent]] # Member

(* The shell that a command launched by it may control. *)
CommandShell(m) ==
  IF /\ Owns(m) /\ command[m]
     /\ root[active] # NoMember
     /\ IsShell(root[active])
     /\ restore[m] = root[active]
  THEN root[active] ELSE NoMember

(* Mutant: Ctrl+C at the prompt cancels the shell. *)
CancellationTargetAny ==
  IF active # NoSession /\ ~closing[active] THEN owner[active] ELSE NoMember

(* The process that Ctrl+C cancels: the owner, unless it is a shell. *)
CancellationTarget ==
  IF /\ active # NoSession
     /\ ~closing[active]
     /\ owner[active] # NoMember
     /\ live[owner[active]] /\ ~shell[owner[active]]
  THEN owner[active] ELSE NoMember

SameSession(m, n) == session[m] # NoSession /\ session[m] = session[n]

IsRoot(m) == session[m] # NoSession /\ root[session[m]] = m

-----------------------------------------------------------------------------
(* Operations. *)

(* Mutant: an occupied record is handed out again. *)
UnattachedUnchecked(m) == m \in Member

(* console_attach accepts a zeroed record only. *)
Unattached(m) == ~live[m] /\ session[m] = NoSession /\ references[m] = 0

(* console_attach, followed in the same critical section by console_mark_shell *)
(* when the process is to be a shell.  s is the parent's session; the kernel's *)
(* foreground launch takes a free one (the code takes the first) and makes it  *)
(* active; its background launch has none.                                     *)
Attach(m, parent, foreground, sh) ==
  /\ Unattached(m)
  /\ CanLaunch(parent, foreground)
  /\ sh => foreground /\ parent = NoMember
  /\ live' = [live EXCEPT ![m] = TRUE]
  /\ cancelled' = [cancelled EXCEPT ![m] = FALSE]
  /\ shell' = [shell EXCEPT ![m] = sh]
  /\ command' = [command EXCEPT ![m] = FALSE]
  /\ restore' = [restore EXCEPT ![m] = IF foreground THEN parent ELSE NoMember]
  /\ UNCHANGED <<closing, exitRequested>>
  /\ \E s \in AnySession :
       /\ IF parent # NoMember THEN s = session[parent]
          ELSE IF foreground THEN s \in Session /\ Available(s) ELSE s = NoSession
       /\ session' = [session EXCEPT ![m] = s]
       /\ members' = IF s = NoSession THEN members ELSE [members EXCEPT ![s] = @ \cup {m}]
       /\ LET isRoot == foreground /\ parent = NoMember IN
          /\ active' = IF isRoot THEN s ELSE active
          /\ root' = IF isRoot THEN [root EXCEPT ![s] = m] ELSE root
          /\ owner' = IF foreground THEN [owner EXCEPT ![s] = m] ELSE owner
          /\ sessionRefs' = IF s = NoSession THEN sessionRefs
                            ELSE [sessionRefs EXCEPT ![s] = @ + 1 + Bit(isRoot)]
          /\ references' = [x \in Member |->
               references[x]
                 + Bit(foreground /\ x = parent)
                 + Bit(isRoot /\ x = m)
                 - Bit(foreground /\ x = owner[s])
                 + Bit(foreground /\ x = m)]

(* Mutant: any foreground descendant of the shell will do. *)
CanGrantDescendant(sh, child) ==
  /\ IsShell(sh)
  /\ active # NoSession /\ ~closing[active] /\ session[sh] = active
  /\ live[child] /\ session[child] = active /\ owner[active] = child
  /\ ~command[child]

(* Mutant: a command that Ctrl+C has cancelled already is refused. *)
CanGrantUncancelled(sh, child) ==
  /\ IsShell(sh)
  /\ active # NoSession /\ session[sh] = active
  /\ Owns(child)
  /\ restore[child] = sh
  /\ ~command[child]

(* The shell may mark the child it has just launched as a command of its own, *)
(* even if Ctrl+C has cancelled that child already.                           *)
CanGrant(sh, child) ==
  /\ IsShell(sh)
  /\ active # NoSession /\ ~closing[active] /\ session[sh] = active
  /\ live[child] /\ session[child] = active /\ owner[active] = child
  /\ restore[child] = sh
  /\ ~command[child]

(* console_grant_command *)
GrantCommand(sh, child) ==
  /\ CanGrant(sh, child)
  /\ command' = [command EXCEPT ![child] = TRUE]
  /\ UNCHANGED <<session, restore, references, live, cancelled, shell, active>>
  /\ UNCHANGED sessionVars

(* console_cancel_member, for each process of a set. *)
CancelMembers(D) ==
  /\ cancelled' = [x \in Member |-> cancelled[x] \/ x \in D]
  /\ UNCHANGED <<session, restore, references, live, shell, command, active>>
  /\ UNCHANGED sessionVars

(* console_request_exit: a command asks its shell to exit once it is back. *)
RequestExit(m) ==
  /\ CommandShell(m) # NoMember
  /\ exitRequested' = [exitRequested EXCEPT ![session[m]] = TRUE]
  /\ UNCHANGED memberVars
  /\ UNCHANGED <<sessionRefs, closing, root, owner, members, active>>

Limit == Cardinality(Member)

(* The chain of return links from x: Chain(r, x)[k] is k links away. *)
Chain(r, x) ==
  LET c[k \in 0..Limit] == IF k = 0 THEN x
                           ELSE IF c[k-1] = NoMember THEN NoMember ELSE r[c[k-1]]
  IN c

(* Mutant: only the direct return link is tried. *)
PreviousDirect(r, x, candidates) ==
  IF x # NoMember /\ r[x] \in candidates THEN r[x] ELSE NoMember

(* previous(): the nearest process on the chain that can own the console. *)
Previous(r, x, candidates) ==
  LET c == Chain(r, x)
      Nearest(k) == c[k] \in candidates /\ \A j \in 1..(k - 1) : c[j] \notin candidates
  IN IF \E k \in 1..Limit : Nearest(k)
     THEN c[CHOOSE k \in 1..Limit : Nearest(k)]
     ELSE NoMember

(* Mutant: closing forgets the owner's and the console's references. *)
CloseSessionKeepingCounts(m) ==
  LET s == session[m] IN
  /\ closing' = [closing EXCEPT ![s] = TRUE]
  /\ restore' = [x \in Member |-> IF x \in members[s] THEN NoMember ELSE restore[x]]
  /\ command' = [x \in Member |-> command[x] /\ x \notin members[s] \cup {m}]
  /\ owner' = [owner EXCEPT ![s] = NoMember]
  /\ root' = [root EXCEPT ![s] = NoMember]
  /\ active' = IF active = s THEN NoSession ELSE active
  /\ references' = [x \in Member |->
       references[x] - PointersFrom(members[s], restore, x) - Bit(x = m)]
  /\ UNCHANGED sessionRefs

(* Mutant: closing does not give up the console. *)
CloseSessionKeepingConsole(m) ==
  LET s == session[m] IN
  /\ closing' = [closing EXCEPT ![s] = TRUE]
  /\ restore' = [x \in Member |-> IF x \in members[s] THEN NoMember ELSE restore[x]]
  /\ command' = [x \in Member |-> command[x] /\ x \notin members[s] \cup {m}]
  /\ owner' = [owner EXCEPT ![s] = NoMember]
  /\ root' = [root EXCEPT ![s] = NoMember]
  /\ references' = [x \in Member |->
       references[x] - PointersFrom(members[s], restore, x) - Bit(x = owner[s]) - Bit(x = m)]
  /\ UNCHANGED <<active, sessionRefs>>

(* console_member_exit of a session's root: the session closes.  Every return *)
(* link in it is dropped, it loses its owner and its root, and the console.   *)
CloseSession(m) ==
  LET s == session[m] IN
  /\ closing' = [closing EXCEPT ![s] = TRUE]
  /\ restore' = [x \in Member |-> IF x \in members[s] THEN NoMember ELSE restore[x]]
  /\ command' = [x \in Member |-> command[x] /\ x \notin members[s] \cup {m}]
  /\ owner' = [owner EXCEPT ![s] = NoMember]
  /\ root' = [root EXCEPT ![s] = NoMember]
  /\ active' = IF active = s THEN NoSession ELSE active
  /\ sessionRefs' = [sessionRefs EXCEPT ![s] = @ - Bit(active = s)]
  /\ references' = [x \in Member |->
       references[x]
         - PointersFrom(members[s], restore, x)
         - Bit(x = owner[s])
         - Bit(x = m)]

(* console_member_exit of any other member of an open session.  Links to it   *)
(* are redirected to where its own link points; if it is the owner, or an     *)
(* ancestor of a cancelled owner, the console returns along the chain.        *)
LeaveSession(m, canc) ==
  LET s == session[m]
      own == owner[s]
      returning == own = m \/ \E k \in 0..(Limit - 1) : Chain(restore, own)[k] = m
      heirs == {x \in members[s] : restore[x] = m}
      redirected == [x \in Member |-> IF x \in heirs THEN restore[m] ELSE restore[x]]
      moves == returning /\ (own = m \/ canc[own])
      able == {x \in Member : live[x] /\ x # m /\ ~canc[x] /\ session[x] = s}
      next == IF moves THEN Previous(redirected, own, able) ELSE own
  IN
  /\ restore' = [redirected EXCEPT ![m] = NoMember]
  /\ owner' = [owner EXCEPT ![s] = next]
  /\ command' = [command EXCEPT ![m] = FALSE]
  /\ references' = [x \in Member |->
       references[x]
         - (IF x = m THEN PointersFrom(members[s], restore, m) ELSE 0)
         + (IF x = restore[m] THEN PointersFrom(members[s], restore, m) ELSE 0)
         - Bit(x = own) + Bit(x = next)
         - Bit(x = redirected[m])]
  /\ UNCHANGED <<sessionRefs, closing, root, active>>

(* console_member_exit of a process whose session is closed, or without one. *)
LeaveNothing(m) ==
  /\ restore' = [restore EXCEPT ![m] = NoMember]
  /\ command' = [command EXCEPT ![m] = FALSE]
  /\ references' = [x \in Member |-> references[x] - Bit(x = restore[m])]
  /\ UNCHANGED <<sessionRefs, closing, root, owner, active>>

(* Mutant: only a root's exit changes who owns the console. *)
MemberExitKeepingOwner(m, D) ==
  /\ live[m]
  /\ live' = [live EXCEPT ![m] = FALSE]
  /\ cancelled' = [x \in Member |-> cancelled[x] \/ x \in D]
  /\ IF IsRoot(m) THEN CloseSession(m) ELSE LeaveNothing(m)
  /\ UNCHANGED <<session, shell, exitRequested, members>>

(* console_member_exit, after the exiting process's descendants D (and, for a *)
(* root, its whole session) were cancelled in the same critical section.      *)
MemberExit(m, D) ==
  LET canc == [x \in Member |-> cancelled[x] \/ x \in D] IN
  /\ live[m]
  /\ live' = [live EXCEPT ![m] = FALSE]
  /\ cancelled' = canc
  /\ IF IsRoot(m) THEN CloseSession(m)
     ELSE IF session[m] # NoSession /\ ~closing[session[m]] THEN LeaveSession(m, canc)
     ELSE LeaveNothing(m)
  /\ UNCHANGED <<session, shell, exitRequested, members>>

(* console_detach accepts the record: nothing points to it any more. *)
Detachable(m) ==
  /\ ~live[m] /\ references[m] = 0 /\ restore[m] = NoMember
  /\ session[m] # NoSession => m \in members[session[m]]

(* console_detach of each record of a set; the last one out of a session *)
(* clears the session's structure.                                       *)
Detach(R) ==
  LET refs == [s \in Session |-> sessionRefs[s] - Cardinality(members[s] \cap R)]
      Emptied(s) == members[s] \cap R # {} /\ refs[s] = 0
  IN
  /\ \A m \in R : Detachable(m)
  /\ members' = [s \in Session |-> members[s] \ R]
  /\ sessionRefs' = refs
  /\ closing' = [s \in Session |-> closing[s] /\ ~Emptied(s)]
  /\ exitRequested' = [s \in Session |-> exitRequested[s] /\ ~Emptied(s)]
  /\ root' = [s \in Session |-> IF Emptied(s) THEN NoMember ELSE root[s]]
  /\ owner' = [s \in Session |-> IF Emptied(s) THEN NoMember ELSE owner[s]]
  /\ session' = [m \in Member |-> IF m \in R THEN NoSession ELSE session[m]]
  /\ cancelled' = [m \in Member |-> cancelled[m] /\ m \notin R]
  /\ shell' = [m \in Member |-> shell[m] /\ m \notin R]
  /\ command' = [m \in Member |-> command[m] /\ m \notin R]
  /\ UNCHANGED <<restore, references, live, active>>

-----------------------------------------------------------------------------
(* The session layer by itself, under every order of calls that the process *)
(* layer may make (module Tasks narrows this to the calls it does make).    *)

(* Ctrl+C, or a request to terminate a child: never aimed at a shell. *)
Cancel(m) == live[m] /\ ~shell[m] /\ CancelMembers({m})

(* A root takes its whole session with it; nobody else's descendants *)
(* include a root, whose parent is the kernel.                       *)
Exit(m, D) ==
  /\ D \subseteq {x \in Member \ {m} : ~IsRoot(x)}
  /\ IsRoot(m) => members[session[m]] \ {m} \subseteq D
  /\ MemberExit(m, D)

Launch(m) ==
  \E parent \in AnyMember, foreground, sh \in BOOLEAN : Attach(m, parent, foreground, sh)

ConsoleNext ==
  \/ \E m \in Member : Launch(m)
  \/ \E sh, child \in Member : GrantCommand(sh, child)
  \/ \E m \in Member : Cancel(m)
  \/ \E m \in Member : RequestExit(m)
  \/ \E m \in Member, D \in SUBSET Member : Exit(m, D)
  \/ \E R \in SUBSET Member : Detach(R)

ConsoleSpec == ConsoleInit /\ [][ConsoleNext]_consoleVars

-----------------------------------------------------------------------------
ConsoleTypeOK ==
  /\ session \in [Member -> AnySession]
  /\ restore \in [Member -> AnyMember]
  /\ references \in [Member -> Nat]
  /\ live \in [Member -> BOOLEAN]
  /\ cancelled \in [Member -> BOOLEAN]
  /\ shell \in [Member -> BOOLEAN]
  /\ command \in [Member -> BOOLEAN]
  /\ sessionRefs \in [Session -> Nat]
  /\ closing \in [Session -> BOOLEAN]
  /\ exitRequested \in [Session -> BOOLEAN]
  /\ root \in [Session -> AnyMember]
  /\ owner \in [Session -> AnyMember]
  /\ members \in [Session -> SUBSET Member]
  /\ active \in AnySession

(* The number of all pointers to m in an array of pointers. *)
PointersTo(f, m) == PointersFrom(DOMAIN f, f, m)

(* Every record's reference count is the number of pointers to it: no release *)
(* is lost or repeated in any order of launches, exits and cancellations, so  *)
(* the count can neither free a record in use nor keep a dead one for ever.   *)
ReferencesExact ==
  \A m \in Member :
    references[m] = PointersTo(restore, m) + PointersTo(owner, m) + PointersTo(root, m)

(* A session counts its member records, plus one while it has the console. *)
SessionReferencesExact ==
  \A s \in Session : sessionRefs[s] = Cardinality(members[s]) + Bit(active = s)

(* The two ends of membership agree. *)
MembershipMutual ==
  \A m \in Member, s \in Session : m \in members[s] <=> session[m] = s

(* No pointer dangles: return links, owners and roots are live processes of   *)
(* the same session, so a record that has exited can always be reclaimed.     *)
NoDanglingPointer ==
  /\ \A m \in Member : restore[m] # NoMember =>
       /\ live[m] /\ live[restore[m]]
       /\ session[m] # NoSession /\ session[restore[m]] = session[m]
  /\ \A s \in Session : \A m \in {owner[s], root[s]} \ {NoMember} :
       live[m] /\ session[m] = s

(* The reaper's console_detach never refuses a process that has exited       *)
(* (task.c:598 halts the machine if it does).                                *)
ExitedIsDetachable ==
  \A m \in Member : ~live[m] => Detachable(m)

(* A session in use either has the console and a live root, or is closing. *)
(* A closed one holds no authority: no owner, root, return link or command *)
(* is left in it, and its surviving processes are all cancelled.           *)
ClosedIsInert ==
  \A s \in Session :
    /\ active = s => members[s] # {}
    /\ members[s] # {} =>
         IF closing[s]
         THEN /\ active # s /\ owner[s] = NoMember /\ root[s] = NoMember
              /\ \A m \in members[s] :
                   ~command[m] /\ restore[m] = NoMember /\ (live[m] => cancelled[m])
         ELSE active = s /\ root[s] # NoMember

(* An unclaimed structure of the pool is all zero, so that console_mark_shell *)
(* right after an attach to it cannot fail.                                   *)
FreeIsClean ==
  \A s \in Session : sessionRefs[s] = 0 =>
    ~closing[s] /\ ~exitRequested[s] /\ root[s] = NoMember /\ owner[s] = NoMember /\ members[s] = {}

(* The pool never runs out: whenever a process record is free and no session *)
(* has the console, the kernel can start a new shell.                        *)
PoolSuffices ==
  (active = NoSession /\ \E m \in Member : session[m] = NoSession) => CanLaunch(NoMember, TRUE)

(* Control of the shell belongs to its direct foreground child only. *)
CommandOfShell ==
  \A m \in Member : command[m] =>
    /\ live[m] /\ session[m] # NoSession /\ session[m] = active
    /\ restore[m] # NoMember /\ restore[m] = root[active] /\ shell[restore[m]]

(* The inductive invariant of the session layer. *)
ConsoleInv ==
  /\ ConsoleTypeOK
  /\ MembershipMutual
  /\ NoDanglingPointer
  /\ ReferencesExact
  /\ SessionReferencesExact
  /\ FreeIsClean
  /\ ClosedIsInert
  /\ CommandOfShell

(* Following return links never comes back to where it started, which is what *)
(* the walks bounded by RUM_PROCESS_LIMIT rely on.                            *)
ChainsEnd == \A m \in Member : Chain(restore, m)[Limit] = NoMember

(* The console is never stranded: as long as a session has it, somebody owns *)
(* it or the session's root is cancelled.  A shell is a root that nobody     *)
(* cancels, so its session always has an owner.                              *)
NeverStranded ==
  active # NoSession => owner[active] # NoMember \/ cancelled[root[active]]

(* The keyboard moves only from the launcher to the child it launches, or to *)
(* nobody when the session's root exits, or, when the owner exits or a       *)
(* process on the return chain of a cancelled owner does, to the nearest one *)
(* on that chain that still can use it.  Reclaiming a record, launching in   *)
(* the background or cancelling the owner does not move it.                  *)
OwnerMoves ==
  [][\A s \in Session : owner'[s] # owner[s] =>
       \/ owner[s] = NoMember /\ active = NoSession /\ active' = s
       \/ owner'[s] # NoMember /\ ~live[owner'[s]] /\ live'[owner'[s]] /\ restore'[owner'[s]] = owner[s]
       \/ closing'[s] \/ sessionRefs'[s] = 0
       \/ /\ \E k \in 0..(Limit - 1) :
               LET x == Chain(restore, owner[s])[k]
               IN x # NoMember /\ live[x] /\ ~live'[x] /\ (k = 0 \/ cancelled'[owner[s]])
          /\ LET able == {x \in Member : live'[x] /\ ~cancelled'[x] /\ session[x] = s}
             IN owner'[s] = Previous(restore, owner[s], able)]_consoleVars

=============================================================================
