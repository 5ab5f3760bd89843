--------------------------- MODULE ConsoleProofs ---------------------------
(***************************************************************************)
(* Proofs about console sessions, for any number of processes and sessions.*)
(***************************************************************************)
EXTENDS Console, FiniteSetTheorems, TLAPS

-----------------------------------------------------------------------------
(* Counting pointers. *)

LEMMA PointersType ==
  ASSUME NEW S, IsFiniteSet(S), NEW T, NEW f \in [S -> T], NEW x
  PROVE  PointersTo(f, x) \in Nat
<1>1. {r \in DOMAIN f : f[r] = x} \in SUBSET S
  OBVIOUS
<1> QED BY <1>1, FS_Subset, FS_CardinalityType DEF PointersTo, PointersFrom

LEMMA PointersNone ==
  ASSUME NEW f, NEW x, \A r \in DOMAIN f : f[r] # x
  PROVE  PointersTo(f, x) = 0
<1>1. {r \in DOMAIN f : f[r] = x} = {}
  OBVIOUS
<1> QED BY <1>1, FS_EmptySet DEF PointersTo, PointersFrom

(* Redirecting one pointer changes two counts by one. *)
LEMMA PointersOne ==
  ASSUME NEW S, IsFiniteSet(S), NEW T, NEW f \in [S -> T], NEW g \in [S -> T],
         NEW a \in S, NEW x, \A r \in S \ {a} : g[r] = f[r]
  PROVE  PointersTo(g, x) = PointersTo(f, x) - (IF f[a] = x THEN 1 ELSE 0) + (IF g[a] = x THEN 1 ELSE 0)
<1> DEFINE A == {r \in DOMAIN f : f[r] = x}
           B == {r \in DOMAIN g : g[r] = x}
<1>1. IsFiniteSet(A) /\ Cardinality(A) \in Nat
  <2>1. A \in SUBSET S
    OBVIOUS
  <2> QED BY <2>1, FS_Subset, FS_CardinalityType
<1>2. ASSUME g[a] = x
      PROVE  Cardinality(B) = Cardinality(A) - (IF f[a] = x THEN 1 ELSE 0) + 1
  <2>1. B = A \cup {a}
    BY <1>2
  <2>2. a \in A <=> f[a] = x
    OBVIOUS
  <2> HIDE DEF A, B
  <2>3. Cardinality(B) = IF a \in A THEN Cardinality(A) ELSE Cardinality(A) + 1
    BY Zenon, <1>1, <2>1, FS_AddElement
  <2> QED BY <1>1, <1>2, <2>2, <2>3
<1>3. ASSUME g[a] # x
      PROVE  Cardinality(B) = Cardinality(A) - (IF f[a] = x THEN 1 ELSE 0)
  <2>1. B = A \ {a}
    BY <1>3
  <2>2. a \in A <=> f[a] = x
    OBVIOUS
  <2> HIDE DEF A, B
  <2>3. Cardinality(B) = IF a \in A THEN Cardinality(A) - 1 ELSE Cardinality(A)
    BY Zenon, <1>1, <2>1, FS_RemoveElement
  <2> QED BY <1>1, <1>3, <2>2, <2>3
<1> HIDE DEF A, B
<1>4. Cardinality(B) = Cardinality(A) - (IF f[a] = x THEN 1 ELSE 0) + (IF g[a] = x THEN 1 ELSE 0)
  BY <1>1, <1>2, <1>3
<1> QED BY <1>4 DEF PointersTo, PointersFrom, A, B

(* Redirecting every pointer to m moves the whole count of m. *)
LEMMA PointersMoved ==
  ASSUME NEW f \in [Member -> AnyMember], NEW g \in [Member -> AnyMember],
         NEW m \in Member, f[m] # m, NEW x,
         \A r \in Member : g[r] = IF f[r] = m THEN f[m] ELSE f[r]
  PROVE  PointersTo(g, x) = PointersTo(f, x)
                              - (IF x = m THEN PointersTo(f, m) ELSE 0)
                              + (IF x = f[m] THEN PointersTo(f, m) ELSE 0)
<1> DEFINE A == {r \in DOMAIN f : f[r] = x}
           B == {r \in DOMAIN g : g[r] = x}
           H == {r \in DOMAIN f : f[r] = m}
<1>1. /\ IsFiniteSet(A) /\ Cardinality(A) \in Nat
      /\ IsFiniteSet(H) /\ Cardinality(H) \in Nat
  <2>1. A \in SUBSET Member /\ H \in SUBSET Member
    OBVIOUS
  <2> QED BY <2>1, FS_Subset, FS_CardinalityType, MemberAssumption
<1> DEFINE Goal == Cardinality(B) = Cardinality(A) - (IF x = m THEN Cardinality(H) ELSE 0)
                                                    + (IF x = f[m] THEN Cardinality(H) ELSE 0)
<1>2. ASSUME x = m PROVE Goal
  <2>1. A = H /\ B = {}
    BY <1>2
  <2> HIDE DEF A, B, H
  <2> QED BY <1>1, <1>2, <2>1, FS_EmptySet
<1>3. ASSUME x = f[m] PROVE Goal
  <2>1. B = A \cup H /\ A \cap H = {}
    BY <1>3
  <2> HIDE DEF A, B, H
  <2>2. Cardinality(A \cup H) = Cardinality(A) + Cardinality(H) - Cardinality(A \cap H)
    BY <1>1, FS_Union
  <2>3. Cardinality(A \cap H) = 0
    BY <2>1, FS_EmptySet
  <2> QED BY <1>1, <1>3, <2>1, <2>2, <2>3
<1>4. ASSUME x # m, x # f[m] PROVE Goal
  <2>1. A = B
    BY <1>4
  <2> HIDE DEF A, B, H
  <2> QED BY <1>1, <1>4, <2>1
<1> QED BY <1>2, <1>3, <1>4 DEF PointersTo, PointersFrom

(* Clearing the pointers held by C takes from each count those held by C. *)
LEMMA PointersCleared ==
  ASSUME NEW f \in [Member -> AnyMember], NEW g \in [Member -> AnyMember],
         NEW C \in SUBSET Member, NEW x,
         \A r \in C : g[r] # x, \A r \in Member \ C : g[r] = f[r]
  PROVE  /\ PointersFrom(C, f, x) \in Nat
         /\ PointersTo(g, x) = PointersTo(f, x) - PointersFrom(C, f, x)
<1> DEFINE A == {r \in DOMAIN f : f[r] = x}
           B == {r \in DOMAIN g : g[r] = x}
           D == {r \in C : f[r] = x}
<1>1. A \in SUBSET Member /\ B \in SUBSET Member /\ D \in SUBSET Member
  OBVIOUS
<1>2. /\ IsFiniteSet(A) /\ IsFiniteSet(B) /\ IsFiniteSet(D)
      /\ Cardinality(A) \in Nat /\ Cardinality(B) \in Nat /\ Cardinality(D) \in Nat
  BY <1>1, FS_Subset, FS_CardinalityType, MemberAssumption
<1>3. A = B \cup D /\ B \cap D = {}
  OBVIOUS
<1>4. Cardinality(B) = Cardinality(A) - Cardinality(D)
  <2> HIDE DEF A, B, D
  <2>1. Cardinality(B \cup D) = Cardinality(B) + Cardinality(D) - Cardinality(B \cap D)
    BY <1>2, FS_Union
  <2>2. Cardinality(B \cap D) = 0
    BY Zenon, <1>3, FS_EmptySet
  <2> QED BY <1>2, <1>3, <2>1, <2>2
<1> QED BY <1>2, <1>4 DEF PointersTo, PointersFrom

(* Removing R from a set takes away as many elements as it shares with R. *)
LEMMA CountRemoved ==
  ASSUME NEW S, IsFiniteSet(S), NEW R
  PROVE  /\ Cardinality(S) \in Nat /\ Cardinality(S \ R) \in Nat /\ Cardinality(S \cap R) \in Nat
         /\ Cardinality(S \ R) = Cardinality(S) - Cardinality(S \cap R)
<1>1. (S \ R) \in SUBSET S /\ (S \cap R) \in SUBSET S
  OBVIOUS
<1>2. /\ IsFiniteSet(S \ R) /\ IsFiniteSet(S \cap R)
      /\ Cardinality(S) \in Nat /\ Cardinality(S \ R) \in Nat /\ Cardinality(S \cap R) \in Nat
  BY <1>1, FS_Subset, FS_CardinalityType
<1>3. S = (S \ R) \cup (S \cap R) /\ (S \ R) \cap (S \cap R) = {}
  OBVIOUS
<1>4. Cardinality((S \ R) \cup (S \cap R))
        = Cardinality(S \ R) + Cardinality(S \cap R) - Cardinality((S \ R) \cap (S \cap R))
  BY <1>2, FS_Union
<1>5. Cardinality(S) = Cardinality(S \ R) + Cardinality(S \cap R) - 0
  BY <1>3, <1>4, FS_EmptySet
<1> QED BY <1>2, <1>5

-----------------------------------------------------------------------------
(* What NoDanglingPointer says of one return link, and of one owner or root. *)

LEMMA LinkIsLive ==
  ASSUME NoDanglingPointer, NEW x \in Member, restore[x] # NoMember
  PROVE  /\ live[x] /\ live[restore[x]]
         /\ session[x] # NoSession /\ session[restore[x]] = session[x]
BY Zenon DEF NoDanglingPointer

LEMMA HolderIsLive ==
  ASSUME NoDanglingPointer, NEW r \in Session, NEW x \in {owner[r], root[r]} \ {NoMember}
  PROVE  live[x] /\ session[x] = r
BY Zenon DEF NoDanglingPointer

-----------------------------------------------------------------------------
(* Each operation preserves the invariant. *)

LEMMA InitConsoleInv == ConsoleInit => ConsoleInv
<1> SUFFICES ASSUME ConsoleInit PROVE ConsoleInv
  OBVIOUS
<1> USE DEF ConsoleInit
<1>1. ConsoleTypeOK
  BY DEF ConsoleTypeOK, AnyMember, AnySession
<1>2. MembershipMutual
  BY SessionAssumption DEF MembershipMutual
<1>3. NoDanglingPointer
  BY DEF NoDanglingPointer
<1>4. ReferencesExact
  <2> SUFFICES ASSUME NEW m \in Member
               PROVE  references[m] = PointersTo(restore, m) + PointersTo(owner, m) + PointersTo(root, m)
    BY DEF ReferencesExact
  <2>1. PointersTo(restore, m) = 0 /\ PointersTo(owner, m) = 0 /\ PointersTo(root, m) = 0
    BY PointersNone, MemberAssumption
  <2> QED BY <2>1
<1>5. SessionReferencesExact
  BY SessionAssumption, FS_EmptySet DEF SessionReferencesExact, Bit
<1>6. FreeIsClean /\ ClosedIsInert /\ CommandOfShell
  BY SessionAssumption DEF FreeIsClean, ClosedIsInert, CommandOfShell
<1> QED BY <1>1, <1>2, <1>3, <1>4, <1>5, <1>6 DEF ConsoleInv

(* Exact counts are natural numbers: the code's unsigned decrements never wrap. *)
LEMMA CountsAreNat ==
  ASSUME restore' \in [Member -> AnyMember], owner' \in [Session -> AnyMember],
         root' \in [Session -> AnyMember],
         ReferencesExact'
  PROVE  \A x \in Member : references'[x] \in Nat
<1> TAKE x \in Member
<1>1. PointersTo(restore', x) \in Nat /\ PointersTo(owner', x) \in Nat /\ PointersTo(root', x) \in Nat
  BY Zenon, PointersType, MemberAssumption, SessionAssumption
<1> QED BY <1>1 DEF ReferencesExact

LEMMA GrantCommandInv ==
  ASSUME ConsoleInv, NEW sh \in Member, NEW child \in Member, GrantCommand(sh, child)
  PROVE  ConsoleInv'
<1> USE DEF ConsoleInv, GrantCommand, CanGrant, sessionVars
<1>1. ConsoleTypeOK'
  BY DEF ConsoleTypeOK
<1>2. MembershipMutual' /\ NoDanglingPointer' /\ FreeIsClean'
  BY DEF MembershipMutual, NoDanglingPointer, FreeIsClean
<1>3. ReferencesExact' /\ SessionReferencesExact'
  BY DEF ReferencesExact, SessionReferencesExact
<1>4. CommandOfShell'
  BY MemberAssumption DEF CommandOfShell, ConsoleTypeOK, IsShell, AnySession, AnyMember
<1>5. ClosedIsInert'
  BY DEF ClosedIsInert, ConsoleTypeOK, MembershipMutual, AnySession
<1> QED BY <1>1, <1>2, <1>3, <1>4, <1>5

LEMMA CancelMembersInv ==
  ASSUME ConsoleInv, NEW D, CancelMembers(D)
  PROVE  ConsoleInv'
<1> USE DEF ConsoleInv, CancelMembers, sessionVars
<1>1. ConsoleTypeOK'
  BY DEF ConsoleTypeOK
<1>2. MembershipMutual' /\ NoDanglingPointer' /\ FreeIsClean' /\ CommandOfShell'
  BY DEF MembershipMutual, NoDanglingPointer, FreeIsClean, CommandOfShell
<1>3. ReferencesExact' /\ SessionReferencesExact'
  BY DEF ReferencesExact, SessionReferencesExact
<1>4. ClosedIsInert'
  BY DEF ClosedIsInert, ConsoleTypeOK
<1> QED BY <1>1, <1>2, <1>3, <1>4

LEMMA RequestExitInv ==
  ASSUME ConsoleInv, NEW m \in Member, RequestExit(m)
  PROVE  ConsoleInv'
<1> USE DEF ConsoleInv, RequestExit, memberVars
<1>1. ConsoleTypeOK'
  BY Zenon DEF ConsoleTypeOK
<1>2. MembershipMutual' /\ NoDanglingPointer' /\ ClosedIsInert' /\ CommandOfShell'
  BY DEF MembershipMutual, NoDanglingPointer, ClosedIsInert, CommandOfShell
<1>3. ReferencesExact' /\ SessionReferencesExact'
  BY DEF ReferencesExact, SessionReferencesExact
<1>4. FreeIsClean'
  <2>1. session[m] \in Session /\ m \in members[session[m]]
    BY DEF CommandShell, Owns, ConsoleTypeOK, AnySession, MembershipMutual
  <2> QED BY <2>1 DEF FreeIsClean, ConsoleTypeOK
<1> QED BY <1>1, <1>2, <1>3, <1>4

LEMMA AttachInv ==
  ASSUME ConsoleInv, NEW m \in Member, NEW parent \in AnyMember,
         NEW foreground \in BOOLEAN, NEW sh \in BOOLEAN,
         Attach(m, parent, foreground, sh)
  PROVE  ConsoleInv'
<1> DEFINE isRoot == foreground /\ parent = NoMember
<1>1. PICK s \in AnySession :
       /\ IF parent # NoMember THEN s = session[parent]
          ELSE IF foreground THEN s \in Session /\ Available(s) ELSE s = NoSession
       /\ session' = [session EXCEPT ![m] = s]
       /\ members' = IF s = NoSession THEN members ELSE [members EXCEPT ![s] = @ \cup {m}]
       /\ active' = IF isRoot THEN s ELSE active
       /\ root' = IF isRoot THEN [root EXCEPT ![s] = m] ELSE root
       /\ owner' = IF foreground THEN [owner EXCEPT ![s] = m] ELSE owner
       /\ sessionRefs' = IF s = NoSession THEN sessionRefs
                         ELSE [sessionRefs EXCEPT ![s] = @ + 1 + Bit(isRoot)]
       /\ references' = [x \in Member |->
            references[x]
              + Bit(foreground /\ x = parent)
              + Bit(isRoot /\ x = m)
              - Bit(foreground /\ x = owner[s])
              + Bit(foreground /\ x = m)]
  BY Zenon DEF Attach, Unattached
<1>2. /\ live' = [live EXCEPT ![m] = TRUE]
      /\ cancelled' = [cancelled EXCEPT ![m] = FALSE]
      /\ shell' = [shell EXCEPT ![m] = sh]
      /\ command' = [command EXCEPT ![m] = FALSE]
      /\ restore' = [restore EXCEPT ![m] = IF foreground THEN parent ELSE NoMember]
      /\ UNCHANGED <<closing, exitRequested>>
  BY DEF Attach, Unattached
<1>3. ~live[m] /\ session[m] = NoSession /\ CanLaunch(parent, foreground)
  BY DEF Attach, Unattached
<1>type. ConsoleTypeOK /\ MembershipMutual /\ NoDanglingPointer
  BY DEF ConsoleInv
\* Nothing points to the new record, and it has no link of its own.
<1>4. /\ restore[m] = NoMember
      /\ \A x \in Member : restore[x] # m
      /\ \A r \in Session : owner[r] # m /\ root[r] # m
  BY <1>3, <1>type, MemberAssumption DEF NoDanglingPointer, ConsoleTypeOK, AnyMember
<1>5. foreground => s \in Session
  BY <1>1, <1>3 DEF CanLaunch, Owns, AnySession
<1>6. /\ isRoot => /\ active = NoSession /\ members[s] = {} /\ sessionRefs[s] = 0
                   /\ ~closing[s] /\ root[s] = NoMember /\ owner[s] = NoMember
  BY <1>1, <1>3, <1>5 DEF CanLaunch, Available, ConsoleInv, FreeIsClean
<1>7. parent # NoMember =>
        /\ parent \in Member /\ parent # m /\ live[parent] /\ ~cancelled[parent] /\ session[parent] = s
        /\ s \in Session => ~closing[s] /\ parent \in members[s]
        /\ foreground => active = s /\ owner[s] = parent
  BY <1>1, <1>3, <1>type, SessionAssumption
     DEF CanLaunch, Owns, AnyMember, MembershipMutual, ConsoleTypeOK, AnySession
<1>8. m \notin UNION {members[r] : r \in Session}
  BY <1>3, <1>type, SessionAssumption DEF MembershipMutual
<1>9. /\ s # NoSession => /\ s \in Session
                         /\ sessionRefs' = [sessionRefs EXCEPT ![s] = @ + 1 + Bit(isRoot)]
      /\ s = NoSession => sessionRefs' = sessionRefs
      /\ Bit(isRoot) \in {0, 1}
  BY <1>1 DEF AnySession, Bit
<1>a. MembershipMutual'
  BY <1>1, <1>3, <1>type, SessionAssumption DEF MembershipMutual, ConsoleTypeOK, AnySession
<1>b. NoDanglingPointer'
  <2>1. ASSUME NEW x \in Member, restore'[x] # NoMember
        PROVE  /\ live'[x] /\ live'[restore'[x]]
               /\ session'[x] # NoSession /\ session'[restore'[x]] = session'[x]
    <3>1. CASE x = m
      BY <1>1, <1>2, <1>4, <1>5, <1>7, <2>1, <3>1, <1>type, SessionAssumption DEF ConsoleTypeOK
    <3>2. CASE x # m
      <4>1. restore'[x] = restore[x] /\ restore[x] \in Member /\ restore[x] # m
        BY SMTT(40), <1>2, <1>4, <2>1, <3>2, <1>type DEF ConsoleTypeOK, AnyMember
      <4> QED BY SMTT(40), <1>1, <1>2, <2>1, <3>2, <4>1, <1>type DEF ConsoleTypeOK, NoDanglingPointer
    <3> QED BY <3>1, <3>2
  <2>2. ASSUME NEW r \in Session, NEW x \in {owner'[r], root'[r]} \ {NoMember}
        PROVE  live'[x] /\ session'[x] = r
    <3>1. CASE x = m
      <4>1. r = s
        BY <1>1, <1>4, <2>2, <3>1, <1>type DEF ConsoleTypeOK
      <4> QED BY <1>1, <1>2, <3>1, <4>1, <1>type DEF ConsoleTypeOK
    <3>2. CASE x # m
      <4>1. x \in {owner[r], root[r]} \ {NoMember} /\ x \in Member
        BY SMTT(40), <1>1, <1>5, <2>2, <3>2, <1>type DEF ConsoleTypeOK, AnyMember
      <4> QED BY SMTT(40), <1>1, <1>2, <3>2, <4>1, <1>type DEF ConsoleTypeOK, NoDanglingPointer
    <3> QED BY <3>1, <3>2
  <2> QED BY <2>1, <2>2 DEF NoDanglingPointer
<1>c. ReferencesExact'
  <2> SUFFICES ASSUME NEW x \in Member
               PROVE  references'[x] = PointersTo(restore', x) + PointersTo(owner', x) + PointersTo(root', x)
    BY SMTT(40) DEF ReferencesExact
  <2>1. /\ restore \in [Member -> AnyMember] /\ owner \in [Session -> AnyMember]
        /\ root \in [Session -> AnyMember]
    BY <1>type DEF ConsoleTypeOK
  <2>2. PointersTo(restore, x) \in Nat /\ PointersTo(owner, x) \in Nat /\ PointersTo(root, x) \in Nat
    BY Zenon, <2>1, PointersType, MemberAssumption, SessionAssumption
  <2>fin. IsFiniteSet(Member) /\ IsFiniteSet(Session)
    BY MemberAssumption, SessionAssumption
  <2>3. PointersTo(restore', x) = PointersTo(restore, x) - (IF restore[m] = x THEN 1 ELSE 0)
                                                         + (IF restore'[m] = x THEN 1 ELSE 0)
    <3>1. restore' \in [Member -> AnyMember] /\ \A r \in Member \ {m} : restore'[r] = restore[r]
      BY <1>2, <2>1 DEF AnyMember
    <3>2. restore \in [Member -> AnyMember] /\ IsFiniteSet(Member)
      BY <2>1, <2>fin
    <3> QED BY ONLY <3>1, <3>2, m \in Member, PointersOne
  <2>4. ASSUME foreground
        PROVE  PointersTo(owner', x) = PointersTo(owner, x) - (IF owner[s] = x THEN 1 ELSE 0)
                                                            + (IF m = x THEN 1 ELSE 0)
    <3>1. /\ owner' \in [Session -> AnyMember] /\ \A r \in Session \ {s} : owner'[r] = owner[r]
          /\ s \in Session /\ owner'[s] = m
      BY <1>1, <1>5, <2>1, <2>4 DEF AnyMember
    <3>2. owner \in [Session -> AnyMember] /\ IsFiniteSet(Session)
      BY <2>1, <2>fin
    <3> QED BY ONLY <3>1, <3>2, m \in Member, PointersOne
  <2>5. ASSUME isRoot
        PROVE  PointersTo(root', x) = PointersTo(root, x) - (IF root[s] = x THEN 1 ELSE 0)
                                                          + (IF m = x THEN 1 ELSE 0)
    <3>1. /\ root' \in [Session -> AnyMember] /\ \A r \in Session \ {s} : root'[r] = root[r]
          /\ s \in Session /\ root'[s] = m
      BY <1>1, <1>5, <2>1, <2>5 DEF AnyMember
    <3>2. root \in [Session -> AnyMember] /\ IsFiniteSet(Session)
      BY <2>1, <2>fin
    <3> QED BY ONLY <3>1, <3>2, m \in Member, PointersOne
  <2>same. /\ restore'[m] = IF foreground THEN parent ELSE NoMember
           /\ ~foreground => owner' = owner
           /\ ~isRoot => root' = root
    BY <1>1, <1>2, <2>1
  <2>6. references[x] = PointersTo(restore, x) + PointersTo(owner, x) + PointersTo(root, x)
    BY DEF ConsoleInv, ReferencesExact
  <2>7. references'[x] = references[x] + Bit(foreground /\ x = parent) + Bit(isRoot /\ x = m)
                           - Bit(foreground /\ x = owner[s]) + Bit(foreground /\ x = m)
    BY <1>1
  <2> QED BY SMTT(40), <1>4, <1>6, <2>2, <2>3, <2>4, <2>5, <2>same, <2>6, <2>7, MemberAssumption DEF Bit
<1>d. SessionReferencesExact'
  <2> SUFFICES ASSUME NEW r \in Session
               PROVE  sessionRefs'[r] = Cardinality(members'[r]) + Bit(active' = r)
    BY DEF SessionReferencesExact
  <2>1. sessionRefs[r] = Cardinality(members[r]) + Bit(active = r)
    BY DEF ConsoleInv, SessionReferencesExact
  <2>2. IsFiniteSet(members[r]) /\ Cardinality(members[r]) \in Nat
    BY <1>type, FS_Subset, FS_CardinalityType, MemberAssumption DEF ConsoleTypeOK
  <2>3. CASE r = s
    <3>1. Cardinality(members[r] \cup {m}) = Cardinality(members[r]) + 1
      BY ZenonT(40), <1>8, <2>2, FS_AddElement
    <3>2. members'[r] = members[r] \cup {m} /\ sessionRefs'[r] = sessionRefs[r] + 1 + Bit(isRoot)
      BY <1>1, <2>3, <1>type, SessionAssumption DEF ConsoleTypeOK
    <3>3. active' = IF isRoot THEN s ELSE active
      BY <1>1
    <3> QED BY SMTT(40), <1>6, <2>1, <2>2, <2>3, <3>1, <3>2, <3>3, SessionAssumption DEF Bit
  <2>4. CASE r # s
    <3>1. members'[r] = members[r] /\ sessionRefs'[r] = sessionRefs[r]
      BY <1>1, <2>4, <1>type DEF ConsoleTypeOK
    <3>2. (active' = r) <=> (active = r)
      BY Zenon, <1>1, <1>6, <2>4, SessionAssumption
    <3> QED BY <2>1, <3>1, <3>2 DEF Bit
  <2> QED BY <2>3, <2>4
<1>e. ConsoleTypeOK'
  <2>1. /\ restore' \in [Member -> AnyMember] /\ owner' \in [Session -> AnyMember]
        /\ root' \in [Session -> AnyMember]
    BY Zenon, <1>1, <1>2, <1>5, <1>type DEF ConsoleTypeOK, AnyMember
  <2>2. \A x \in Member : references'[x] \in Nat
    BY <1>c, <2>1, CountsAreNat
  <2>ref. references' \in [Member -> Nat]
    BY <1>1, <2>2
  <2>3. sessionRefs' \in [Session -> Nat]
    BY <1>9, <1>type DEF ConsoleTypeOK
  <2>4. /\ session' \in [Member -> AnySession] /\ members' \in [Session -> SUBSET Member]
        /\ active' \in AnySession
    BY <1>1, <1>5, <1>type DEF ConsoleTypeOK, AnySession
  <2>5. /\ live' \in [Member -> BOOLEAN] /\ cancelled' \in [Member -> BOOLEAN]
        /\ shell' \in [Member -> BOOLEAN] /\ command' \in [Member -> BOOLEAN]
        /\ closing' \in [Session -> BOOLEAN] /\ exitRequested' \in [Session -> BOOLEAN]
    BY <1>2, <1>type DEF ConsoleTypeOK
  <2> QED BY <2>1, <2>ref, <2>3, <2>4, <2>5 DEF ConsoleTypeOK
<1>f. FreeIsClean'
  <2> SUFFICES ASSUME NEW r \in Session, sessionRefs'[r] = 0
               PROVE  /\ ~closing'[r] /\ ~exitRequested'[r] /\ root'[r] = NoMember
                      /\ owner'[r] = NoMember /\ members'[r] = {}
    BY SMTT(40) DEF FreeIsClean
  <2>1. r # s /\ sessionRefs[r] = 0
    <3>1. sessionRefs[r] \in Nat
      BY <1>type DEF ConsoleTypeOK
    <3>2. sessionRefs'[r] = IF r = s THEN sessionRefs[r] + 1 + Bit(isRoot) ELSE sessionRefs[r]
      BY <1>9, <1>type, SessionAssumption DEF ConsoleTypeOK
    <3> HIDE DEF isRoot
    <3> QED BY <1>9, <3>1, <3>2
  <2> QED BY Zenon, <1>1, <1>2, <2>1, <1>type DEF ConsoleInv, FreeIsClean, ConsoleTypeOK
<1>g. ClosedIsInert'
  <2> SUFFICES ASSUME NEW r \in Session
               PROVE  /\ active' = r => members'[r] # {}
                      /\ members'[r] # {} =>
                           IF closing'[r]
                           THEN /\ active' # r /\ owner'[r] = NoMember /\ root'[r] = NoMember
                                /\ \A x \in members'[r] :
                                     ~command'[x] /\ restore'[x] = NoMember /\ (live'[x] => cancelled'[x])
                           ELSE active' = r /\ root'[r] # NoMember
    BY DEF ClosedIsInert
  <2>1. CASE r = s
    <3>1. members'[r] = members[r] \cup {m} /\ ~closing'[r]
      BY Zenon, <1>1, <1>2, <1>6, <1>7, <2>1, <1>type, SessionAssumption DEF ConsoleTypeOK
    <3> QED BY ZenonT(40), <1>1, <1>6, <1>7, <2>1, <3>1, <1>type, SessionAssumption, MemberAssumption
            DEF ConsoleInv, ClosedIsInert, ConsoleTypeOK
  <2>2. CASE r # s
    <3>1. /\ members'[r] = members[r] /\ closing'[r] = closing[r]
          /\ owner'[r] = owner[r] /\ root'[r] = root[r]
          /\ (active' = r) <=> (active = r)
      BY <1>1, <1>2, <1>6, <2>2, <1>type, SessionAssumption DEF ConsoleTypeOK
    <3>2. \A x \in members[r] : x \in Member /\ x # m
      BY <1>8, <1>type DEF ConsoleTypeOK
    <3>3. \A x \in members[r] : /\ command'[x] = command[x] /\ restore'[x] = restore[x]
                                /\ live'[x] = live[x] /\ cancelled'[x] = cancelled[x]
      BY Zenon, <1>2, <3>2, <1>type DEF ConsoleTypeOK
    <3> QED BY <3>1, <3>3 DEF ConsoleInv, ClosedIsInert
  <2> QED BY <2>1, <2>2
<1>h. CommandOfShell'
  <2> SUFFICES ASSUME NEW x \in Member, command'[x]
               PROVE  /\ live'[x] /\ session'[x] # NoSession /\ session'[x] = active'
                      /\ restore'[x] # NoMember /\ restore'[x] = root'[active'] /\ shell'[restore'[x]]
    BY SMTT(40) DEF CommandOfShell
  <2>1. x # m /\ command[x]
    BY <1>2, <1>type DEF ConsoleTypeOK
  <2>2. /\ live[x] /\ session[x] # NoSession /\ session[x] = active
        /\ restore[x] # NoMember /\ restore[x] = root[active] /\ shell[restore[x]]
    BY Zenon, <2>1 DEF ConsoleInv, CommandOfShell
  <2>3. ~isRoot
    BY <1>6, <2>2
  <2>4. restore[x] \in Member /\ restore[x] # m
    BY <1>4, <2>2, <1>type DEF ConsoleTypeOK, AnyMember
  <2> QED BY Zenon, <1>1, <1>2, <2>1, <2>2, <2>3, <2>4, <1>type DEF ConsoleTypeOK
<1> QED BY <1>a, <1>b, <1>c, <1>d, <1>e, <1>f, <1>g, <1>h DEF ConsoleInv

(* Return links lead from a process to one with a smaller rank, so they form *)
(* no cycle.  (The code bounds its walks by RUM_PROCESS_LIMIT instead.)      *)
Ranked ==
  \E rank \in [Member -> Nat] :
    \A x \in Member : restore[x] \in Member => rank[restore[x]] < rank[x]

LEMMA InitRanked == ConsoleInit => Ranked
<1> SUFFICES ASSUME ConsoleInit PROVE Ranked
  OBVIOUS
<1> DEFINE rank == [x \in Member |-> 0]
<1>1. rank \in [Member -> Nat] /\ \A x \in Member : restore[x] \notin Member
  BY MemberAssumption DEF ConsoleInit
<1> QED BY Zenon, <1>1 DEF Ranked

LEMMA AttachRanked ==
  ASSUME ConsoleInv, Ranked, NEW m \in Member, NEW parent \in AnyMember,
         NEW foreground \in BOOLEAN, NEW sh \in BOOLEAN,
         Attach(m, parent, foreground, sh)
  PROVE  Ranked'
<1>1. PICK rank \in [Member -> Nat] :
        \A x \in Member : restore[x] \in Member => rank[restore[x]] < rank[x]
  BY Zenon DEF Ranked
<1>2. /\ restore' = [restore EXCEPT ![m] = IF foreground THEN parent ELSE NoMember]
      /\ \A x \in Member : restore[x] # m
      /\ parent \in Member => parent # m
      /\ restore \in [Member -> AnyMember]
  BY SMTT(40), MemberAssumption DEF Attach, Unattached, CanLaunch, ConsoleInv, NoDanglingPointer, ConsoleTypeOK
<1> DEFINE new == [rank EXCEPT ![m] = IF parent \in Member THEN rank[parent] + 1 ELSE 0]
<1>3. new \in [Member -> Nat]
  BY <1>1
<1>4. ASSUME NEW x \in Member, restore'[x] \in Member
      PROVE  new[restore'[x]] < new[x]
  <2>1. CASE x = m
    BY <1>1, <1>2, <1>4, <2>1, MemberAssumption
  <2>2. CASE x # m
    BY <1>1, <1>2, <1>4, <2>2
  <2> QED BY <2>1, <2>2
<1> HIDE DEF new
<1> QED BY <1>3, <1>4 DEF Ranked

LEMMA PreviousAmong ==
  ASSUME NEW r, NEW x, NEW C
  PROVE  Previous(r, x, C) \in C \cup {NoMember}
<1> DEFINE c == Chain(r, x)
           Nearest(k) == c[k] \in C /\ \A j \in 1..(k - 1) : c[j] \notin C
<1>1. CASE \E k \in 1..Limit : Nearest(k)
  <2> DEFINE k == CHOOSE k \in 1..Limit : Nearest(k)
  <2>1. Nearest(k)
    BY <1>1, Zenon
  <2>2. c[k] \in C
    BY <2>1
  <2> QED BY <1>1, <2>2, Zenon DEF Previous
<1>2. CASE ~ \E k \in 1..Limit : Nearest(k)
  BY <1>2, Zenon DEF Previous
<1> QED BY <1>1, <1>2

(* The root's exit: every count loses exactly the pointers that are dropped. *)
LEMMA CloseSessionInv ==
  ASSUME ConsoleInv, NEW m \in Member, NEW D, MemberExit(m, D), IsRoot(m),
         members[session[m]] \ {m} \subseteq D
  PROVE  ConsoleInv'
<1> DEFINE s == session[m]
<1>type. ConsoleTypeOK /\ MembershipMutual /\ NoDanglingPointer
  BY DEF ConsoleInv
<1>0. s \in Session
  BY <1>type DEF IsRoot, ConsoleTypeOK, AnySession
<1>1. /\ live' = [live EXCEPT ![m] = FALSE]
      /\ cancelled' = [x \in Member |-> cancelled[x] \/ x \in D]
      /\ closing' = [closing EXCEPT ![s] = TRUE]
      /\ restore' = [x \in Member |-> IF x \in members[s] THEN NoMember ELSE restore[x]]
      /\ command' = [x \in Member |-> command[x] /\ x \notin members[s] \cup {m}]
      /\ owner' = [owner EXCEPT ![s] = NoMember]
      /\ root' = [root EXCEPT ![s] = NoMember]
      /\ active' = IF active = s THEN NoSession ELSE active
      /\ sessionRefs' = [sessionRefs EXCEPT ![s] = @ - Bit(active = s)]
      /\ references' = [x \in Member |->
           references[x] - PointersFrom(members[s], restore, x)
             - Bit(x = owner[s]) - Bit(x = m)]
      /\ UNCHANGED <<session, shell, exitRequested, members>>
  BY Zenon DEF MemberExit, CloseSession
<1>2. root[s] = m /\ m \in members[s] /\ live[m] /\ members[s] \subseteq Member
  BY <1>type, <1>0 DEF IsRoot, MembershipMutual, MemberExit, ConsoleTypeOK
<1>3. ~closing[s] /\ active = s
  BY Zenon, <1>0, <1>2, MemberAssumption DEF ConsoleInv, ClosedIsInert
<1> HIDE DEF s
<1>4. /\ restore' \in [Member -> AnyMember] /\ owner' \in [Session -> AnyMember]
      /\ root' \in [Session -> AnyMember]
  BY Zenon, <1>1, <1>type DEF ConsoleTypeOK, AnyMember
<1>a. MembershipMutual'
  BY Zenon, <1>1, <1>type DEF MembershipMutual
<1>b. NoDanglingPointer'
  <2>1. ASSUME NEW x \in Member, restore'[x] # NoMember
        PROVE  /\ live'[x] /\ live'[restore'[x]]
               /\ session'[x] # NoSession /\ session'[restore'[x]] = session'[x]
    <3>1. restore'[x] = restore[x] /\ x \notin members[s] /\ restore[x] \in Member
      BY <1>1, <2>1, <1>type DEF ConsoleTypeOK, AnyMember
    <3>2. session[x] # s
      BY <1>0, <3>1, <1>type DEF MembershipMutual
    <3>3. live[x] /\ live[restore[x]] /\ session[x] # NoSession /\ session[restore[x]] = session[x]
      BY Zenon, <2>1, <3>1, <1>type, LinkIsLive
    <3>4. restore[x] # m /\ x # m
      BY Zenon, <3>2, <3>3 DEF s
    <3> QED BY <1>1, <2>1, <3>1, <3>3, <3>4, <1>type DEF ConsoleTypeOK
  <2>2. ASSUME NEW r \in Session, NEW x \in {owner'[r], root'[r]} \ {NoMember}
        PROVE  live'[x] /\ session'[x] = r
    <3>1. r # s /\ x \in {owner[r], root[r]} \ {NoMember} /\ x \in Member
      BY <1>1, <2>2, <1>type DEF ConsoleTypeOK, AnyMember
    <3>2. live[x] /\ session[x] = r
      BY Zenon, <3>1, <1>type, HolderIsLive
    <3>3. x # m
      BY <3>1, <3>2 DEF s
    <3> QED BY <1>1, <3>1, <3>2, <3>3, <1>type DEF ConsoleTypeOK
  <2> QED BY SMTT(40), <2>1, <2>2 DEF NoDanglingPointer
<1>c. ReferencesExact'
  <2> SUFFICES ASSUME NEW x \in Member
               PROVE  references'[x] = PointersTo(restore', x) + PointersTo(owner', x) + PointersTo(root', x)
    BY DEF ReferencesExact
  <2>1. /\ restore \in [Member -> AnyMember] /\ owner \in [Session -> AnyMember]
        /\ root \in [Session -> AnyMember] /\ x # NoMember
        /\ IsFiniteSet(Member) /\ IsFiniteSet(Session)
    BY <1>type, MemberAssumption, SessionAssumption DEF ConsoleTypeOK
  <2>2. PointersTo(restore, x) \in Nat /\ PointersTo(owner, x) \in Nat /\ PointersTo(root, x) \in Nat
    BY Zenon, <2>1, PointersType
  <2> DEFINE dropped == PointersFrom(members[s], restore, x)
  <2>3. dropped \in Nat /\ PointersTo(restore', x) = PointersTo(restore, x) - dropped
    <3>1. restore \in [Member -> AnyMember] /\ restore' \in [Member -> AnyMember] /\ IsFiniteSet(Member)
      BY <1>4, <2>1
    <3>2. /\ \A r \in members[s] : restore'[r] # x
          /\ \A r \in Member \ members[s] : restore'[r] = restore[r]
      BY Zenon, <1>1, <1>2, <2>1
    <3>3. members[s] \in SUBSET Member
      BY Zenon, <1>2
    <3> QED BY ONLY <3>1, <3>2, <3>3, PointersCleared
  <2>4. PointersTo(owner', x) = PointersTo(owner, x) - (IF owner[s] = x THEN 1 ELSE 0)
    <3>1. /\ owner \in [Session -> AnyMember] /\ owner' \in [Session -> AnyMember] /\ IsFiniteSet(Session)
          /\ s \in Session /\ \A r \in Session \ {s} : owner'[r] = owner[r]
      BY Zenon, <1>0, <1>1, <1>4, <2>1
    <3>2. PointersTo(owner', x) = PointersTo(owner, x) - (IF owner[s] = x THEN 1 ELSE 0)
                                                       + (IF owner'[s] = x THEN 1 ELSE 0)
      BY ONLY <3>1, PointersOne
    <3>3. owner'[s] # x
      BY Zenon, <1>0, <1>1, <2>1
    <3> QED BY <2>2, <3>2, <3>3
  <2>5. PointersTo(root', x) = PointersTo(root, x) - (IF m = x THEN 1 ELSE 0)
    <3>1. /\ root \in [Session -> AnyMember] /\ root' \in [Session -> AnyMember] /\ IsFiniteSet(Session)
          /\ s \in Session /\ \A r \in Session \ {s} : root'[r] = root[r]
      BY Zenon, <1>0, <1>1, <1>4, <2>1
    <3>2. PointersTo(root', x) = PointersTo(root, x) - (IF root[s] = x THEN 1 ELSE 0)
                                                     + (IF root'[s] = x THEN 1 ELSE 0)
      BY ONLY <3>1, PointersOne
    <3>3. root'[s] # x
      BY Zenon, <1>0, <1>1, <2>1
    <3> QED BY <1>2, <2>2, <3>2, <3>3
  <2>6. references[x] = PointersTo(restore, x) + PointersTo(owner, x) + PointersTo(root, x)
    BY DEF ConsoleInv, ReferencesExact
  <2>7. references'[x] = references[x] - dropped - Bit(x = owner[s]) - Bit(x = m)
    BY Zenon, <1>1
  <2> HIDE DEF dropped
  <2> QED BY <2>2, <2>3, <2>4, <2>5, <2>6, <2>7 DEF Bit
<1>d. SessionReferencesExact'
  <2> SUFFICES ASSUME NEW r \in Session
               PROVE  sessionRefs'[r] = Cardinality(members'[r]) + Bit(active' = r)
    BY DEF SessionReferencesExact
  <2>1. sessionRefs[r] = Cardinality(members[r]) + Bit(active = r)
    BY DEF ConsoleInv, SessionReferencesExact
  <2>2. Cardinality(members[r]) \in Nat
    BY <1>type, FS_Subset, FS_CardinalityType, MemberAssumption DEF ConsoleTypeOK
  <2>3. sessionRefs'[r] = IF r = s THEN sessionRefs[r] - 1 ELSE sessionRefs[r]
    BY Zenon, <1>1, <1>3, <1>type DEF ConsoleTypeOK, Bit
  <2>4. active' = NoSession /\ members' = members
    BY Zenon, <1>1, <1>3
  <2> QED BY <1>3, <2>1, <2>2, <2>3, <2>4, SessionAssumption DEF Bit
<1>e. ConsoleTypeOK'
  <2>1. \A x \in Member : references'[x] \in Nat
    BY Zenon, <1>4, <1>c, CountsAreNat
  <2>2. references' \in [Member -> Nat]
    BY Zenon, <1>1, <2>1
  <2>3. \A r \in Session : sessionRefs'[r] \in Nat
    <3> TAKE r \in Session
    <3>1. Cardinality(members'[r]) \in Nat
      BY Zenon, <1>1, <1>type, FS_Subset, FS_CardinalityType, MemberAssumption DEF ConsoleTypeOK
    <3> QED BY SMTT(40), <1>d, <3>1 DEF SessionReferencesExact, Bit
  <2>4. sessionRefs' \in [Session -> Nat]
    BY Zenon, <1>1, <2>3, <1>type DEF ConsoleTypeOK
  <2> QED BY Zenon, <1>1, <1>4, <2>2, <2>4, <1>type DEF ConsoleTypeOK, AnySession
<1>f. FreeIsClean'
  <2> SUFFICES ASSUME NEW r \in Session, sessionRefs'[r] = 0
               PROVE  /\ ~closing'[r] /\ ~exitRequested'[r] /\ root'[r] = NoMember
                      /\ owner'[r] = NoMember /\ members'[r] = {}
    BY Zenon DEF FreeIsClean
  <2>1. r # s
    <3>1. Cardinality(members'[s]) \in Nat /\ Cardinality(members'[s]) # 0
      BY Zenon, <1>0, <1>1, <1>2, <1>type, FS_Subset, FS_CardinalityType, FS_EmptySet, MemberAssumption DEF ConsoleTypeOK
    <3> QED BY <1>d, <1>0, <3>1 DEF SessionReferencesExact, Bit
  <2>2. sessionRefs[r] = 0
    BY Zenon, <1>1, <2>1, <1>type DEF ConsoleTypeOK
  <2> QED BY Zenon, <1>1, <2>1, <2>2, <1>type DEF ConsoleInv, FreeIsClean, ConsoleTypeOK
<1>g. ClosedIsInert'
  <2> SUFFICES ASSUME NEW r \in Session
               PROVE  /\ active' = r => members'[r] # {}
                      /\ members'[r] # {} =>
                           IF closing'[r]
                           THEN /\ active' # r /\ owner'[r] = NoMember /\ root'[r] = NoMember
                                /\ \A x \in members'[r] :
                                     ~command'[x] /\ restore'[x] = NoMember /\ (live'[x] => cancelled'[x])
                           ELSE active' = r /\ root'[r] # NoMember
    BY SMTT(40) DEF ClosedIsInert
  <2>0. active' = NoSession
    BY Zenon, <1>1, <1>3
  <2>1. CASE r = s
    <3>1. closing'[r] /\ owner'[r] = NoMember /\ root'[r] = NoMember
      BY SMTT(40), <1>0, <1>1, <2>1, <1>type DEF ConsoleTypeOK
    <3>2. ASSUME NEW x \in members'[r]
          PROVE  ~command'[x] /\ restore'[x] = NoMember /\ (live'[x] => cancelled'[x])
      <4>1. x \in members[s] /\ x \in Member /\ (x # m => x \in D)
        BY Zenon, <1>1, <1>2, <2>1, <3>2 DEF s
      <4> QED BY Zenon, <1>1, <4>1, <1>type DEF ConsoleTypeOK
    <3> QED BY SMTT(40), <2>0, <3>1, <3>2, SessionAssumption
  <2>2. CASE r # s
    <3>1. /\ members'[r] = members[r] /\ closing'[r] = closing[r]
          /\ owner'[r] = owner[r] /\ root'[r] = root[r] /\ active # r
      BY Zenon, <1>1, <1>3, <2>2, <1>type DEF ConsoleTypeOK
    <3>2. \A x \in members[r] : x \in Member /\ x # m /\ x \notin members[s]
      BY <1>0, <1>2, <2>2, <1>type DEF ConsoleTypeOK, MembershipMutual
    <3>3. \A x \in members[r] : /\ command'[x] = command[x] /\ restore'[x] = restore[x]
                                /\ live'[x] = live[x] /\ (cancelled[x] => cancelled'[x])
      BY Zenon, <1>1, <3>2, <1>type DEF ConsoleTypeOK
    <3> QED BY ZenonT(40), <2>0, <3>1, <3>3, SessionAssumption DEF ConsoleInv, ClosedIsInert
  <2> QED BY Zenon, <2>1, <2>2
<1>h. CommandOfShell'
  <2> SUFFICES ASSUME NEW x \in Member, command'[x] PROVE FALSE
    BY DEF CommandOfShell
  <2>1. command[x] /\ x \notin members[s]
    BY ZenonT(40), <1>1
  <2>2. session[x] = s
    BY Zenon, <1>3, <2>1 DEF ConsoleInv, CommandOfShell
  <2> QED BY <1>0, <2>1, <2>2, <1>type DEF MembershipMutual
<1> QED BY <1>a, <1>b, <1>c, <1>d, <1>e, <1>f, <1>g, <1>h DEF ConsoleInv

(* A member's exit from an open session: its own link goes, the links to it *)
(* move to where it pointed, and the owner moves if it must.                *)
LEMMA LeaveSessionInv ==
  ASSUME ConsoleInv, Ranked, NEW m \in Member, NEW D, MemberExit(m, D),
         ~IsRoot(m), session[m] # NoSession, ~closing[session[m]]
  PROVE  ConsoleInv' /\ Ranked'
<1> DEFINE s == session[m]
           own == owner[s]
           canc == [x \in Member |-> cancelled[x] \/ x \in D]
           heirs == {x \in members[s] : restore[x] = m}
           returning == own = m \/ \E k \in 0..(Limit - 1) : Chain(restore, own)[k] = m
           redirected == [x \in Member |-> IF x \in heirs THEN restore[m] ELSE restore[x]]
           moves == returning /\ (own = m \/ canc[own])
           able == {x \in Member : live[x] /\ x # m /\ ~canc[x] /\ session[x] = s}
           next == IF moves THEN Previous(redirected, own, able) ELSE own
           moved == PointersFrom(members[s], restore, m)
<1>type. ConsoleTypeOK /\ MembershipMutual /\ NoDanglingPointer
  BY DEF ConsoleInv
<1>0. s \in Session /\ live[m]
  BY <1>type DEF ConsoleTypeOK, AnySession, MemberExit
<1>1. /\ live' = [live EXCEPT ![m] = FALSE]
      /\ cancelled' = canc
      /\ restore' = [redirected EXCEPT ![m] = NoMember]
      /\ owner' = [owner EXCEPT ![s] = next]
      /\ command' = [command EXCEPT ![m] = FALSE]
      /\ references' = [x \in Member |->
           references[x]
             - (IF x = m THEN moved ELSE 0)
             + (IF x = restore[m] THEN moved ELSE 0)
             - Bit(x = own) + Bit(x = next)
             - Bit(x = redirected[m])]
      /\ UNCHANGED <<sessionRefs, closing, root, active>>
      /\ UNCHANGED <<session, shell, exitRequested, members>>
  BY Zenon DEF MemberExit, LeaveSession
<1>2. m \in members[s] /\ root[s] # m /\ root[s] # NoMember /\ active = s
  BY Zenon, <1>0, <1>type DEF IsRoot, MembershipMutual, ConsoleInv, ClosedIsInert
<1>3. /\ next \in AnyMember /\ next # m
      /\ next # NoMember => live[next] /\ session[next] = s
  <2>1. CASE moves
    <3>1. next \in able \cup {NoMember}
      BY Zenon, <2>1, PreviousAmong
    <3> QED BY Zenon, <3>1, MemberAssumption DEF AnyMember
  <2>2. CASE ~moves
    <3>1. next = own /\ own # m
      BY Zenon, <2>2
    <3>2. own \in AnyMember /\ (own # NoMember => live[own] /\ session[own] = s)
      BY <1>0, <1>type DEF ConsoleTypeOK, NoDanglingPointer
    <3> HIDE DEF next, own
    <3> QED BY Zenon, <3>1, <3>2
  <2> QED BY Zenon, <2>1, <2>2
<1> HIDE DEF next
<1>4. PICK rank \in [Member -> Nat] :
        \A x \in Member : restore[x] \in Member => rank[restore[x]] < rank[x]
  BY Zenon DEF Ranked
<1>5. restore[m] \in AnyMember /\ restore[m] # m
  BY <1>4, <1>type DEF ConsoleTypeOK
\* All links to m are in its session.
<1>6. \A x \in Member : x \in heirs <=> restore[x] = m
  BY SMTT(40), <1>0, <1>type, MemberAssumption DEF NoDanglingPointer, MembershipMutual
<1>7. /\ redirected \in [Member -> AnyMember]
      /\ \A x \in Member : redirected[x] = IF restore[x] = m THEN restore[m] ELSE restore[x]
      /\ redirected[m] = restore[m]
  BY <1>5, <1>6, <1>type DEF ConsoleTypeOK
<1> HIDE DEF redirected
<1>8. \A x \in Member : restore'[x] = IF x = m THEN NoMember
                                      ELSE IF restore[x] = m THEN restore[m] ELSE restore[x]
  BY Zenon, <1>1, <1>7
<1>9. restore' \in [Member -> AnyMember] /\ owner' \in [Session -> AnyMember]
  BY ZenonT(40), <1>1, <1>3, <1>7, <1>type DEF ConsoleTypeOK, AnyMember
<1>10. owner'[s] = next /\ \A r \in Session \ {s} : owner'[r] = owner[r]
  BY Zenon, <1>0, <1>1, <1>type DEF ConsoleTypeOK
<1>11. live'[m] = FALSE /\ \A x \in Member \ {m} : live'[x] = live[x]
  BY Zenon, <1>1, <1>type DEF ConsoleTypeOK
<1>a. MembershipMutual'
  BY Zenon, <1>1, <1>type DEF MembershipMutual
<1>b. NoDanglingPointer'
  <2>1. ASSUME NEW x \in Member, restore'[x] # NoMember
        PROVE  /\ live'[x] /\ live'[restore'[x]]
               /\ session'[x] # NoSession /\ session'[restore'[x]] = session'[x]
    <3>1. x # m /\ restore'[x] \in Member /\ restore'[x] # m /\ restore[x] # NoMember
      BY Zenon, <1>5, <1>8, <1>9, <2>1, MemberAssumption DEF AnyMember
    <3>2. live[x] /\ session[x] # NoSession /\ live[restore[x]] /\ session[restore[x]] = session[x]
      BY Zenon, <3>1, <1>type, LinkIsLive
    <3>3. live[restore'[x]] /\ session[restore'[x]] = session[x]
      <4>1. CASE restore[x] = m
        <5>1. restore'[x] = restore[m] /\ restore[m] # NoMember
          BY Zenon, <1>8, <2>1, <3>1, <4>1
        <5>2. live[restore[m]] /\ session[restore[m]] = session[m]
          BY Zenon, <5>1, <1>type, LinkIsLive
        <5> QED BY Zenon, <3>2, <4>1, <5>1, <5>2
      <4>2. CASE restore[x] # m
        BY Zenon, <1>8, <3>1, <3>2, <4>2
      <4> QED BY Zenon, <4>1, <4>2
    <3> QED BY Zenon, <1>1, <1>11, <3>1, <3>2, <3>3
  <2>2. ASSUME NEW r \in Session, NEW x \in {owner'[r], root'[r]} \ {NoMember}
        PROVE  live'[x] /\ session'[x] = r
    <3>1. x \in Member /\ x # m /\ live[x] /\ session[x] = r
      <4>1. CASE x = owner'[r]
        <5>1. CASE r = s
          BY Zenon, <1>3, <1>10, <2>2, <4>1, <5>1 DEF AnyMember
        <5>2. CASE r # s
          <6>1. x = owner[r] /\ x # NoMember
            BY Zenon, <1>10, <2>2, <4>1, <5>2
          <6>2. x \in Member
            BY Zenon, <6>1, <1>type DEF ConsoleTypeOK, AnyMember
          <6>3. live[x] /\ session[x] = r
            BY Zenon, <6>1, <1>type, HolderIsLive
          <6> QED BY Zenon, <5>2, <6>2, <6>3
        <5> QED BY Zenon, <5>1, <5>2
      <4>2. CASE x = root'[r]
        <5>1. x = root[r] /\ x \in Member
          BY Zenon, <1>1, <2>2, <4>2, <1>type DEF ConsoleTypeOK, AnyMember
        <5>2. live[x] /\ session[x] = r
          BY Zenon, <2>2, <5>1, <1>type, HolderIsLive
        <5> QED BY Zenon, <1>2, <5>1, <5>2
      <4> QED BY Zenon, <2>2, <4>1, <4>2
    <3> QED BY Zenon, <1>1, <1>11, <3>1
  <2> QED BY Zenon, <2>1, <2>2 DEF NoDanglingPointer
<1>c. ReferencesExact'
  <2> SUFFICES ASSUME NEW x \in Member
               PROVE  references'[x] = PointersTo(restore', x) + PointersTo(owner', x) + PointersTo(root', x)
    BY Zenon DEF ReferencesExact
  <2>1. /\ restore \in [Member -> AnyMember] /\ owner \in [Session -> AnyMember]
        /\ root \in [Session -> AnyMember] /\ x # NoMember
        /\ IsFiniteSet(Member) /\ IsFiniteSet(Session)
    BY <1>type, MemberAssumption, SessionAssumption DEF ConsoleTypeOK
  <2>2. /\ PointersTo(restore, x) \in Nat /\ PointersTo(owner, x) \in Nat /\ PointersTo(root, x) \in Nat
        /\ PointersTo(restore, m) \in Nat
    BY Zenon, <2>1, PointersType
  <2>3. moved = PointersTo(restore, m)
    <3>1. heirs = {y \in DOMAIN restore : restore[y] = m}
      BY <1>0, <1>6, <2>1, <1>type DEF ConsoleTypeOK
    <3> QED BY Zenon, <3>1 DEF PointersTo, PointersFrom
  <2>4. PointersTo(redirected, x) = PointersTo(restore, x)
                                     - (IF x = m THEN PointersTo(restore, m) ELSE 0)
                                     + (IF x = restore[m] THEN PointersTo(restore, m) ELSE 0)
    <3>1. restore \in [Member -> AnyMember] /\ restore[m] # m /\ m \in Member
      BY <1>5, <2>1
    <3> QED BY ONLY <1>7, <3>1, PointersMoved
  <2>5. PointersTo(restore', x) = PointersTo(redirected, x) - (IF restore[m] = x THEN 1 ELSE 0)
    <3>1. /\ redirected \in [Member -> AnyMember] /\ restore' \in [Member -> AnyMember]
          /\ IsFiniteSet(Member) /\ m \in Member
          /\ \A r \in Member \ {m} : restore'[r] = redirected[r]
      BY Zenon, <1>1, <1>7, <1>9, <2>1
    <3>2. PointersTo(restore', x) = PointersTo(redirected, x) - (IF redirected[m] = x THEN 1 ELSE 0)
                                                              + (IF restore'[m] = x THEN 1 ELSE 0)
      BY ONLY SMTT(40), <3>1, PointersOne
    <3>3. restore'[m] # x /\ redirected[m] = restore[m] /\ PointersTo(redirected, x) \in Nat
      BY ZenonT(40), <1>7, <1>8, <2>1, PointersType
    <3> QED BY ONLY <3>2, <3>3
  <2>6. PointersTo(owner', x) = PointersTo(owner, x) - (IF own = x THEN 1 ELSE 0)
                                                     + (IF next = x THEN 1 ELSE 0)
    <3>1. /\ owner \in [Session -> AnyMember] /\ owner' \in [Session -> AnyMember] /\ IsFiniteSet(Session)
          /\ s \in Session /\ \A r \in Session \ {s} : owner'[r] = owner[r]
      BY Zenon, <1>0, <1>9, <1>10, <2>1
    <3>2. PointersTo(owner', x) = PointersTo(owner, x) - (IF owner[s] = x THEN 1 ELSE 0)
                                                       + (IF owner'[s] = x THEN 1 ELSE 0)
      <4> HIDE DEF s
      <4> QED BY ONLY <3>1, PointersOne
    <3> QED BY Zenon, <1>10, <3>2
  <2>7. references[x] = PointersTo(restore, x) + PointersTo(owner, x) + PointersTo(root, x)
    BY DEF ConsoleInv, ReferencesExact
  <2>8. references'[x] = references[x] - (IF x = m THEN moved ELSE 0)
                           + (IF x = restore[m] THEN moved ELSE 0)
                           - Bit(x = own) + Bit(x = next) - Bit(x = redirected[m])
    BY Zenon, <1>1
  <2>9. root' = root /\ redirected[m] = restore[m]
    BY Zenon, <1>1, <1>7
  <2> HIDE DEF moved, own
  <2> QED BY ONLY SMTT(40), <2>2, <2>3, <2>4, <2>5, <2>6, <2>7, <2>8, <2>9 DEF Bit
<1>d. SessionReferencesExact' /\ FreeIsClean'
  <2>1. SessionReferencesExact'
    BY Zenon, <1>1 DEF ConsoleInv, SessionReferencesExact
  <2>2. \A r \in Session : sessionRefs'[r] = 0 => r # s
    BY Zenon, <1>1, <1>2 DEF ConsoleInv, FreeIsClean
  <2>3. FreeIsClean'
    BY Zenon, <1>1, <1>10, <2>2 DEF ConsoleInv, FreeIsClean
  <2> QED BY Zenon, <2>1, <2>3
<1>e. ConsoleTypeOK'
  <2>1. \A x \in Member : references'[x] \in Nat
    <3>1. root' \in [Session -> AnyMember]
      BY Zenon, <1>1, <1>type DEF ConsoleTypeOK
    <3> QED BY Zenon, <1>9, <1>c, <3>1, CountsAreNat
  <2>2. references' \in [Member -> Nat]
    BY Zenon, <1>1, <2>1
  <2> QED BY Zenon, <1>1, <1>9, <2>2, <1>type DEF ConsoleTypeOK
<1>f. ClosedIsInert'
  <2> SUFFICES ASSUME NEW r \in Session
               PROVE  /\ active' = r => members'[r] # {}
                      /\ members'[r] # {} =>
                           IF closing'[r]
                           THEN /\ active' # r /\ owner'[r] = NoMember /\ root'[r] = NoMember
                                /\ \A x \in members'[r] :
                                     ~command'[x] /\ restore'[x] = NoMember /\ (live'[x] => cancelled'[x])
                           ELSE active' = r /\ root'[r] # NoMember
    BY Zenon DEF ClosedIsInert
  <2>1. CASE r = s
    BY Zenon, <1>1, <1>2, <2>1
  <2>2. CASE r # s
    <3>1. owner'[r] = owner[r]
      BY Zenon, <1>10, <2>2
    <3>2. \A x \in members[r] : x \in Member /\ x # m
      BY <1>2, <1>0, <2>2, <1>type DEF ConsoleTypeOK, MembershipMutual
    <3>3. \A x \in members[r] : /\ command'[x] = command[x]
                                /\ live'[x] = live[x] /\ (cancelled[x] => cancelled'[x])
      BY Zenon, <1>1, <3>2, <1>type DEF ConsoleTypeOK
    <3>4. \A x \in members[r] : restore[x] = NoMember => restore'[x] = NoMember
      BY Zenon, <1>8, <3>2, MemberAssumption
    <3> QED BY Zenon, <1>1, <3>1, <3>3, <3>4 DEF ConsoleInv, ClosedIsInert
  <2> QED BY Zenon, <2>1, <2>2
<1>g. CommandOfShell'
  <2> SUFFICES ASSUME NEW x \in Member, command'[x]
               PROVE  /\ live'[x] /\ session'[x] # NoSession /\ session'[x] = active'
                      /\ restore'[x] # NoMember /\ restore'[x] = root'[active'] /\ shell'[restore'[x]]
    BY Zenon DEF CommandOfShell
  <2>1. x # m /\ command[x]
    BY Zenon, <1>1, <1>type DEF ConsoleTypeOK
  <2>2. /\ live[x] /\ session[x] # NoSession /\ session[x] = active
        /\ restore[x] # NoMember /\ restore[x] = root[active] /\ shell[restore[x]]
    BY Zenon, <2>1 DEF ConsoleInv, CommandOfShell
  <2>3. restore[x] # m /\ restore'[x] = restore[x]
    BY Zenon, <1>2, <1>8, <2>1, <2>2
  <2> QED BY Zenon, <1>1, <1>11, <2>1, <2>2, <2>3
<1>h. Ranked'
  <2>1. ASSUME NEW x \in Member, restore'[x] \in Member
        PROVE  rank[restore'[x]] < rank[x]
    <3>1. x # m /\ restore'[x] = IF restore[x] = m THEN restore[m] ELSE restore[x]
      BY <1>8, <2>1, MemberAssumption
    <3>2. CASE restore[x] = m
      BY SMTT(40), <1>4, <2>1, <3>1, <3>2
    <3>3. CASE restore[x] # m
      BY Zenon, <1>4, <2>1, <3>1, <3>3
    <3> QED BY <3>2, <3>3
  <2> QED BY Zenon, <2>1, <1>4 DEF Ranked
<1> QED BY Zenon, <1>a, <1>b, <1>c, <1>d, <1>e, <1>f, <1>g, <1>h DEF ConsoleInv

(* Outside an open session there is nothing to give back. *)
LEMMA LeaveNothingInv ==
  ASSUME ConsoleInv, NEW m \in Member, NEW D, MemberExit(m, D),
         ~IsRoot(m), session[m] = NoSession \/ closing[session[m]]
  PROVE  ConsoleInv' /\ restore' = restore
<1>type. ConsoleTypeOK /\ MembershipMutual /\ NoDanglingPointer
  BY DEF ConsoleInv
<1>1. /\ live' = [live EXCEPT ![m] = FALSE]
      /\ cancelled' = [x \in Member |-> cancelled[x] \/ x \in D]
      /\ restore' = [restore EXCEPT ![m] = NoMember]
      /\ command' = [command EXCEPT ![m] = FALSE]
      /\ references' = [x \in Member |-> references[x] - Bit(x = restore[m])]
      /\ UNCHANGED <<sessionRefs, closing, root, owner, active>>
      /\ UNCHANGED <<session, shell, exitRequested, members>>
  BY Zenon DEF MemberExit, LeaveNothing
<1>2. session[m] # NoSession =>
        /\ session[m] \in Session /\ m \in members[session[m]]
        /\ owner[session[m]] = NoMember /\ root[session[m]] = NoMember
        /\ \A x \in members[session[m]] : restore[x] = NoMember
  BY SMTT(40), <1>type DEF ConsoleTypeOK, AnySession, MembershipMutual, ConsoleInv, ClosedIsInert
<1>3. restore[m] = NoMember
  BY Zenon, <1>2, <1>type DEF NoDanglingPointer
<1>4. /\ \A x \in Member : restore[x] # m
      /\ \A r \in Session : owner[r] # m /\ root[r] # m
  <2>1. ASSUME NEW x \in Member, restore[x] = m PROVE FALSE
    <3>1. session[x] # NoSession /\ session[m] = session[x]
      <4>1. restore[x] # NoMember
        BY Zenon, <2>1, MemberAssumption
      <4> QED BY Zenon, <2>1, <4>1, <1>type, LinkIsLive
    <3>2. x \in members[session[m]]
      BY <1>2, <3>1, <1>type DEF MembershipMutual
    <3> QED BY Zenon, <1>2, <2>1, <3>1, <3>2, MemberAssumption
  <2>2. ASSUME NEW r \in Session, owner[r] = m \/ root[r] = m PROVE FALSE
    <3>1. session[m] = r
      <4>1. m \in {owner[r], root[r]} \ {NoMember}
        BY Zenon, <2>2, MemberAssumption
      <4> QED BY Zenon, <4>1, <1>type, HolderIsLive
    <3> QED BY Zenon, <1>2, <2>2, <3>1, SessionAssumption, MemberAssumption
  <2> QED BY Zenon, <2>1, <2>2
<1>5. restore' = restore
  BY Zenon, <1>1, <1>3, <1>type DEF ConsoleTypeOK
<1>6. references' = references
  <2>1. \A x \in Member : references'[x] = references[x]
    BY <1>1, <1>3, <1>type, MemberAssumption DEF ConsoleTypeOK, Bit
  <2> QED BY SMTT(40), <1>1, <2>1, <1>type DEF ConsoleTypeOK
<1>7. \A x \in Member \ {m} : live'[x] = live[x] /\ command'[x] = command[x]
  BY Zenon, <1>1, <1>type DEF ConsoleTypeOK
<1>8. ~live'[m] /\ ~command'[m]
  BY <1>1, <1>type DEF ConsoleTypeOK
<1>9. session' = session /\ owner' = owner /\ root' = root
  BY Zenon, <1>1
<1>a. ConsoleTypeOK' /\ MembershipMutual'
  BY SMTT(40), <1>1, <1>5, <1>6, <1>type DEF ConsoleTypeOK, MembershipMutual
<1>b. NoDanglingPointer'
  <2>1. ASSUME NEW x \in Member, restore'[x] # NoMember
        PROVE  /\ live'[x] /\ live'[restore'[x]]
               /\ session'[x] # NoSession /\ session'[restore'[x]] = session'[x]
    <3>1. restore[x] # NoMember /\ restore[x] \in Member /\ restore[x] # m /\ x # m
      BY Zenon, <1>3, <1>4, <1>5, <2>1, <1>type DEF ConsoleTypeOK, AnyMember
    <3>2. live[x] /\ live[restore[x]] /\ session[x] # NoSession /\ session[restore[x]] = session[x]
      BY Zenon, <3>1, <1>type, LinkIsLive
    <3> QED BY Zenon, <1>5, <1>7, <1>9, <3>1, <3>2
  <2>2. ASSUME NEW r \in Session, NEW x \in {owner'[r], root'[r]} \ {NoMember}
        PROVE  live'[x] /\ session'[x] = r
    <3>1. x \in {owner[r], root[r]} \ {NoMember} /\ x \in Member /\ x # m
      BY SMTT(40), <1>4, <1>9, <2>2, <1>type DEF ConsoleTypeOK, AnyMember
    <3>2. live[x] /\ session[x] = r
      BY Zenon, <3>1, <1>type, HolderIsLive
    <3> QED BY Zenon, <1>7, <1>9, <3>1, <3>2
  <2> QED BY Zenon, <2>1, <2>2 DEF NoDanglingPointer
<1>c. ReferencesExact' /\ SessionReferencesExact' /\ FreeIsClean'
  BY Zenon, <1>1, <1>5, <1>6 DEF ConsoleInv, ReferencesExact, SessionReferencesExact, FreeIsClean
<1>d. ClosedIsInert'
  <2>1. \A x \in Member : /\ (~command[x] => ~command'[x])
                          /\ ((live[x] => cancelled[x]) => (live'[x] => cancelled'[x]))
    BY Zenon, <1>1, <1>7, <1>8, <1>type DEF ConsoleTypeOK
  <2>2. \A r \in Session : members[r] \subseteq Member
    BY <1>type DEF ConsoleTypeOK
  <2>3. UNCHANGED <<closing, owner, root, active, members, restore, sessionRefs, session, exitRequested>>
    BY Zenon, <1>1, <1>5
  <2> QED BY Zenon, <2>1, <2>2, <2>3 DEF ConsoleInv, ClosedIsInert
<1>e. CommandOfShell'
  <2>1. UNCHANGED <<active, root, session, shell, restore>>
    BY Zenon, <1>1, <1>5
  <2>2. CommandOfShell
    BY Zenon DEF ConsoleInv
  <2> QED BY ZenonT(40), <2>1, <2>2, <1>7, <1>8 DEF CommandOfShell
<1> QED BY Zenon, <1>5, <1>a, <1>b, <1>c, <1>d, <1>e DEF ConsoleInv

LEMMA MemberExitInv ==
  ASSUME ConsoleInv, Ranked, NEW m \in Member, NEW D, MemberExit(m, D),
         IsRoot(m) => members[session[m]] \ {m} \subseteq D
  PROVE  ConsoleInv' /\ Ranked'
<1>1. CASE IsRoot(m)
  <2>1. ConsoleInv'
    BY <1>1, CloseSessionInv
  <2>2. PICK rank \in [Member -> Nat] :
          \A x \in Member : restore[x] \in Member => rank[restore[x]] < rank[x]
    BY Zenon DEF Ranked
  <2>3. \A x \in Member : restore'[x] \in Member => restore'[x] = restore[x]
    BY ZenonT(40), <1>1, MemberAssumption DEF MemberExit, CloseSession
  <2> QED BY Zenon, <2>1, <2>2, <2>3 DEF Ranked
<1>2. CASE ~IsRoot(m) /\ session[m] # NoSession /\ ~closing[session[m]]
  BY Zenon, <1>2, LeaveSessionInv
<1>3. CASE ~IsRoot(m) /\ (session[m] = NoSession \/ closing[session[m]])
  <2>1. ConsoleInv' /\ restore' = restore
    BY <1>3, LeaveNothingInv
  <2> QED BY <2>1 DEF Ranked
<1> QED BY <1>1, <1>2, <1>3

(* Reclaiming records: the session structure is cleared only when nobody is *)
(* left in it, and then nothing in it was set.                              *)
LEMMA DetachInv ==
  ASSUME ConsoleInv, NEW R \in SUBSET Member, Detach(R)
  PROVE  ConsoleInv'
<1> DEFINE refs == [s \in Session |-> sessionRefs[s] - Cardinality(members[s] \cap R)]
           Emptied(s) == members[s] \cap R # {} /\ refs[s] = 0
<1>type. ConsoleTypeOK /\ MembershipMutual /\ NoDanglingPointer
  BY DEF ConsoleInv
<1>1. /\ members' = [s \in Session |-> members[s] \ R]
      /\ sessionRefs' = refs
      /\ closing' = [s \in Session |-> closing[s] /\ ~Emptied(s)]
      /\ exitRequested' = [s \in Session |-> exitRequested[s] /\ ~Emptied(s)]
      /\ root' = [s \in Session |-> IF Emptied(s) THEN NoMember ELSE root[s]]
      /\ owner' = [s \in Session |-> IF Emptied(s) THEN NoMember ELSE owner[s]]
      /\ session' = [m \in Member |-> IF m \in R THEN NoSession ELSE session[m]]
      /\ cancelled' = [m \in Member |-> cancelled[m] /\ m \notin R]
      /\ shell' = [m \in Member |-> shell[m] /\ m \notin R]
      /\ command' = [m \in Member |-> command[m] /\ m \notin R]
      /\ UNCHANGED <<restore, references, live, active>>
  BY Zenon DEF Detach
<1>2. \A m \in R : ~live[m] /\ restore[m] = NoMember
  BY Zenon DEF Detach, Detachable
<1>3. ASSUME NEW s \in Session
      PROVE  /\ refs[s] = Cardinality(members[s] \ R) + Bit(active = s)
             /\ refs[s] \in Nat
             /\ refs[s] = 0 => members[s] \subseteq R /\ active # s
  <2>1. IsFiniteSet(members[s]) /\ IsFiniteSet(members[s] \ R)
    BY <1>type, FS_Subset, MemberAssumption DEF ConsoleTypeOK
  <2>2. /\ Cardinality(members[s]) \in Nat /\ Cardinality(members[s] \ R) \in Nat
        /\ Cardinality(members[s] \cap R) \in Nat
        /\ Cardinality(members[s] \ R) = Cardinality(members[s]) - Cardinality(members[s] \cap R)
    BY Zenon, <2>1, CountRemoved
  <2>3. sessionRefs[s] = Cardinality(members[s]) + Bit(active = s) /\ Bit(active = s) \in {0, 1}
    BY Zenon DEF ConsoleInv, SessionReferencesExact, Bit
  <2>4. Cardinality(members[s] \ R) = 0 <=> members[s] \ R = {}
    BY Zenon, <2>1, FS_EmptySet
  <2>5. refs[s] = Cardinality(members[s] \ R) + Bit(active = s)
    BY SMTT(40), <2>2, <2>3
  <2>6. refs[s] \in Nat /\ (refs[s] = 0 => Cardinality(members[s] \ R) = 0 /\ Bit(active = s) = 0)
    <3> HIDE DEF refs
    <3> QED BY SMTT(40), <2>2, <2>3, <2>5
  <2>7. Bit(active = s) = 0 => active # s
    BY DEF Bit
  <2> QED BY Zenon, <2>4, <2>5, <2>6, <2>7
<1>4. ASSUME NEW s \in Session, Emptied(s)
      PROVE  members[s] \subseteq R /\ active # s /\ root[s] = NoMember /\ owner[s] = NoMember
  <2>1. active # s
    BY Zenon, <1>3, <1>4
  <2>2. members[s] \subseteq R
    BY Zenon, <1>3, <1>4
  <2>3. ASSUME NEW x \in {owner[s], root[s]} \ {NoMember} PROVE FALSE
    <3>1. x \in Member /\ live[x] /\ session[x] = s
      BY SMTT(40), <2>3, <1>type DEF NoDanglingPointer, ConsoleTypeOK, AnyMember
    <3> QED BY <1>2, <2>2, <3>1, <1>type DEF MembershipMutual
  <2> QED BY <2>1, <2>2, <2>3
<1>5. root' = root /\ owner' = owner
  BY Zenon, <1>1, <1>4, <1>type DEF ConsoleTypeOK
<1> HIDE DEF Emptied, refs
<1>a. ConsoleTypeOK'
  <2>1. sessionRefs' \in [Session -> Nat]
    <3>1. \A s \in Session : refs[s] \in Nat
      BY Zenon, <1>3
    <3> QED BY Zenon, <1>1, <3>1 DEF refs
  <2> QED BY Zenon, <1>1, <1>5, <2>1, <1>type DEF ConsoleTypeOK, AnySession
<1>b. MembershipMutual'
  BY Zenon, <1>1, <1>type, SessionAssumption DEF MembershipMutual
<1>c. NoDanglingPointer'
  <2>1. ASSUME NEW x \in Member, restore'[x] # NoMember
        PROVE  /\ live'[x] /\ live'[restore'[x]]
               /\ session'[x] # NoSession /\ session'[restore'[x]] = session'[x]
    <3>1. restore[x] \in Member /\ live[x] /\ live[restore[x]]
      BY SMTT(40), <1>1, <2>1, <1>type DEF NoDanglingPointer, ConsoleTypeOK, AnyMember
    <3>2. x \notin R /\ restore[x] \notin R
      BY Zenon, <1>2, <3>1
    <3> QED BY Zenon, <1>1, <2>1, <3>1, <3>2, <1>type DEF NoDanglingPointer
  <2>2. ASSUME NEW r \in Session, NEW x \in {owner'[r], root'[r]} \ {NoMember}
        PROVE  live'[x] /\ session'[x] = r
    <3>1. x \in Member /\ live[x] /\ session[x] = r
      BY SMTT(40), <1>5, <2>2, <1>type DEF NoDanglingPointer, ConsoleTypeOK, AnyMember
    <3> QED BY Zenon, <1>1, <1>2, <3>1
  <2> QED BY Zenon, <2>1, <2>2 DEF NoDanglingPointer
<1>d. ReferencesExact'
  BY Zenon, <1>1, <1>5 DEF ConsoleInv, ReferencesExact
<1>e. SessionReferencesExact'
  BY Zenon, <1>1, <1>3 DEF SessionReferencesExact
<1>f. FreeIsClean'
  <2> SUFFICES ASSUME NEW s \in Session, sessionRefs'[s] = 0
               PROVE  /\ ~closing'[s] /\ ~exitRequested'[s] /\ root'[s] = NoMember
                      /\ owner'[s] = NoMember /\ members'[s] = {}
    BY SMTT(40) DEF FreeIsClean
  <2>1. refs[s] = 0 /\ members[s] \subseteq R /\ active # s
    BY Zenon, <1>1, <1>3
  <2>2. CASE Emptied(s)
    BY Zenon, <1>1, <1>4, <1>5, <2>1, <2>2
  <2>3. CASE ~Emptied(s)
    <3>1. members[s] = {}
      BY Zenon, <2>1, <2>3 DEF Emptied
    <3>2. sessionRefs[s] = 0
      <4>1. Cardinality(members[s]) = 0 /\ Cardinality(members[s] \ R) = 0
        BY Zenon, <3>1, FS_EmptySet
      <4>2. Bit(active = s) = 0
        BY Zenon, <2>1 DEF Bit
      <4> QED BY SMTT(40), <4>1, <4>2 DEF ConsoleInv, SessionReferencesExact
    <3> QED BY Zenon, <1>1, <1>5, <3>1, <3>2 DEF ConsoleInv, FreeIsClean
  <2> QED BY Zenon, <2>2, <2>3
<1>g. ClosedIsInert'
  <2> SUFFICES ASSUME NEW s \in Session
               PROVE  /\ active' = s => members'[s] # {}
                      /\ members'[s] # {} =>
                           IF closing'[s]
                           THEN /\ active' # s /\ owner'[s] = NoMember /\ root'[s] = NoMember
                                /\ \A x \in members'[s] :
                                     ~command'[x] /\ restore'[x] = NoMember /\ (live'[x] => cancelled'[x])
                           ELSE active' = s /\ root'[s] # NoMember
    BY Zenon DEF ClosedIsInert
  <2>1. members'[s] = members[s] \ R /\ members[s] \subseteq Member
    BY Zenon, <1>1, <1>type DEF ConsoleTypeOK
  <2>2. active' = s => members'[s] # {}
    <3>1. ASSUME active = s PROVE members[s] \ R # {}
      <4>1. members[s] # {} /\ ~closing[s] /\ root[s] # NoMember
        BY Zenon, <3>1 DEF ConsoleInv, ClosedIsInert
      <4>2. root[s] \in Member /\ live[root[s]] /\ session[root[s]] = s
        BY SMTT(40), <4>1, <1>type DEF NoDanglingPointer, ConsoleTypeOK, AnyMember
      <4> QED BY <1>2, <4>2, <1>type DEF MembershipMutual
    <3> QED BY Zenon, <1>1, <2>1, <3>1
  <2>3. ASSUME members'[s] # {}
        PROVE  ~Emptied(s) /\ members[s] # {} /\ closing'[s] = closing[s]
    <3>1. ~Emptied(s)
      BY Zenon, <1>4, <2>1, <2>3
    <3> QED BY Zenon, <1>1, <2>1, <2>3, <3>1, <1>type DEF ConsoleTypeOK
  <2>4. \A x \in members'[s] : /\ x \in members[s] /\ command'[x] = command[x]
                               /\ live'[x] = live[x] /\ cancelled'[x] = cancelled[x]
    BY Zenon, <1>1, <2>1, <1>type DEF ConsoleTypeOK
  <2>5. members[s] # {} =>
          IF closing[s]
          THEN /\ active # s /\ owner[s] = NoMember /\ root[s] = NoMember
               /\ \A x \in members[s] :
                    ~command[x] /\ restore[x] = NoMember /\ (live[x] => cancelled[x])
          ELSE active = s /\ root[s] # NoMember
    BY Zenon DEF ConsoleInv, ClosedIsInert
  <2>6. active' = active /\ restore' = restore
    BY Zenon, <1>1
  <2> QED BY Zenon, <1>5, <2>2, <2>3, <2>4, <2>5, <2>6
<1>h. CommandOfShell'
  <2> SUFFICES ASSUME NEW x \in Member, command'[x]
               PROVE  /\ live'[x] /\ session'[x] # NoSession /\ session'[x] = active'
                      /\ restore'[x] # NoMember /\ restore'[x] = root'[active'] /\ shell'[restore'[x]]
    BY Zenon DEF CommandOfShell
  <2>1. /\ live[x] /\ session[x] # NoSession /\ session[x] = active /\ x \notin R
        /\ restore[x] # NoMember /\ restore[x] = root[active] /\ shell[restore[x]]
    BY Zenon, <1>1 DEF ConsoleInv, CommandOfShell
  <2>2. restore[x] \in Member /\ restore[x] \notin R
    BY SMTT(40), <1>2, <2>1, <1>type DEF NoDanglingPointer, ConsoleTypeOK, AnyMember
  <2> QED BY Zenon, <1>1, <1>5, <2>1, <2>2
<1> QED BY <1>a, <1>b, <1>c, <1>d, <1>e, <1>f, <1>g, <1>h DEF ConsoleInv

-----------------------------------------------------------------------------
(* The inductive step, for the steps of the session layer by itself. *)
LEMMA ConsoleNextInv ==
  ASSUME ConsoleInv, Ranked, [ConsoleNext]_consoleVars
  PROVE  ConsoleInv' /\ Ranked'
<1>1. ASSUME NEW m \in Member, Launch(m) PROVE ConsoleInv' /\ Ranked'
  BY <1>1, AttachInv, AttachRanked DEF Launch
<1>2. ASSUME NEW sh \in Member, NEW child \in Member, GrantCommand(sh, child)
      PROVE  ConsoleInv' /\ Ranked'
  <2>1. restore' = restore
    BY Zenon, <1>2 DEF GrantCommand, CanGrant
  <2> QED BY <1>2, <2>1, GrantCommandInv DEF Ranked
<1>3. ASSUME NEW m \in Member, Cancel(m) PROVE ConsoleInv' /\ Ranked'
  <2>1. restore' = restore /\ CancelMembers({m})
    BY Zenon, <1>3 DEF Cancel, CancelMembers
  <2> QED BY <2>1, CancelMembersInv DEF Ranked
<1>4. ASSUME NEW m \in Member, RequestExit(m) PROVE ConsoleInv' /\ Ranked'
  <2>1. restore' = restore
    BY <1>4 DEF RequestExit, memberVars
  <2> QED BY Zenon, <1>4, <2>1, RequestExitInv DEF Ranked
<1>5. ASSUME NEW m \in Member, NEW D \in SUBSET Member, Exit(m, D) PROVE ConsoleInv' /\ Ranked'
  BY <1>5, MemberExitInv DEF Exit
<1>6. ASSUME NEW R \in SUBSET Member, Detach(R) PROVE ConsoleInv' /\ Ranked'
  <2>1. restore' = restore
    BY Zenon, <1>6 DEF Detach
  <2> QED BY <1>6, <2>1, DetachInv DEF Ranked
<1>7. CASE UNCHANGED consoleVars
  <2> USE <1>7 DEF consoleVars
  <2>1. ConsoleTypeOK' /\ MembershipMutual' /\ NoDanglingPointer'
    BY SMTT(40) DEF ConsoleInv, ConsoleTypeOK, MembershipMutual, NoDanglingPointer
  <2>2. ReferencesExact' /\ SessionReferencesExact' /\ FreeIsClean'
    BY Zenon DEF ConsoleInv, ReferencesExact, SessionReferencesExact, FreeIsClean
  <2>3. ClosedIsInert' /\ CommandOfShell'
    BY Zenon DEF ConsoleInv, ClosedIsInert, CommandOfShell
  <2>4. Ranked'
    BY Zenon DEF Ranked
  <2> QED BY <2>1, <2>2, <2>3, <2>4 DEF ConsoleInv
<1> QED BY <1>1, <1>2, <1>3, <1>4, <1>5, <1>6, <1>7 DEF ConsoleNext

(* The session layer's invariant holds in every state that any order of      *)
(* launches, command grants, cancellations, exits and reclaims leads to: the *)
(* reference counts that console_attach, console_member_exit and             *)
(* console_detach keep are exact, no pointer dangles, and a closed session   *)
(* holds no authority.                                                       *)
THEOREM ConsoleInvariant == ConsoleSpec => []ConsoleInv
<1>1. ConsoleInit => ConsoleInv /\ Ranked
  BY InitConsoleInv, InitRanked
<1>2. ConsoleInv /\ Ranked /\ [ConsoleNext]_consoleVars => (ConsoleInv /\ Ranked)'
  BY ConsoleNextInv
<1> QED BY <1>1, <1>2, PTL DEF ConsoleSpec

(* Reference counts of process records are exact. *)
THEOREM ReferencesAreExact == ConsoleSpec => []ReferencesExact
<1>1. ConsoleInv => ReferencesExact
  BY DEF ConsoleInv
<1> QED BY <1>1, ConsoleInvariant, PTL

LEMMA NoPointerNoReference ==
  ASSUME ConsoleInv, NEW m \in Member, ~live[m]
  PROVE  references[m] = 0
<1>1. \A x \in Member : restore[x] # m
  BY MemberAssumption DEF ConsoleInv, NoDanglingPointer
<1>2. \A s \in Session : owner[s] # m /\ root[s] # m
  BY MemberAssumption DEF ConsoleInv, NoDanglingPointer
<1>3. DOMAIN restore = Member /\ DOMAIN owner = Session /\ DOMAIN root = Session
  BY DEF ConsoleInv, ConsoleTypeOK
<1>4. PointersTo(restore, m) = 0 /\ PointersTo(owner, m) = 0 /\ PointersTo(root, m) = 0
  BY <1>1, <1>2, <1>3, PointersNone
<1> QED BY <1>4 DEF ConsoleInv, ReferencesExact

(* console_detach accepts every process that has exited, so the reaper never *)
(* reaches the halt behind it.                                               *)
THEOREM ExitedCanDetach == ConsoleSpec => []ExitedIsDetachable
<1>1. ConsoleInv => ExitedIsDetachable
  <2> SUFFICES ASSUME ConsoleInv, NEW m \in Member, ~live[m] PROVE Detachable(m)
    BY DEF ExitedIsDetachable
  <2>1. references[m] = 0
    BY NoPointerNoReference
  <2>2. restore[m] = NoMember
    BY DEF ConsoleInv, NoDanglingPointer
  <2>3. session[m] # NoSession => m \in members[session[m]]
    BY DEF ConsoleInv, MembershipMutual, ConsoleTypeOK, AnySession
  <2> QED BY <2>1, <2>2, <2>3 DEF Detachable
<1> QED BY <1>1, ConsoleInvariant, PTL

(* One session per process record is enough for the kernel to start a new *)
(* shell whenever a record is free and no session has the console.        *)
THEOREM PoolIsSufficient == ConsoleSpec => []PoolSuffices
<1>1. ConsoleInv => PoolSuffices
  <2> SUFFICES ASSUME ConsoleInv, active = NoSession, NEW m \in Member, session[m] = NoSession,
                      \A s \in Session : sessionRefs[s] # 0
               PROVE  FALSE
    BY SMTT(40) DEF PoolSuffices, CanLaunch, Available
  <2>1. ASSUME NEW s \in Session PROVE \E x \in Member \ {m} : session[x] = s
    <3>1. sessionRefs[s] = Cardinality(members[s])
      <4>1. /\ sessionRefs[s] = Cardinality(members[s]) + Bit(active = s) /\ Bit(active = s) = 0
            /\ Cardinality(members[s]) \in Nat
        BY FS_Subset, FS_CardinalityType, MemberAssumption, SessionAssumption
           DEF ConsoleInv, SessionReferencesExact, ConsoleTypeOK, Bit
      <4> QED BY <4>1
    <3>2. members[s] # {}
      BY Zenon, <3>1, FS_EmptySet
    <3> QED BY <3>2, SessionAssumption DEF ConsoleInv, ConsoleTypeOK, MembershipMutual
  <2> DEFINE f == [s \in Session |-> CHOOSE x \in Member \ {m} : session[x] = s]
  <2>2. \A s \in Session : f[s] \in Member \ {m} /\ session[f[s]] = s
    BY <2>1
  <2>3. f \in [Session -> Member \ {m}]
    BY <2>2
  <2> HIDE DEF f
  <2>4. /\ IsFiniteSet(Member \ {m}) /\ Cardinality(Member \ {m}) = Cardinality(Member) - 1
        /\ Cardinality(Member) \in Nat /\ Cardinality(Session) \in Nat
    BY Zenon, FS_RemoveElement, FS_CardinalityType, MemberAssumption, SessionAssumption
  <2>5. Cardinality(Member \ {m}) < Cardinality(Session)
    BY ONLY <2>4, SessionAssumption
  <2>6. \E x, y \in Session : x # y /\ f[x] = f[y]
    BY Zenon, <2>3, <2>4, <2>5, FS_PigeonHole, SessionAssumption
  <2> QED BY Zenon, <2>2, <2>6
<1> QED BY <1>1, ConsoleInvariant, PTL

=============================================================================
