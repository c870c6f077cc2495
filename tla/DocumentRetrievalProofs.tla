------------------------ MODULE DocumentRetrievalProofs ------------------------
(***************************************************************************)
(* For any processes with ids of their own, any keys, any pages, servers   *)
(* and settings of the fetcher: the storage does what ArtifactStore        *)
(* promises, also where processes fetch and store beside each other; every *)
(* hop of a request is a checked one; and no temporary file is left but    *)
(* where DocumentRetrieval says so.  Whatever the page, nothing is asked   *)
(* for that its portal gates, and every link that is wanted is kept.  Each *)
(* class reads its page with a fold over the links: FoldInduction is       *)
(* instantiated right before the lemma about the class.                    *)
(***************************************************************************)
EXTENDS DocumentRetrieval, TLAPS

-----------------------------------------------------------------------------
(* The storage alone.                                                       *)

Files == {"absent", "partial", "whole", "wrong"}

\* Where a call of commit may be.
Places ==
  {"idle", "unprepared", "copying", "copied", "verified", "done", "damaged", "failed"}

\* The states the storage can be in, as far as the proof tells them apart.  The
\* key of a call matters once the call has one.
StorageType ==
  /\ commit \in [Process -> [pc : Places, key : Key \cup {NoKey}]]
  /\ \A p \in Process : commit[p].pc # "idle" => commit[p].key \in Key
  /\ staging \in [{Pid[p] : p \in Process} -> [Key -> Files]]
  /\ object \in [Key -> {"absent", "whole", "damaged"}]

StorageInv == StorageType /\ CheckedCopies

\* The calls begin from the empty storage.
LEMMA StorageInvInit == StorageInit => StorageInv
<1> SUFFICES ASSUME StorageInit PROVE StorageInv
  OBVIOUS
<1>1. \A p \in Process : commit[p] = [pc |-> "idle", key |-> NoKey]
  BY DEF StorageInit, Uncommitted
<1>2. commit \in [Process -> [pc : Places, key : Key \cup {NoKey}]]
  BY DEF StorageInit, Uncommitted, Places
<1>3. staging \in [{Pid[p] : p \in Process} -> [Key -> Files]]
  BY DEF StorageInit, Files
<1>4. object \in [Key -> {"absent", "whole", "damaged"}]
  BY DEF StorageInit
<1>5. ASSUME NEW p \in Process PROVE commit[p].pc = "idle"
  <2>1. commit[p] = [pc |-> "idle", key |-> NoKey]
    BY <1>1
  <2> QED BY <2>1
<1>6. StorageType
  BY <1>2, <1>3, <1>4, <1>5 DEF StorageType
<1>7. CheckedCopies
  BY <1>5 DEF CheckedCopies
<1> QED BY <1>6, <1>7 DEF StorageInv

\* A step leaves no checked copy changed: the processes write to files of their own.
LEMMA StorageInvNext == StorageInv /\ [StorageNext]_storageVars => StorageInv'
<1> SUFFICES ASSUME StorageInv, [StorageNext]_storageVars PROVE StorageInv'
  OBVIOUS
<1> USE DEF StorageInv, StorageType, CheckedCopies, Files, Places
<1>1. ASSUME NEW p \in Process, NEW k \in Key, BeginExisting(p, k) PROVE StorageInv'
  BY <1>1 DEF BeginExisting
<1>2. ASSUME NEW p \in Process, NEW k \in Key, BeginCopy(p, k) PROVE StorageInv'
  <2>1. StorageType'
    BY <1>2 DEF BeginCopy
  <2>2. ASSUME NEW q \in Process, commit'[q].pc = "verified"
        PROVE staging'[Pid[q]][commit'[q].key] = "whole"
    <3>1. q # p /\ commit'[q] = commit[q]
      BY <1>2, <2>2 DEF BeginCopy
    <3>2. staging'[Pid[q]] = staging[Pid[q]]
      BY <1>2, <3>1, PidsApart DEF BeginCopy
    <3> QED BY <2>2, <3>1, <3>2
  <2> QED BY <2>1, <2>2
<1>3. ASSUME NEW p \in Process, Copy(p) PROVE StorageInv'
  <2>1. StorageType'
    BY <1>3 DEF Copy, Staged, At
  <2>2. ASSUME NEW q \in Process, commit'[q].pc = "verified"
        PROVE staging'[Pid[q]][commit'[q].key] = "whole"
    <3>1. q # p /\ commit'[q] = commit[q]
      BY <1>3, <2>2 DEF Copy, At
    <3>2. staging'[Pid[q]] = staging[Pid[q]]
      BY <1>3, <3>1, PidsApart DEF Copy, Staged
    <3> QED BY <2>2, <3>1, <3>2
  <2> QED BY <2>1, <2>2
<1>4. ASSUME NEW p \in Process, Verify(p) PROVE StorageInv'
  BY <1>4 DEF Verify, At
<1>5. ASSUME NEW p \in Process, Publish(p) PROVE StorageInv'
  <2>1. StorageType'
    BY <1>5 DEF Publish, Staged, At
  <2>2. ASSUME NEW q \in Process, commit'[q].pc = "verified"
        PROVE staging'[Pid[q]][commit'[q].key] = "whole"
    <3>1. q # p /\ commit'[q] = commit[q]
      BY <1>5, <2>2 DEF Publish, At
    <3>2. staging'[Pid[q]] = staging[Pid[q]]
      BY <1>5, <3>1, PidsApart DEF Publish, Staged
    <3> QED BY <2>2, <3>1, <3>2
  <2> QED BY <2>1, <2>2
<1>6. ASSUME NEW p \in Process, CommitFails(p) PROVE StorageInv'
  <2>1. StorageType'
    BY <1>6 DEF CommitFails, Staged, At
  <2>2. ASSUME NEW q \in Process, commit'[q].pc = "verified"
        PROVE staging'[Pid[q]][commit'[q].key] = "whole"
    <3>1. q # p /\ commit'[q] = commit[q]
      BY <1>6, <2>2 DEF CommitFails, At
    <3>2. staging'[Pid[q]] = staging[Pid[q]]
      BY <1>6, <3>1, PidsApart DEF CommitFails, Staged
    <3> QED BY <2>2, <3>1, <3>2
  <2> QED BY <2>1, <2>2
<1>7. ASSUME NEW p \in Process, Release(p) PROVE StorageInv'
  BY <1>7 DEF Release, Uncommitted
<1>8. ASSUME NEW k \in Key, Damage(k) PROVE StorageInv'
  BY <1>8 DEF Damage
<1>9. ASSUME NEW p \in Process, NEW k \in Key, BeginFails(p, k) PROVE StorageInv'
  BY <1>9 DEF BeginFails
<1>10. CASE UNCHANGED storageVars
  BY <1>10 DEF storageVars
<1> QED BY <1>1, <1>2, <1>3, <1>4, <1>5, <1>6, <1>7, <1>8, <1>9, <1>10 DEF StorageNext

\* Only a checked copy, and only the disk, change what is under a key.
LEMMA StorageStep == StorageInv /\ [StorageNext]_storageVars => [Store!Next]_object
<1> SUFFICES ASSUME StorageInv, StorageNext, object' # object PROVE Store!Next
  BY DEF storageVars
<1>1. ASSUME NEW p \in Process, Publish(p) PROVE Store!Next
  <2>1. commit[p].key \in Key /\ staging[Pid[p]][commit[p].key] = "whole"
    BY <1>1 DEF Publish, StorageInv, StorageType, CheckedCopies
  <2>2. Store!Publish(commit[p].key)
    BY <1>1, <2>1 DEF Publish, Store!Publish
  <2> QED BY <2>1, <2>2 DEF Store!Next
<1>2. ASSUME NEW k \in Key, Damage(k) PROVE Store!Next
  <2>1. Store!Decay(k)
    BY <1>2 DEF Damage, Store!Decay
  <2> QED BY <2>1 DEF Store!Next
<1> QED
  BY <1>1, <1>2 DEF StorageNext, BeginExisting, BeginFails, BeginCopy, Copy, Verify, CommitFails, Release

\* The invariant holds throughout.
LEMMA StorageInvariant == StorageSpec => []StorageInv
  BY StorageInvInit, StorageInvNext, PTL DEF StorageSpec

\* commit (documents/storage.py) publishes whole bodies only, however many
\* processes write, fail and die beside it.
THEOREM PublishesWhole == StorageSpec => []ObjectsWhole
<1>1. StorageInv => ObjectsWhole
  BY DEF StorageInv, StorageType, ObjectsWhole
<1> QED BY <1>1, StorageInvariant, PTL

\* And so LocalDocumentStorage implements ArtifactStore: a key comes to its
\* body in one step, and nothing but the disk takes it away.
THEOREM StorageImplementsStore == StorageSpec => StoreSpec
<1>1. StorageInit => Store!Init
  BY DEF StorageInit, Store!Init
<1> QED
  BY <1>1, StorageStep, StorageInvariant, PTL DEF StorageSpec, StoreSpec, Store!Spec

-----------------------------------------------------------------------------
(* What the fetcher decides.                                                *)

\* A policy that refuses nothing has looked at everything.
LEMMA PolicyPasses ==
  ASSUME NEW url, NEW first, NEW previous, NEW resolves \in BOOLEAN,
         PolicyFailure(url, first, previous, resolves) = Nil
  PROVE  Allowed(url, first, previous) /\ url.host \notin Inner
<1>1. Nil \notin {"UNSAFE_URL", "TRANSIENT"}
  BY NilIsNoFailure DEF Failures
<1> QED
  BY <1>1 DEF PolicyFailure

LEMMA PolicyFailureNamed ==
  ASSUME NEW url, NEW first, NEW previous, NEW resolves \in BOOLEAN
  PROVE  PolicyFailure(url, first, previous, resolves) \in Failures \cup {Nil}
BY DEF PolicyFailure, Failures

\* A redirect that is followed leads from the last url to one not asked before.
LEMMA RedirectPasses ==
  ASSUME NEW chain, NEW to, NEW resolves \in BOOLEAN,
         RedirectFailure(chain, to, resolves) = Nil
  PROVE  /\ \A i \in DOMAIN chain : chain[i] # to
         /\ ~(Len(chain) > MaxRedirects)
         /\ Allowed(to, chain[1].host, chain[Len(chain)].scheme)
         /\ to.host \notin Inner
<1>1. Nil \notin {"UNSAFE_URL", "TRANSIENT", "UNSUPPORTED"}
  BY NilIsNoFailure DEF Failures
<1>2. PolicyFailure(to, chain[1].host, chain[Len(chain)].scheme, resolves) = Nil
  BY <1>1 DEF RedirectFailure
<1>3. /\ \A i \in DOMAIN chain : chain[i] # to
      /\ ~(Len(chain) > MaxRedirects)
  BY <1>1 DEF RedirectFailure
<1> QED
  BY <1>2, <1>3, PolicyPasses

LEMMA RedirectFailureNamed ==
  ASSUME NEW chain, NEW to, NEW resolves \in BOOLEAN
  PROVE  RedirectFailure(chain, to, resolves) \in Failures \cup {Nil}
<1>1. PolicyFailure(to, chain[1].host, chain[Len(chain)].scheme, resolves) \in Failures \cup {Nil}
  BY PolicyFailureNamed
<1> QED
  BY <1>1 DEF RedirectFailure, Failures

LEMMA StatusFailureNamed ==
  ASSUME NEW reply
  PROVE  StatusFailure(reply) \in Failures \cup {Nil}
BY DEF StatusFailure, Failures

LEMMA HtmlKindNamed ==
  ASSUME NEW words
  PROVE  HtmlKind(words) \in Failures \cup {Nil}
<1> DEFINE hits == {i \in DOMAIN HtmlClasses : HtmlClasses[i][2] \in words}
           first == CHOOSE i \in hits : \A j \in hits : i <= j
<1>1. DOMAIN HtmlClasses = 1..6
  BY DEF HtmlClasses
<1>2. CASE hits = {}
  BY <1>2 DEF HtmlKind
<1>3. CASE hits # {}
  <2>1. \E i \in hits : \A j \in hits : i <= j
    BY <1>1, <1>3
  <2>2. first \in 1..6
    BY <1>1, <2>1
  <2> HIDE DEF first
  <2>3. HtmlClasses[first][1] \in Failures
    BY <2>2 DEF HtmlClasses, Failures
  <2>4. HtmlKind(words) = HtmlClasses[first][1]
    BY <1>3 DEF HtmlKind, first
  <2> QED
    BY <2>3, <2>4
<1> QED
  BY <1>2, <1>3

LEMMA BodyFailureNamed ==
  ASSUME NEW reply, NEW allowHtml
  PROVE  BodyFailure(reply, allowHtml) \in Failures \cup {Nil}
<1> DEFINE kind == IF reply.html THEN HtmlKind(reply.words) ELSE Nil
<1>1. kind \in Failures \cup {Nil}
  BY HtmlKindNamed
<1>2. BodyFailure(reply, allowHtml) =
        IF reply.chunks = 0 THEN "UNSUPPORTED"
        ELSE IF reply.status = 403 THEN IF kind # Nil THEN kind ELSE "RESTRICTED"
        ELSE IF kind # Nil THEN kind
        ELSE IF reply.html /\ ~allowHtml THEN "QUARANTINED"
        ELSE Nil
  BY DEF BodyFailure
<1> HIDE DEF kind
<1> QED
  BY <1>1, <1>2 DEF Failures

-----------------------------------------------------------------------------
(* The processes.                                                           *)

\* The urls a process may come to ask for: those it is told of.
Urls == {document.url : document \in Documents} \cup {reply.to : reply \in setting.replies}

\* How a fetch may end.
Endings ==
  Failures \cup {"raised", "unchanged", "stored", "failed"} \cup Leaving

HasFile == {"reading", "fetched", "storing"}

Fetches ==
  [pc : {"free", "asking"} \cup HasFile, chain : Seq(Urls), reply : setting.replies \cup {Nil},
   read : Nat, html : BOOLEAN]

RetrievalType ==
  /\ setting \in Settings
  /\ fetch \in [Process -> Fetches]
  /\ ended \in [Process -> Seq(Endings)]
  /\ temporary \subseteq [by : Process, nr : Nat \ {0}]
  /\ asked \subseteq Urls
  /\ \A p \in Process :
       /\ fetch[p].pc # "free" => fetch[p].chain # <<>>
       /\ fetch[p].pc \in HasFile => fetch[p].reply \in setting.replies

\* A redirect is compared with the host of the request, which must have one for
\* the comparison to say anything.
HopsHaveHosts == \A p \in Process : \A i \in DOMAIN fetch[p].chain : fetch[p].chain[i].host # Nil

\* The files are numbered by the fetches, and none is of a fetch to come.
FilesNumbered == \A file \in temporary : file.nr <= Len(ended[file.by]) + 1

FetchInv ==
  /\ RetrievalType
  /\ HopsChecked /\ HopsHaveHosts
  /\ TemporaryRemoved /\ FilesNumbered

RetrievalInv == FetchInv /\ StorageInv

\* Nobody has asked for anything yet.
LEMMA RetrievalInvInit == Init => RetrievalInv
<1> SUFFICES ASSUME Init PROVE RetrievalInv
  OBVIOUS
<1>1. StorageInv
  BY StorageInvInit DEF Init
<1>2. Free \in Fetches
  BY DEF Free, Fetches, HasFile
<1>3. \A p \in Process : fetch[p] = Free /\ ended[p] = <<>>
  BY DEF Init
<1>4. RetrievalType
  BY <1>2, <1>3 DEF Init, RetrievalType, HasFile, Free
<1>5. HopsChecked /\ HopsHaveHosts
  BY <1>3, FetchBounds DEF HopsChecked, Checked, HopsHaveHosts, Free
<1>6. TemporaryRemoved /\ FilesNumbered
  BY DEF Init, TemporaryRemoved, FilesNumbered
<1> QED
  BY <1>1, <1>4, <1>5, <1>6 DEF RetrievalInv, FetchInv

\* A fetch that ends: whatever has a file by then takes it away, or ends in one
\* of the ways that leave it.
LEMMA EndsInv ==
  ASSUME FetchInv, NEW p \in Process, NEW how \in Endings, Ends(p, how),
         setting' = setting, asked' = asked,
         \/ Unlinked(p)
         \/ Kept /\ (fetch[p].pc \notin HasFile \/ how \in Leaving)
  PROVE  FetchInv'
<1> USE DEF FetchInv, RetrievalType
<1>1. Urls' = Urls
  BY DEF Urls, Documents
<1>2. Fetches' = Fetches
  BY <1>1 DEF Fetches
<1>3. /\ fetch' = [fetch EXCEPT ![p] = Free]
      /\ ended' = [ended EXCEPT ![p] = Append(ended[p], how)]
  BY DEF Ends
<1>4. Free \in Fetches
  BY DEF Free, Fetches, HasFile
<1>5. temporary' \subseteq temporary
  BY DEF Kept, Unlinked
<1>6. /\ ended'[p] = Append(ended[p], how)
      /\ ended'[p] \in Seq(Endings)
      /\ Len(ended'[p]) = Len(ended[p]) + 1
      /\ ended'[p][Len(ended[p]) + 1] = how
      /\ \A i \in 1..Len(ended[p]) : ended'[p][i] = ended[p][i]
  BY <1>3
<1>7. \A q \in Process \ {p} : ended'[q] = ended[q] /\ fetch'[q] = fetch[q]
  BY <1>3
<1>8. RetrievalType'
  <2>1. fetch' \in [Process -> Fetches']
    BY <1>2, <1>3, <1>4
  <2>2. ended' \in [Process -> Seq(Endings)]
    BY <1>3, <1>6
  <2>3. fetch'[p].pc = "free"
    BY <1>3 DEF Free
  <2> QED
    BY <1>1, <1>5, <1>7, <2>1, <2>2, <2>3 DEF HasFile
<1>9. HopsChecked' /\ HopsHaveHosts'
  <2>1. fetch'[p].chain = <<>>
    BY <1>3 DEF Free
  <2>2. Checked(<<>>)
    BY FetchBounds DEF Checked
  <2>3. ASSUME NEW q \in Process
        PROVE  /\ Checked(fetch'[q].chain)
               /\ \A i \in DOMAIN fetch'[q].chain : fetch'[q].chain[i].host # Nil
    <3>1. CASE q = p
      BY <2>1, <2>2, <3>1
    <3>2. CASE q # p
      <4>1. fetch'[q] = fetch[q]
        BY <1>7, <3>2
      <4> QED
        BY <4>1 DEF HopsChecked, HopsHaveHosts
    <3> QED
      BY <3>1, <3>2
  <2> QED
    BY <2>3 DEF HopsChecked, HopsHaveHosts
<1>10. TemporaryRemoved' /\ FilesNumbered'
  <2> SUFFICES ASSUME NEW file \in temporary'
               PROVE  /\ file.nr <= Len(ended'[file.by]) + 1
                      /\ IF file.nr \in DOMAIN ended'[file.by]
                         THEN ended'[file.by][file.nr] \in Leaving
                         ELSE fetch'[file.by].pc \in {"reading", "fetched", "storing"}
    BY DEF TemporaryRemoved, FilesNumbered, Leaving
  <2>1. file \in temporary /\ file \in [by : Process, nr : Nat \ {0}]
    BY <1>5
  <2>2. /\ file.nr <= Len(ended[file.by]) + 1
        /\ IF file.nr \in DOMAIN ended[file.by]
           THEN ended[file.by][file.nr] \in Leaving
           ELSE fetch[file.by].pc \in {"reading", "fetched", "storing"}
    BY <2>1 DEF TemporaryRemoved, FilesNumbered
  <2>3. CASE file.by # p
    BY <1>7, <2>1, <2>2, <2>3
  <2>4. CASE file.by = p /\ file.nr \in DOMAIN ended[p]
    <3>1. ended[p] \in Seq(Endings) /\ ended'[p] \in Seq(Endings)
      BY <1>6
    <3>2. file.nr \in 1..Len(ended[p]) /\ Len(ended[p]) \in Nat
      BY <2>4, <3>1
    <3>3. file.nr \in DOMAIN ended'[p] /\ file.nr <= Len(ended'[p]) + 1
      BY <1>6, <3>1, <3>2
    <3>4. ended'[p][file.nr] = ended[p][file.nr]
      BY <1>6, <3>2
    <3> QED
      BY <2>2, <2>4, <3>3, <3>4
  <2>5. CASE file.by = p /\ file.nr \notin DOMAIN ended[p]
    <3>1. ended[p] \in Seq(Endings) /\ file.nr \in Nat \ {0}
      BY <2>1
    <3>2. file.nr = Len(ended[p]) + 1
      BY <2>2, <2>5, <3>1
    <3>3. file = File(p)
      BY <2>1, <2>5, <3>2 DEF File
    <3>4. fetch[p].pc \in HasFile
      BY <2>2, <2>5 DEF HasFile
    <3>5. how \in Leaving
      BY <3>3, <3>4 DEF Unlinked
    <3> QED
      BY <1>6, <2>5, <3>1, <3>2, <3>5
  <2> QED
    BY <2>3, <2>4, <2>5
<1> QED
  BY <1>8, <1>9, <1>10

\* A fetch that goes on with the answer it has.
LEMMA GoesOnInv ==
  ASSUME FetchInv, NEW p \in Process, NEW new \in Fetches,
         fetch' = [fetch EXCEPT ![p] = new],
         fetch[p].pc # "free", new.chain = fetch[p].chain,
         new.pc \in HasFile, new.reply \in setting.replies,
         temporary' \subseteq temporary \cup {File(p)},
         UNCHANGED <<setting, ended, asked>>
  PROVE  FetchInv'
<1> USE DEF FetchInv, RetrievalType
<1>1. Urls' = Urls
  BY DEF Urls, Documents
<1>2. Fetches' = Fetches
  BY <1>1 DEF Fetches
<1>3. /\ fetch'[p] = new
      /\ \A q \in Process \ {p} : fetch'[q] = fetch[q]
  OBVIOUS
<1>4. ended[p] \in Seq(Endings) /\ Len(ended[p]) + 1 \in Nat \ {0}
  OBVIOUS
<1>5. RetrievalType'
  <2>1. fetch' \in [Process -> Fetches']
    BY <1>2
  <2>2. temporary' \subseteq [by : Process, nr : Nat \ {0}]
    BY <1>4 DEF File
  <2> QED
    BY <1>1, <1>3, <2>1, <2>2
<1>6. HopsChecked' /\ HopsHaveHosts'
  <2>1. ASSUME NEW q \in Process PROVE fetch'[q].chain = fetch[q].chain
    BY <1>3
  <2> QED
    BY <2>1 DEF HopsChecked, HopsHaveHosts
<1>7. TemporaryRemoved' /\ FilesNumbered'
  <2>1. ASSUME NEW file \in temporary'
        PROVE  /\ file.nr <= Len(ended[file.by]) + 1
               /\ IF file.nr \in DOMAIN ended[file.by]
                  THEN ended[file.by][file.nr] \in Leaving
                  ELSE fetch'[file.by].pc \in {"reading", "fetched", "storing"}
    <3>1. CASE file \in temporary
      <4>1. /\ file.nr <= Len(ended[file.by]) + 1
            /\ IF file.nr \in DOMAIN ended[file.by]
               THEN ended[file.by][file.nr] \in Leaving
               ELSE fetch[file.by].pc \in {"reading", "fetched", "storing"}
        BY <3>1 DEF TemporaryRemoved, FilesNumbered
      <4>2. file.by \in Process
        BY <3>1
      <4> QED
        BY <1>3, <4>1, <4>2 DEF HasFile
    <3>2. CASE file = File(p)
      <4>1. file.by = p /\ file.nr = Len(ended[p]) + 1
        BY <3>2 DEF File
      <4> QED
        BY <1>3, <1>4, <4>1 DEF HasFile
    <3> QED
      BY <3>1, <3>2
  <2> QED
    BY <2>1 DEF TemporaryRemoved, FilesNumbered
<1> QED
  BY <1>5, <1>6, <1>7

\* The next url of a chain, when policy and redirect rules let it pass.
LEMMA CheckedGrows ==
  ASSUME NEW S, NEW chain \in Seq(S), NEW to \in S, chain # <<>>,
         Checked(chain), \A i \in DOMAIN chain : chain[i].host # Nil,
         \A i \in DOMAIN chain : chain[i] # to,
         ~(Len(chain) > MaxRedirects),
         Allowed(to, chain[1].host, chain[Len(chain)].scheme),
         to.host \notin Inner
  PROVE  /\ Checked(Append(chain, to))
         /\ \A i \in DOMAIN Append(chain, to) : Append(chain, to)[i].host # Nil
<1> DEFINE n == Len(chain)
           longer == Append(chain, to)
<1>1. /\ n \in Nat /\ n > 0 /\ n <= MaxRedirects /\ DOMAIN chain = 1..n
      /\ Len(longer) = n + 1 /\ DOMAIN longer = 1..(n + 1)
      /\ longer[n + 1] = to /\ \A i \in 1..n : longer[i] = chain[i]
  BY FetchBounds
<1>2. chain[1].host # Nil /\ longer[1] = chain[1]
  BY <1>1
<1>3. /\ to.host \in {chain[1].host} \cup AllowedHosts
      /\ chain[n].scheme = "https" => to.scheme = "https"
      /\ to.host # Nil
  BY <1>2 DEF Allowed
<1> HIDE DEF n, longer
<1>4. \A i \in 1..n :
        /\ chain[i].host \in {chain[1].host} \cup AllowedHosts
        /\ chain[i].host \notin Inner
        /\ \A j \in 1..i - 1 :
             /\ chain[j] # chain[i]
             /\ chain[j].scheme = "https" => chain[i].scheme = "https"
  BY <1>1 DEF Checked
<1>5. ASSUME NEW i \in 1..(n + 1)
      PROVE  /\ longer[i].host \in {longer[1].host} \cup AllowedHosts
             /\ longer[i].host \notin Inner
             /\ longer[i].host # Nil
             /\ \A j \in 1..i - 1 :
                  /\ longer[j] # longer[i]
                  /\ longer[j].scheme = "https" => longer[i].scheme = "https"
  <2>1. CASE i \in 1..n
    <3>1. longer[i] = chain[i] /\ \A j \in 1..i - 1 : longer[j] = chain[j]
      BY <1>1, <2>1
    <3> QED
      BY <1>1, <1>2, <1>4, <2>1, <3>1
  <2>2. CASE i = n + 1
    <3>1. ASSUME NEW j \in 1..n
          PROVE  /\ longer[j] # to
                 /\ longer[j].scheme = "https" => to.scheme = "https"
      <4>1. longer[j] = chain[j] /\ chain[j] # to
        BY <1>1
      <4>2. chain[j].scheme = "https" => chain[n].scheme = "https"
        <5>1. CASE j = n
          BY <5>1
        <5>2. CASE j \in 1..n - 1
          BY <1>1, <1>4, <5>2
        <5> QED
          BY <1>1, <5>1, <5>2
      <4> QED
        BY <1>3, <4>1, <4>2
    <3>2. longer[i] = to /\ 1..i - 1 = 1..n
      BY <1>1, <2>2
    <3> QED
      BY <1>2, <1>3, <3>1, <3>2
  <2> QED
    BY <1>1, <2>1, <2>2
<1>6. Checked(longer)
  BY <1>1, <1>5, FetchBounds DEF Checked
<1> QED
  BY <1>1, <1>5, <1>6 DEF longer

\* A fetch that asks for a url, its first one or another.
LEMMA AsksInv ==
  ASSUME FetchInv, NEW p \in Process, NEW new \in Fetches,
         fetch' = [fetch EXCEPT ![p] = new],
         fetch[p].pc \notin HasFile, new.pc = "asking", new.chain # <<>>,
         Checked(new.chain), \A i \in DOMAIN new.chain : new.chain[i].host # Nil,
         asked' \subseteq Urls,
         UNCHANGED <<setting, ended, temporary>>
  PROVE  FetchInv'
<1> USE DEF FetchInv, RetrievalType
<1>1. Urls' = Urls
  BY DEF Urls, Documents
<1>2. Fetches' = Fetches
  BY <1>1 DEF Fetches
<1>3. /\ fetch'[p] = new
      /\ \A q \in Process \ {p} : fetch'[q] = fetch[q]
  OBVIOUS
<1>4. RetrievalType'
  <2>1. fetch' \in [Process -> Fetches']
    BY <1>2
  <2> QED
    BY <1>1, <1>3, <2>1 DEF HasFile
<1>5. HopsChecked' /\ HopsHaveHosts'
  <2>1. ASSUME NEW q \in Process
        PROVE  /\ Checked(fetch'[q].chain)
               /\ \A i \in DOMAIN fetch'[q].chain : fetch'[q].chain[i].host # Nil
    <3>1. CASE q = p
      BY <1>3, <3>1
    <3>2. CASE q # p
      <4>1. fetch'[q] = fetch[q]
        BY <1>3, <3>2
      <4> QED
        BY <4>1 DEF HopsChecked, HopsHaveHosts
    <3> QED
      BY <3>1, <3>2
  <2> QED
    BY <2>1 DEF HopsChecked, HopsHaveHosts
<1>6. TemporaryRemoved' /\ FilesNumbered'
  <2>1. ASSUME NEW file \in temporary
        PROVE  IF file.nr \in DOMAIN ended[file.by]
               THEN ended[file.by][file.nr] \in Leaving
               ELSE fetch'[file.by].pc \in {"reading", "fetched", "storing"}
    <3>1. IF file.nr \in DOMAIN ended[file.by]
          THEN ended[file.by][file.nr] \in Leaving
          ELSE fetch[file.by].pc \in {"reading", "fetched", "storing"}
      BY DEF TemporaryRemoved
    <3>2. file.by \in Process
      OBVIOUS
    <3> QED
      BY <1>3, <3>1, <3>2 DEF HasFile
  <2> QED
    BY <2>1 DEF TemporaryRemoved, FilesNumbered
<1> QED
  BY <1>4, <1>5, <1>6

-----------------------------------------------------------------------------
(* Each step of a process keeps the invariant of the fetches.               *)

LEMMA StartInv ==
  ASSUME FetchInv, NEW p \in Process, NEW document \in Documents, NEW html \in BOOLEAN,
         Start(p, document, html)
  PROVE  FetchInv'
<1>1. PICK resolves \in BOOLEAN :
        LET failure == PolicyFailure(document.url, Nil, Nil, resolves)
        IN IF failure = Nil
           THEN /\ fetch' = [fetch EXCEPT ![p] =
                     [Free EXCEPT !.pc = "asking", !.chain = <<document.url>>, !.html = html]]
                /\ asked' = asked \cup {document.url}
                /\ UNCHANGED <<setting, ended, temporary, storageVars>>
           ELSE /\ Ends(p, failure)
                /\ UNCHANGED <<setting, temporary, asked, storageVars>>
  BY DEF Start
<1> DEFINE failure == PolicyFailure(document.url, Nil, Nil, resolves)
           new == [Free EXCEPT !.pc = "asking", !.chain = <<document.url>>, !.html = html]
<1>2. fetch[p].pc = "free"
  BY DEF Start
<1>3. CASE failure = Nil
  <2>1. /\ fetch' = [fetch EXCEPT ![p] = new]
        /\ asked' = asked \cup {document.url}
        /\ UNCHANGED <<setting, ended, temporary>>
    BY <1>1, <1>3
  <2>2. Allowed(document.url, Nil, Nil) /\ document.url.host \notin Inner
    BY <1>3, PolicyPasses
  <2>3. document.url \in Urls /\ document.url.host # Nil
    BY <2>2 DEF Urls, Allowed
  <2>4. new \in Fetches /\ new.pc = "asking" /\ new.chain = <<document.url>>
    <3>1. <<document.url>> \in Seq(Urls)
      BY <2>3
    <3> QED
      BY <3>1 DEF Free, Fetches, HasFile
  <2>5. Checked(<<document.url>>)
    BY <2>2, FetchBounds DEF Checked
  <2>6. asked' \subseteq Urls
    BY <2>1, <2>3 DEF FetchInv, RetrievalType
  <2> HIDE DEF new
  <2>7. new.chain # <<>> /\ \A i \in DOMAIN new.chain : new.chain[i].host # Nil
    BY <2>3, <2>4
  <2>8. fetch[p].pc \notin HasFile
    BY <1>2 DEF HasFile
  <2>9. Checked(new.chain)
    BY <2>4, <2>5
  <2> HIDE DEF failure
  <2> QED
    BY <2>1, <2>4, <2>6, <2>7, <2>8, <2>9, AsksInv
<1>4. CASE failure # Nil
  <2>1. Ends(p, failure) /\ UNCHANGED <<setting, temporary, asked>>
    BY <1>1, <1>4
  <2>2. failure \in Endings
    BY <1>4, PolicyFailureNamed DEF Endings
  <2> HIDE DEF failure
  <2> QED
    BY <1>2, <2>1, <2>2, EndsInv DEF Kept, HasFile
<1> QED
  BY <1>3, <1>4

LEMMA LoseInv ==
  ASSUME FetchInv, NEW p \in Process, Lose(p)
  PROVE  FetchInv'
<1>1. PICK how \in {"TRANSIENT", "raised"} : Ends(p, how)
  BY DEF Lose
<1>2. how \in Endings
  BY DEF Endings, Failures
<1> QED
  BY <1>1, <1>2, EndsInv DEF Lose, Kept, HasFile

LEMMA FollowInv ==
  ASSUME FetchInv, NEW p \in Process, NEW reply \in setting.replies, Follow(p, reply)
  PROVE  FetchInv'
<1>1. PICK resolves \in BOOLEAN :
        LET failure == RedirectFailure(fetch[p].chain, reply.to, resolves)
        IN IF failure = Nil THEN Requested(p, reply.to)
           ELSE /\ Ends(p, failure)
                /\ UNCHANGED <<setting, temporary, asked, storageVars>>
  BY DEF Follow
<1> DEFINE failure == RedirectFailure(fetch[p].chain, reply.to, resolves)
           new == [fetch[p] EXCEPT !.pc = "asking", !.chain = Append(fetch[p].chain, reply.to)]
<1>2. fetch[p].pc = "asking" /\ fetch[p] \in Fetches
  BY DEF Follow, FetchInv, RetrievalType
<1>3. CASE failure = Nil
  <2>1. /\ fetch' = [fetch EXCEPT ![p] = new]
        /\ UNCHANGED <<setting, ended, temporary, asked>>
    BY <1>1, <1>3 DEF Requested
  <2>2. reply.to \in Urls
    BY DEF Urls
  <2>3. fetch[p].chain \in Seq(Urls) /\ fetch[p].chain # <<>>
    BY <1>2 DEF Fetches, FetchInv, RetrievalType
  <2>4. /\ Checked(fetch[p].chain)
        /\ \A i \in DOMAIN fetch[p].chain : fetch[p].chain[i].host # Nil
    BY DEF FetchInv, HopsChecked, HopsHaveHosts
  <2>5. /\ \A i \in DOMAIN fetch[p].chain : fetch[p].chain[i] # reply.to
        /\ ~(Len(fetch[p].chain) > MaxRedirects)
        /\ Allowed(reply.to, fetch[p].chain[1].host, fetch[p].chain[Len(fetch[p].chain)].scheme)
        /\ reply.to.host \notin Inner
    BY <1>3, RedirectPasses
  <2>6. new \in Fetches /\ new.pc = "asking" /\ new.chain = Append(fetch[p].chain, reply.to)
    <3>1. Append(fetch[p].chain, reply.to) \in Seq(Urls)
      BY <2>2, <2>3
    <3> QED
      BY <1>2, <3>1 DEF Fetches
  <2>7. /\ Checked(new.chain)
        /\ \A i \in DOMAIN new.chain : new.chain[i].host # Nil
    BY <2>2, <2>3, <2>4, <2>5, <2>6, CheckedGrows
  <2>8. new.chain # <<>>
    BY <2>3, <2>6
  <2>9. asked' \subseteq Urls
    BY <2>1 DEF FetchInv, RetrievalType
  <2> HIDE DEF new
  <2> QED
    BY <1>2, <2>1, <2>6, <2>7, <2>8, <2>9, AsksInv DEF HasFile
<1>4. CASE failure # Nil
  <2>1. Ends(p, failure) /\ UNCHANGED <<setting, temporary, asked>>
    BY <1>1, <1>4
  <2>2. failure \in Endings
    BY <1>4, RedirectFailureNamed DEF Endings
  <2> HIDE DEF failure
  <2> QED
    BY <1>2, <2>1, <2>2, EndsInv DEF Kept, HasFile
<1> QED
  BY <1>3, <1>4

LEMMA AnswerInv ==
  ASSUME FetchInv, NEW p \in Process, NEW reply \in setting.replies, Answer(p, reply)
  PROVE  FetchInv'
<1> DEFINE new == [fetch[p] EXCEPT !.pc = "reading", !.reply = reply]
<1>1. fetch[p].pc = "asking" /\ fetch[p] \in Fetches
  BY DEF Answer, FetchInv, RetrievalType
<1>2. CASE StatusFailure(reply) # Nil
  <2>1. StatusFailure(reply) \in Endings
    BY <1>2, StatusFailureNamed DEF Endings
  <2>2. Ends(p, StatusFailure(reply)) /\ Kept /\ UNCHANGED <<setting, asked>>
    BY <1>2 DEF Answer
  <2> QED
    BY <1>1, <2>1, <2>2, EndsInv DEF HasFile
<1>3. CASE StatusFailure(reply) = Nil
  <2>1. /\ fetch' = [fetch EXCEPT ![p] = new]
        /\ temporary' = temporary \cup {File(p)}
        /\ UNCHANGED <<setting, ended, asked>>
    <3>1. fetch' = [fetch EXCEPT ![p].pc = "reading", ![p].reply = reply]
      BY <1>3 DEF Answer
    <3>2. DOMAIN fetch = Process
      BY DEF FetchInv, RetrievalType
    <3>3. fetch' = [fetch EXCEPT ![p] = new]
      BY <3>1, <3>2
    <3> QED
      BY <1>3, <3>3 DEF Answer
  <2>2. new \in Fetches /\ new.pc = "reading" /\ new.chain = fetch[p].chain /\ new.reply = reply
    BY <1>1 DEF Fetches, HasFile
  <2> HIDE DEF new
  <2> QED
    BY <1>1, <2>1, <2>2, GoesOnInv DEF HasFile
<1> QED
  BY <1>2, <1>3

LEMMA ReadInv ==
  ASSUME FetchInv, NEW p \in Process, Read(p)
  PROVE  FetchInv'
<1> DEFINE new == [fetch[p] EXCEPT !.read = fetch[p].read + 1]
<1>1. fetch[p].pc = "reading" /\ fetch[p] \in Fetches /\ fetch[p].reply \in setting.replies
  BY DEF Read, FetchInv, RetrievalType, HasFile
<1>2. CASE fetch[p].read + 1 > MaxChunks
  <2>1. Ends(p, "OVERSIZED") /\ Unlinked(p) /\ UNCHANGED <<setting, asked>>
    BY <1>2 DEF Read
  <2>2. "OVERSIZED" \in Endings
    BY DEF Endings, Failures
  <2> QED
    BY <2>1, <2>2, EndsInv
<1>3. CASE ~(fetch[p].read + 1 > MaxChunks)
  <2>1. /\ fetch' = [fetch EXCEPT ![p] = new]
        /\ temporary' = temporary
        /\ UNCHANGED <<setting, ended, asked>>
    BY <1>3 DEF Read, Kept
  <2>2. /\ new \in Fetches /\ new.pc = "reading" /\ new.chain = fetch[p].chain
        /\ new.reply = fetch[p].reply
    BY <1>1 DEF Fetches
  <2> HIDE DEF new
  <2> QED
    BY <1>1, <2>1, <2>2, GoesOnInv DEF HasFile
<1> QED
  BY <1>2, <1>3

\* The steps that only move on to another place.
LEMMA PlaceInv ==
  ASSUME FetchInv, NEW p \in Process, NEW pc \in HasFile, fetch[p].pc \in HasFile,
         Goes(p, pc), UNCHANGED <<setting, ended, temporary, asked>>
  PROVE  FetchInv'
<1> DEFINE new == [fetch[p] EXCEPT !.pc = pc]
<1>1. fetch[p] \in Fetches /\ fetch[p].reply \in setting.replies /\ fetch[p].pc # "free"
  BY DEF FetchInv, RetrievalType, HasFile
<1>2. fetch' = [fetch EXCEPT ![p] = new]
  BY DEF Goes
<1>3. new \in Fetches /\ new.pc = pc /\ new.chain = fetch[p].chain /\ new.reply = fetch[p].reply
  BY <1>1 DEF Fetches
<1> HIDE DEF new
<1> QED
  BY <1>1, <1>2, <1>3, GoesOnInv

LEMMA CompleteInv ==
  ASSUME FetchInv, NEW p \in Process, Complete(p)
  PROVE  FetchInv'
<1> DEFINE failure == BodyFailure(fetch[p].reply, fetch[p].html)
<1>1. CASE failure # Nil
  <2>1. Ends(p, failure) /\ Unlinked(p) /\ UNCHANGED <<setting, asked>>
    BY <1>1 DEF Complete
  <2>2. failure \in Endings
    BY <1>1, BodyFailureNamed DEF Endings
  <2> HIDE DEF failure
  <2> QED
    BY <2>1, <2>2, EndsInv
<1>2. CASE failure = Nil
  <2>1. Goes(p, "fetched") /\ UNCHANGED <<setting, ended, temporary, asked>>
    BY <1>2 DEF Complete, Kept
  <2> QED
    BY <2>1, PlaceInv DEF Complete, HasFile
<1> QED
  BY <1>1, <1>2

\* Steps of the storage alone.
LEMMA ElsewhereInv ==
  ASSUME FetchInv, UNCHANGED <<setting, fetch, ended, temporary, asked>>
  PROVE  FetchInv'
BY DEF FetchInv, RetrievalType, Fetches, Urls, Documents, HopsChecked, HopsHaveHosts,
       TemporaryRemoved, FilesNumbered

LEMMA ProceedInv ==
  ASSUME FetchInv, NEW p \in Process, Proceed(p)
  PROVE  FetchInv'
<1>1. ASSUME NEW reply \in setting.replies, Unmodified(p, reply) PROVE FetchInv'
  <2>1. "unchanged" \in Endings
    BY DEF Endings
  <2> QED
    BY <1>1, <2>1, EndsInv DEF Unmodified, Kept, HasFile
<1>2. CASE LoseLease(p)
  <2>1. "lease_lost" \in Endings \cap Leaving
    BY DEF Endings, Leaving
  <2> QED
    BY <1>2, <2>1, EndsInv DEF LoseLease
<1>3. CASE StoreBegins(p)
  BY <1>3, PlaceInv DEF StoreBegins, HasFile
<1>4. CASE StoreContinues(p)
  BY <1>4, ElsewhereInv DEF StoreContinues
<1>5. CASE StoreEnds(p)
  <2> DEFINE how == IF commit[p].pc = "done" THEN "stored" ELSE commit[p].pc
  <2>1. how \in Endings /\ (commit[p].pc \in {"damaged", "unprepared"} => how \in Leaving)
    BY <1>5 DEF StoreEnds, Endings, Leaving
  <2>2. Ends(p, how) /\ UNCHANGED <<setting, asked>>
    BY <1>5 DEF StoreEnds
  <2>3. Unlinked(p) \/ (Kept /\ how \in Leaving)
    BY <1>5, <2>1 DEF StoreEnds
  <2> HIDE DEF how
  <2> QED
    BY <2>1, <2>2, <2>3, EndsInv
<1> QED
  BY <1>1, <1>2, <1>3, <1>4, <1>5, FollowInv, AnswerInv, ReadInv, CompleteInv DEF Proceed

LEMMA FetchInvNext == FetchInv /\ [Next]_vars => FetchInv'
<1> SUFFICES ASSUME FetchInv, [Next]_vars PROVE FetchInv'
  OBVIOUS
<1>1. ASSUME NEW p \in Process, Break(p) PROVE FetchInv'
  <2>1. "raised" \in Endings
    BY DEF Endings
  <2> QED
    BY <1>1, <2>1, EndsInv DEF Break
<1>2. ASSUME NEW p \in Process, Crash(p) PROVE FetchInv'
  <2>1. "crashed" \in Endings \cap Leaving
    BY DEF Endings, Leaving
  <2> QED
    BY <1>2, <2>1, EndsInv DEF Crash
<1>3. ASSUME NEW p \in Process, FailUnstored(p) PROVE FetchInv'
  <2>1. "unstored" \in Endings \cap Leaving
    BY DEF Endings, Leaving
  <2> QED
    BY <1>3, <2>1, EndsInv DEF FailUnstored
<1>4. CASE Decay
  BY <1>4, ElsewhereInv DEF Decay
<1>5. CASE UNCHANGED vars
  BY <1>5, ElsewhereInv DEF vars
<1> QED
  BY <1>1, <1>2, <1>3, <1>4, <1>5, StartInv, LoseInv, ProceedInv DEF Next

\* Whatever the processes do, the storage sees its own steps, with bodies under
\* their keys.
LEMMA StorageSteps == RetrievalInv /\ [Next]_vars => [StorageNext]_storageVars
<1> SUFFICES ASSUME RetrievalInv, [Next]_vars PROVE [StorageNext]_storageVars
  OBVIOUS
<1>1. ASSUME NEW p \in Process, StoreBegins(p) PROVE StorageNext
  <2>1. fetch[p].reply \in setting.replies /\ setting \in Settings
    BY <1>1 DEF StoreBegins, RetrievalInv, FetchInv, RetrievalType, HasFile
  <2>2. fetch[p].reply.body \in Key
    BY <2>1, BodiesHaveKeys
  <2> QED
    BY <1>1, <2>2 DEF StoreBegins, StorageNext
<1>2. ASSUME NEW p \in Process, StoreContinues(p) PROVE StorageNext
  BY <1>2 DEF StoreContinues, StorageNext
<1>3. ASSUME NEW p \in Process, StoreEnds(p) \/ Crash(p) PROVE StorageNext
  BY <1>3 DEF StoreEnds, Crash, StorageNext
<1>4. CASE Decay
  BY <1>4 DEF Decay, StorageNext, RetrievalInv, StorageInv, StorageType
<1>5. ASSUME NEW p \in Process, NEW document \in Documents, NEW html \in BOOLEAN,
             Start(p, document, html)
      PROVE  UNCHANGED storageVars
  BY <1>5 DEF Start
<1>6. ASSUME NEW p \in Process, NEW reply \in setting.replies,
             Follow(p, reply) \/ Unmodified(p, reply) \/ Answer(p, reply)
      PROVE  UNCHANGED storageVars
  BY <1>6 DEF Follow, Requested, Unmodified, Answer
<1>7. ASSUME NEW p \in Process,
             \/ Lose(p) \/ Break(p) \/ Read(p) \/ Complete(p) \/ LoseLease(p) \/ FailUnstored(p)
      PROVE  UNCHANGED storageVars
  BY <1>7 DEF Lose, Break, Read, Complete, LoseLease, FailUnstored
<1>8. CASE UNCHANGED vars
  BY <1>8 DEF vars, storageVars
<1> QED
  BY <1>1, <1>2, <1>3, <1>4, <1>5, <1>6, <1>7, <1>8 DEF Next, Proceed

LEMMA RetrievalInvariant == Spec => []RetrievalInv
<1>1. RetrievalInv /\ [Next]_vars => RetrievalInv'
  BY FetchInvNext, StorageSteps, StorageInvNext DEF RetrievalInv
<1> QED
  BY <1>1, RetrievalInvInit, PTL DEF Spec

\* _process and the fetcher: what is requested, read, ended and left on disk is
\* of the kinds the model speaks of, for any settings.
THEOREM RetrievalTypeCorrect == Spec => []RetrievalType
<1>1. RetrievalInv => RetrievalType
  BY DEF RetrievalInv, FetchInv
<1> QED
  BY <1>1, RetrievalInvariant, PTL

\* The redirect loop of fetch (documents/fetcher.py) with DownloadPolicy: for
\* any server, any chain of redirects and any bounds, each hop is a checked one.
THEOREM EveryHopChecked == Spec => []HopsChecked
<1>1. RetrievalInv => HopsChecked
  BY DEF RetrievalInv, FetchInv
<1> QED
  BY <1>1, RetrievalInvariant, PTL

\* _consume and _process: a temporary file outlives its fetch in the ways
\* TemporaryRemoved names and in no other, for any number of processes.
THEOREM TemporaryFilesRemoved == Spec => []TemporaryRemoved
<1>1. RetrievalInv => TemporaryRemoved
  BY DEF RetrievalInv, FetchInv
<1> QED
  BY <1>1, RetrievalInvariant, PTL

\* The processes of the worker use the storage as its own specification says...
THEOREM RetrievalUsesStorage == Spec => StorageSpec
<1>1. Init => StorageInit
  BY DEF Init
<1> QED
  BY <1>1, StorageSteps, RetrievalInvariant, PTL DEF Spec, StorageSpec

\* ... and so the storage under them does what ArtifactStore promises.
THEOREM RetrievalImplementsStore == Spec => StoreSpec
BY RetrievalUsesStorage, StorageImplementsStore, PTL

-----------------------------------------------------------------------------
(* What the connectors offer.                                               *)

\* What EvaFold!FoldOffers and its like establish, in one word for all of them.
Offers(F, n, c, Skips, Like) ==
  /\ F \in Seq({c[i] : i \in 1..n}) /\ Len(F) <= n
  /\ \A k \in 1..Len(F) : \E i \in (1..n) \ Skips : F[k] = c[i]
  /\ \A i \in (1..n) \ Skips : \E k \in 1..Len(F) : F[k] = c[i] \/ <<F[k], i>> \in Like

\* What EvaFold!OffersStep and its like say of a step, in one word as well.
OffersStep(before, after, i, c, Skips, Like) ==
  \/ /\ i \in Skips \/ (\E k \in 1..Len(before) : <<before[k], i>> \in Like)
     /\ after = before
  \/ i \notin Skips /\ after = Append(before, c[i])

\* A candidate that is to be retrieved is shown openly at its url.
ShownOpenly(F, links) ==
  /\ IsSequence(F)
  /\ \A k \in DOMAIN F : F[k].access = "public" => \E i \in Open(links) : F[k].url = links[i].url

\* No other link of the page takes the place of this one (OfferedKept).
Alone(links, link) == \A i \in DOMAIN links : Rivals(link, links[i]) => links[i] = link

\* The candidate a wanted link gives.
Gives(link, candidate) ==
  /\ candidate.id = link.id /\ candidate.url = link.url /\ candidate.round = link.round
  /\ candidate.access = "public" /\ candidate.public = TRUE

\* A wanted link is among the candidates, and no other candidate has its key.
Sought(F, links) ==
  /\ IsSequence(F) /\ DOMAIN F \subseteq DOMAIN links
  /\ \A i \in DOMAIN links : Wanted(links[i]) /\ Alone(links, links[i]) =>
       /\ \E k \in DOMAIN F : Gives(links[i], F[k])
       /\ \A k \in DOMAIN F : DuplicateKey(F[k]) = DuplicateKey(links[i]) => Gives(links[i], F[k])

\* A sequence has its elements at the numbers up to its length.
LEMMA SequenceLength ==
  ASSUME NEW links, IsSequence(links)
  PROVE  Len(links) \in Nat /\ DOMAIN links = 1..Len(links)
BY DEF IsSequence

LEMMA OffersSequence ==
  ASSUME NEW n \in Nat, NEW F, NEW c, NEW Skips, NEW Like, Offers(F, n, c, Skips, Like)
  PROVE  IsSequence(F) /\ DOMAIN F = 1..Len(F) /\ DOMAIN F \subseteq 1..n
<1> DEFINE C == {c[i] : i \in 1..n}
<1>1. F \in Seq(C) /\ Len(F) <= n
  BY DEF Offers
<1> HIDE DEF C
<1>2. DOMAIN F = 1..Len(F) /\ Len(F) \in Nat
  BY <1>1
<1>3. F \in Seq(ToSet(F))
  BY <1>1 DEF ToSet
<1> QED
  BY <1>1, <1>2, <1>3 DEF IsSequence

\* Where the candidate of a link that is not gated is the only one that may be
\* public, the candidates are shown openly.
LEMMA OffersOpenly ==
  ASSUME NEW links, NEW n \in Nat, DOMAIN links = 1..n,
         NEW F, NEW c, NEW Skips, NEW Like, Offers(F, n, c, Skips, Like),
         \A i \in (1..n) \ Skips : c[i].access = "public" => ~Gated(links[i]) /\ c[i].url = links[i].url
  PROVE  ShownOpenly(F, links)
<1> SUFFICES ASSUME NEW k \in DOMAIN F, F[k].access = "public"
             PROVE  \E i \in Open(links) : F[k].url = links[i].url
  BY OffersSequence DEF ShownOpenly
<1>1. PICK i \in (1..n) \ Skips : F[k] = c[i]
  BY OffersSequence DEF Offers
<1>2. ~Gated(links[i]) /\ F[k].url = links[i].url
  BY <1>1
<1> QED
  BY <1>2 DEF Open

\* Where a wanted link without a rival gives its candidate, and only a rival of
\* it is taken in its place or has its key, the candidates are sought.
LEMMA OffersSought ==
  ASSUME NEW links, NEW n \in Nat, DOMAIN links = 1..n,
         NEW F, NEW c, NEW Skips, NEW Like, Offers(F, n, c, Skips, Like),
         \A i \in 1..n : Wanted(links[i]) => i \notin Skips /\ Gives(links[i], c[i]),
         \A i, j \in 1..n : Wanted(links[i]) /\ j \notin Skips =>
           /\ DuplicateKey(c[j]) = DuplicateKey(links[i]) => Rivals(links[i], links[j])
           /\ <<c[j], i>> \in Like => Rivals(links[i], links[j])
  PROVE  Sought(F, links)
<1> SUFFICES ASSUME NEW i \in 1..n, Wanted(links[i]), Alone(links, links[i])
             PROVE  /\ \E k \in DOMAIN F : Gives(links[i], F[k])
                    /\ \A k \in DOMAIN F : DuplicateKey(F[k]) = DuplicateKey(links[i]) => Gives(links[i], F[k])
  BY OffersSequence DEF Sought
<1>1. DOMAIN F = 1..Len(F)
  BY OffersSequence
<1>2. ASSUME NEW j \in (1..n) \ Skips, Rivals(links[i], links[j]) PROVE Gives(links[i], c[j])
  <2>1. links[j] = links[i]
    BY <1>2 DEF Alone
  <2>2. Wanted(links[j]) => Gives(links[j], c[j])
    BY <1>2
  <2> QED
    BY <2>1, <2>2
<1>3. ASSUME NEW k \in DOMAIN F, DuplicateKey(F[k]) = DuplicateKey(links[i]) PROVE Gives(links[i], F[k])
  <2>1. PICK j \in (1..n) \ Skips : F[k] = c[j]
    BY <1>1 DEF Offers
  <2>2. Rivals(links[i], links[j])
    BY <1>3, <2>1
  <2> QED
    BY <1>2, <2>1, <2>2
<1>4. PICK k \in 1..Len(F) : F[k] = c[i] \/ <<F[k], i>> \in Like
  BY DEF Offers
<1>5. Gives(links[i], F[k])
  <2>1. PICK j \in (1..n) \ Skips : F[k] = c[j]
    BY <1>4 DEF Offers
  <2>2. CASE F[k] = c[i]
    BY <2>2
  <2>3. CASE <<F[k], i>> \in Like
    BY <1>2, <2>1, <2>3
  <2> QED
    BY <1>4, <2>2, <2>3
<1> QED
  BY <1>1, <1>3, <1>5

EvaFold == INSTANCE FoldInduction WITH Op <- EvaOffer

\* EVA reads a login and a registration from the words beside the attachment.
LEMMA EvaPublic ==
  ASSUME NEW words
  PROVE  EvaAccess(words) = "public" <=> words \cap {"login", "register"} = {}
<1> DEFINE table == << <<"registration_required", {"register"}>>, <<"login_required", {"login"}>> >>
           hits == {i \in DOMAIN table : table[i][2] \cap words # {}}
<1>1. /\ DOMAIN table = {1, 2} /\ table[1][2] = {"register"} /\ table[2][2] = {"login"}
      /\ table[1][1] = "registration_required" /\ table[2][1] = "login_required"
  OBVIOUS
<1>2. EvaAccess(words) =
        IF hits = {} THEN "public" ELSE table[CHOOSE i \in hits : \A j \in hits : i <= j][1]
  BY DEF EvaAccess, FirstNamed
<1>3. hits = {} <=> words \cap {"login", "register"} = {}
  <2> HIDE DEF table
  <2> QED
    BY <1>1
<1>4. ASSUME hits # {} PROVE \E i \in hits : \A j \in hits : i <= j
  <2>1. hits \in SUBSET Nat
    <3> HIDE DEF table
    <3> QED
      BY <1>1
  <2> HIDE DEF hits
  <2> QED
    BY <1>4, <2>1, EvaFold!LeastNumber
<1>5. ASSUME hits # {} PROVE table[CHOOSE i \in hits : \A j \in hits : i <= j][1] # "public"
  <2>1. (CHOOSE i \in hits : \A j \in hits : i <= j) \in {1, 2}
    <3>1. hits \subseteq {1, 2}
      <4> HIDE DEF table
      <4> QED
        BY <1>1
    <3> HIDE DEF hits
    <3> QED
      BY <1>4, <1>5, <3>1
  <2> HIDE DEF hits, table
  <2> QED
    BY <1>1, <2>1
<1> HIDE DEF hits, table
<1> QED
  BY <1>2, <1>3, <1>5

LEMMA EvaOffers ==
  ASSUME NEW links, IsSequence(links)
  PROVE  ShownOpenly(EvaCandidates(links), links) /\ Sought(EvaCandidates(links), links)
<1> DEFINE n == Len(links)
           Name(link) == IF link.id # None THEN link.id ELSE link.url.path
           Made(link) == Candidate(link, Name(link), EvaAccess(link.words),
                                   EvaAccess(link.words) = "public", link.round)
           c == [i \in 1..n |-> Made(links[i])]
           C == {c[i] : i \in 1..n}
           Skips == {i \in 1..n : links[i].url.scheme # "https" \/ links[i].url.host # "portal"}
           Like == {x \in C \X (1..n) : x[1].id = Name(links[x[2]]) /\ x[1].round = links[x[2]].round}
           F == EvaCandidates(links)
<1>1. n \in Nat /\ DOMAIN links = 1..n
  BY SequenceLength
<1>2. F = EvaFold!Folded(<<>>, links)
  BY DEF EvaCandidates, EvaFold!Folded, FoldLeft, MapThenFoldSet, EvaFold!MapThenFoldSet, Max, EvaFold!Max
<1>3. \A i \in 1..n : c[i] = Made(links[i]) /\ c[i] \in C
  OBVIOUS
<1>4. ASSUME NEW s \in Seq(C), NEW i \in 1..n
      PROVE  EvaFold!OffersStep(s, EvaOffer(s, links[i]), i, c, Skips, Like)
  <2>1. EvaOffer(s, links[i]) =
          IF \/ links[i].url.scheme # "https" \/ links[i].url.host # "portal"
             \/ \E k \in DOMAIN s : s[k].id = Name(links[i]) /\ s[k].round = links[i].round
          THEN s ELSE Append(s, c[i])
    BY <1>3, Zenon DEF EvaOffer
  <2>2. DOMAIN s = 1..Len(s) /\ \A k \in 1..Len(s) : s[k] \in C
    OBVIOUS
  <2>3. \A x \in C : <<x, i>> \in Like <=> x.id = Name(links[i]) /\ x.round = links[i].round
    OBVIOUS
  <2>4. (\E k \in DOMAIN s : s[k].id = Name(links[i]) /\ s[k].round = links[i].round)
           <=> \E k \in 1..Len(s) : <<s[k], i>> \in Like
    <3> HIDE DEF C, Like, Name
    <3> QED
      BY <2>2, <2>3
  <2>5. i \in Skips <=> links[i].url.scheme # "https" \/ links[i].url.host # "portal"
    OBVIOUS
  <2> HIDE DEF C, Like, c, Name, Skips
  <2> QED
    BY <2>1, <2>4, <2>5, Zenon DEF EvaFold!OffersStep
<1>5. EvaFold!Offers(EvaFold!Folded(<<>>, links), n, c, Skips, Like)
  <2> HIDE DEF c, Skips, Like, n
  <2> QED
    BY <1>1, <1>4, EvaFold!FoldOffers
<1>6. Offers(F, n, c, Skips, Like)
  <2> HIDE DEF c, Skips, Like, F, n
  <2> QED
    BY <1>2, <1>5 DEF Offers, EvaFold!Offers
<1>7. ASSUME NEW i \in 1..n
      PROVE  /\ c[i].id = Name(links[i]) /\ c[i].url = links[i].url /\ c[i].round = links[i].round
             /\ c[i].access = EvaAccess(links[i].words)
             /\ c[i].public = (EvaAccess(links[i].words) = "public")
  BY DEF Candidate
<1>8. \A i \in (1..n) \ Skips : c[i].access = "public" => ~Gated(links[i]) /\ c[i].url = links[i].url
  <2> HIDE DEF c
  <2> QED
    BY <1>7, EvaPublic DEF Gated
<1>9. \A i \in 1..n : Wanted(links[i]) => i \notin Skips /\ Gives(links[i], c[i])
  <2> SUFFICES ASSUME NEW i \in 1..n, Wanted(links[i]) PROVE i \notin Skips /\ Gives(links[i], c[i])
    OBVIOUS
  <2>1. /\ links[i].words \cap {"login", "register"} = {} /\ links[i].id # None
        /\ links[i].url.scheme = "https" /\ links[i].url.host = "portal"
    BY DEF Wanted, Https
  <2>2. EvaAccess(links[i].words) = "public"
    BY <2>1, EvaPublic
  <2> HIDE DEF c
  <2> QED
    BY <1>7, <2>1, <2>2 DEF Gives
<1>10. \A i, j \in 1..n : Wanted(links[i]) /\ j \notin Skips =>
         /\ DuplicateKey(c[j]) = DuplicateKey(links[i]) => Rivals(links[i], links[j])
         /\ <<c[j], i>> \in Like => Rivals(links[i], links[j])
  <2> SUFFICES ASSUME NEW i \in 1..n, NEW j \in 1..n, Wanted(links[i]), j \notin Skips
               PROVE  /\ DuplicateKey(c[j]) = DuplicateKey(links[i]) => Rivals(links[i], links[j])
                      /\ <<c[j], i>> \in Like => Rivals(links[i], links[j])
    OBVIOUS
  <2>1. links[i].id # None
    BY DEF Wanted
  <2>2. <<c[j], i>> \in Like => c[j].id = Name(links[i]) /\ c[j].round = links[i].round
    <3> HIDE DEF c, Name
    <3> QED
      OBVIOUS
  <2> HIDE DEF c, Like
  <2> QED
    BY <1>7, <2>1, <2>2 DEF DuplicateKey, Rivals
<1> HIDE DEF n, c, Skips, Like, F
<1> QED
  BY <1>1, <1>6, <1>8, <1>9, <1>10, OffersOpenly, OffersSought DEF F

-----------------------------------------------------------------------------
(* The classes that share ListingOffer.                                     *)

\* What the links give, and what is at the same place as a link.
ListingMade(links, access) ==
  [i \in DOMAIN links |-> Candidate(links[i], links[i].id, access[i],
                                    access[i] = "public" /\ links[i].direct, links[i].round)]
SamePlace(c, links) ==
  {x \in {c[i] : i \in DOMAIN links} \X DOMAIN links : Canonical(x[1].url) = Canonical(links[x[2]].url)}

LEMMA ListingStep ==
  ASSUME NEW links, NEW n \in Nat, DOMAIN links = 1..n, NEW access, NEW Skips, NEW i \in 1..n,
         NEW s \in Seq({ListingMade(links, access)[k] : k \in 1..n}),
         NEW safe \in BOOLEAN, safe <=> i \notin Skips
  PROVE  OffersStep(s, ListingOffer(s, links[i], safe, access[i]), i, ListingMade(links, access),
                    Skips, SamePlace(ListingMade(links, access), links))
<1> DEFINE c == ListingMade(links, access)
           C == {c[k] : k \in 1..n}
           Like == SamePlace(c, links)
<1>1. c[i] = Candidate(links[i], links[i].id, access[i], access[i] = "public" /\ links[i].direct,
                       links[i].round)
  BY DEF ListingMade
<1> HIDE DEF c
<1>2. ListingOffer(s, links[i], safe, access[i]) =
        IF ~safe \/ \E k \in DOMAIN s : Canonical(s[k].url) = Canonical(links[i].url)
        THEN s ELSE Append(s, c[i])
  BY <1>1, Zenon DEF ListingOffer
<1>3. DOMAIN s = 1..Len(s) /\ \A k \in 1..Len(s) : s[k] \in C
  BY DEF c
<1>4. \A x \in C : <<x, i>> \in Like <=> Canonical(x.url) = Canonical(links[i].url)
  BY DEF SamePlace
<1>5. (\E k \in DOMAIN s : Canonical(s[k].url) = Canonical(links[i].url))
        <=> \E k \in 1..Len(s) : <<s[k], i>> \in Like
  <2> HIDE DEF C, Like
  <2> QED
    BY <1>3, <1>4
<1> HIDE DEF C, Like
<1>6. OffersStep(s, ListingOffer(s, links[i], safe, access[i]), i, c, Skips, Like)
  BY <1>2, <1>5, Zenon DEF OffersStep
<1> QED
  BY <1>6 DEF c, Like

LEMMA ListingOffers ==
  ASSUME NEW links, NEW n \in Nat, DOMAIN links = 1..n, NEW access, NEW Skips, NEW F,
         Offers(F, n, ListingMade(links, access), Skips, SamePlace(ListingMade(links, access), links)),
         \A i \in 1..n : access[i] = "public" <=> links[i].access = "public",
         \A i \in Skips : ~(Https(links[i].url) /\ links[i].url.host = "portal")
  PROVE  ShownOpenly(F, links) /\ Sought(F, links)
<1> DEFINE c == ListingMade(links, access)
           Like == SamePlace(c, links)
<1>1. ASSUME NEW i \in 1..n
      PROVE  /\ c[i].id = links[i].id /\ c[i].url = links[i].url /\ c[i].round = links[i].round
             /\ c[i].access = access[i] /\ c[i].public = (access[i] = "public" /\ links[i].direct)
  BY DEF ListingMade, Candidate
<1>2. ASSUME NEW i \in 1..n, NEW j \in 1..n, <<c[j], i>> \in Like
      PROVE  Canonical(c[j].url) = Canonical(links[i].url)
  <2> HIDE DEF c
  <2> QED
    BY <1>2 DEF SamePlace
<1>3. Offers(F, n, c, Skips, Like)
  OBVIOUS
<1> HIDE DEF c, Like
<1>4. \A i \in (1..n) \ Skips : c[i].access = "public" => ~Gated(links[i]) /\ c[i].url = links[i].url
  BY <1>1 DEF Gated
<1>5. ASSUME NEW i \in 1..n, Wanted(links[i]) PROVE i \notin Skips /\ Gives(links[i], c[i])
  <2>1. i \notin Skips /\ access[i] = "public" /\ links[i].direct
    BY <1>5 DEF Wanted
  <2>2. (access[i] = "public" /\ links[i].direct) = TRUE
    BY <2>1, Zenon
  <2>3. c[i].public = TRUE
    BY <1>1, <2>2, Zenon
  <2>4. /\ c[i].id = links[i].id /\ c[i].url = links[i].url /\ c[i].round = links[i].round
        /\ c[i].access = "public"
    BY <1>1, <2>1, Zenon
  <2> QED
    BY <2>1, <2>3, <2>4 DEF Gives
<1>6. ASSUME NEW i \in 1..n, NEW j \in 1..n
      PROVE  /\ DuplicateKey(c[j]) = DuplicateKey(links[i]) => Rivals(links[i], links[j])
             /\ <<c[j], i>> \in Like => Rivals(links[i], links[j])
  <2>1. c[j].id = links[j].id /\ c[j].url = links[j].url /\ c[j].round = links[j].round
    BY <1>1
  <2> QED
    BY <1>2, <2>1 DEF DuplicateKey, Rivals
<1>7. ShownOpenly(F, links)
  BY <1>3, <1>4, OffersOpenly
<1>8. Sought(F, links)
  BY <1>3, <1>5, <1>6, OffersSought
<1> QED
  BY <1>7, <1>8

BidNetFold == INSTANCE FoldInduction WITH Op <- BidNetOffer

LEMMA BidNetOffers ==
  ASSUME NEW links, IsSequence(links)
  PROVE  ShownOpenly(BidNetCandidates(links), links) /\ Sought(BidNetCandidates(links), links)
<1> DEFINE n == Len(links)
           access == [i \in 1..n |-> DeclaredAccess(links[i].access)]
           c == ListingMade(links, access)
           Skips == {i \in 1..n : ~BidNetSafe(links[i].url, TRUE)}
           Like == SamePlace(c, links)
           F == BidNetCandidates(links)
<1>1. n \in Nat /\ DOMAIN links = 1..n
  BY SequenceLength
<1>2. F = BidNetFold!Folded(<<>>, links)
  BY DEF BidNetCandidates, BidNetFold!Folded, FoldLeft, MapThenFoldSet, BidNetFold!MapThenFoldSet, Max, BidNetFold!Max
<1>3. ASSUME NEW s \in Seq({c[i] : i \in 1..n}), NEW i \in 1..n
      PROVE  BidNetFold!OffersStep(s, BidNetOffer(s, links[i]), i, c, Skips, Like)
  <2>1. BidNetOffer(s, links[i]) = ListingOffer(s, links[i], BidNetSafe(links[i].url, TRUE), access[i])
    BY DEF BidNetOffer
  <2>2. BidNetSafe(links[i].url, TRUE) \in BOOLEAN /\ (BidNetSafe(links[i].url, TRUE) <=> i \notin Skips)
    BY DEF BidNetSafe
  <2> HIDE DEF access, Skips, n
  <2>3. OffersStep(s, ListingOffer(s, links[i], BidNetSafe(links[i].url, TRUE), access[i]), i, c, Skips, Like)
    BY <1>1, <2>2, ListingStep, Zenon
  <2> QED
    BY <2>1, <2>3 DEF OffersStep, BidNetFold!OffersStep
<1>4. \A i \in 1..n : access[i] = "public" <=> links[i].access = "public"
  BY DEF DeclaredAccess
<1>5. \A i \in Skips : ~(Https(links[i].url) /\ links[i].url.host = "portal")
  BY DEF BidNetSafe
<1> HIDE DEF n, access, c, Skips, Like
<1>6. BidNetFold!Offers(BidNetFold!Folded(<<>>, links), n, c, Skips, Like)
  BY <1>1, <1>3, BidNetFold!FoldOffers
<1> HIDE DEF F
<1>7. Offers(F, n, c, Skips, Like)
  BY <1>2, <1>6 DEF Offers, BidNetFold!Offers
<1> QED
  BY <1>1, <1>4, <1>5, <1>7, ListingOffers DEF F, c, Like

PublicPurchaseFold == INSTANCE FoldInduction WITH Op <- PublicPurchaseOffer

LEMMA PublicPurchaseOffers ==
  ASSUME NEW links, IsSequence(links)
  PROVE  ShownOpenly(PublicPurchaseCandidates(links), links) /\ Sought(PublicPurchaseCandidates(links), links)
<1> DEFINE n == Len(links)
           access == [i \in 1..n |-> DeclaredAccess(links[i].access)]
           c == ListingMade(links, access)
           Skips == {i \in 1..n : ~PublicPurchaseSafe(links[i].url, TRUE)}
           Like == SamePlace(c, links)
           F == PublicPurchaseCandidates(links)
<1>1. n \in Nat /\ DOMAIN links = 1..n
  BY SequenceLength
<1>2. F = PublicPurchaseFold!Folded(<<>>, links)
  BY DEF PublicPurchaseCandidates, PublicPurchaseFold!Folded, FoldLeft, MapThenFoldSet, PublicPurchaseFold!MapThenFoldSet, Max, PublicPurchaseFold!Max
<1>3. ASSUME NEW s \in Seq({c[i] : i \in 1..n}), NEW i \in 1..n
      PROVE  PublicPurchaseFold!OffersStep(s, PublicPurchaseOffer(s, links[i]), i, c, Skips, Like)
  <2>1. PublicPurchaseOffer(s, links[i]) = ListingOffer(s, links[i], PublicPurchaseSafe(links[i].url, TRUE), access[i])
    BY DEF PublicPurchaseOffer
  <2>2. PublicPurchaseSafe(links[i].url, TRUE) \in BOOLEAN /\ (PublicPurchaseSafe(links[i].url, TRUE) <=> i \notin Skips)
    BY DEF PublicPurchaseSafe
  <2> HIDE DEF access, Skips, n
  <2>3. OffersStep(s, ListingOffer(s, links[i], PublicPurchaseSafe(links[i].url, TRUE), access[i]), i, c, Skips, Like)
    BY <1>1, <2>2, ListingStep, Zenon
  <2> QED
    BY <2>1, <2>3 DEF OffersStep, PublicPurchaseFold!OffersStep
<1>4. \A i \in 1..n : access[i] = "public" <=> links[i].access = "public"
  BY DEF DeclaredAccess
<1>5. \A i \in Skips : ~(Https(links[i].url) /\ links[i].url.host = "portal")
  BY DEF PublicPurchaseSafe
<1> HIDE DEF n, access, c, Skips, Like
<1>6. PublicPurchaseFold!Offers(PublicPurchaseFold!Folded(<<>>, links), n, c, Skips, Like)
  BY <1>1, <1>3, PublicPurchaseFold!FoldOffers
<1> HIDE DEF F
<1>7. Offers(F, n, c, Skips, Like)
  BY <1>2, <1>6 DEF Offers, PublicPurchaseFold!Offers
<1> QED
  BY <1>1, <1>4, <1>5, <1>7, ListingOffers DEF F, c, Like

PlanetBidsFold == INSTANCE FoldInduction WITH Op <- PlanetBidsOffer

LEMMA PlanetBidsOffers ==
  ASSUME NEW links, IsSequence(links)
  PROVE  ShownOpenly(PlanetBidsCandidates(links), links) /\ Sought(PlanetBidsCandidates(links), links)
<1> DEFINE n == Len(links)
           access == [i \in 1..n |-> DeclaredAccess(links[i].access)]
           c == ListingMade(links, access)
           Skips == {i \in 1..n : ~PlanetBidsSafe(links[i].url, TRUE)}
           Like == SamePlace(c, links)
           F == PlanetBidsCandidates(links)
<1>1. n \in Nat /\ DOMAIN links = 1..n
  BY SequenceLength
<1>2. F = PlanetBidsFold!Folded(<<>>, links)
  BY DEF PlanetBidsCandidates, PlanetBidsFold!Folded, FoldLeft, MapThenFoldSet, PlanetBidsFold!MapThenFoldSet, Max, PlanetBidsFold!Max
<1>3. ASSUME NEW s \in Seq({c[i] : i \in 1..n}), NEW i \in 1..n
      PROVE  PlanetBidsFold!OffersStep(s, PlanetBidsOffer(s, links[i]), i, c, Skips, Like)
  <2>1. PlanetBidsOffer(s, links[i]) = ListingOffer(s, links[i], PlanetBidsSafe(links[i].url, TRUE), access[i])
    BY DEF PlanetBidsOffer
  <2>2. PlanetBidsSafe(links[i].url, TRUE) \in BOOLEAN /\ (PlanetBidsSafe(links[i].url, TRUE) <=> i \notin Skips)
    BY DEF PlanetBidsSafe
  <2> HIDE DEF access, Skips, n
  <2>3. OffersStep(s, ListingOffer(s, links[i], PlanetBidsSafe(links[i].url, TRUE), access[i]), i, c, Skips, Like)
    BY <1>1, <2>2, ListingStep, Zenon
  <2> QED
    BY <2>1, <2>3 DEF OffersStep, PlanetBidsFold!OffersStep
<1>4. \A i \in 1..n : access[i] = "public" <=> links[i].access = "public"
  BY DEF DeclaredAccess
<1>5. \A i \in Skips : ~(Https(links[i].url) /\ links[i].url.host = "portal")
  BY DEF PlanetBidsSafe
<1> HIDE DEF n, access, c, Skips, Like
<1>6. PlanetBidsFold!Offers(PlanetBidsFold!Folded(<<>>, links), n, c, Skips, Like)
  BY <1>1, <1>3, PlanetBidsFold!FoldOffers
<1> HIDE DEF F
<1>7. Offers(F, n, c, Skips, Like)
  BY <1>2, <1>6 DEF Offers, PlanetBidsFold!Offers
<1> QED
  BY <1>1, <1>4, <1>5, <1>7, ListingOffers DEF F, c, Like

MarylandFold == INSTANCE FoldInduction WITH Op <- MarylandOffer

LEMMA MarylandOffers ==
  ASSUME NEW links, IsSequence(links)
  PROVE  ShownOpenly(MarylandCandidates(links), links) /\ Sought(MarylandCandidates(links), links)
<1> DEFINE n == Len(links)
           access == [i \in 1..n |-> MarylandAccess(links[i].access)]
           c == ListingMade(links, access)
           Skips == {i \in 1..n : ~MarylandSafe(links[i].url, TRUE)}
           Like == SamePlace(c, links)
           F == MarylandCandidates(links)
<1>1. n \in Nat /\ DOMAIN links = 1..n
  BY SequenceLength
<1>2. F = MarylandFold!Folded(<<>>, links)
  BY DEF MarylandCandidates, MarylandFold!Folded, FoldLeft, MapThenFoldSet, MarylandFold!MapThenFoldSet, Max, MarylandFold!Max
<1>3. ASSUME NEW s \in Seq({c[i] : i \in 1..n}), NEW i \in 1..n
      PROVE  MarylandFold!OffersStep(s, MarylandOffer(s, links[i]), i, c, Skips, Like)
  <2>1. MarylandOffer(s, links[i]) = ListingOffer(s, links[i], MarylandSafe(links[i].url, TRUE), access[i])
    BY DEF MarylandOffer
  <2>2. MarylandSafe(links[i].url, TRUE) \in BOOLEAN /\ (MarylandSafe(links[i].url, TRUE) <=> i \notin Skips)
    BY DEF MarylandSafe
  <2> HIDE DEF access, Skips, n
  <2>3. OffersStep(s, ListingOffer(s, links[i], MarylandSafe(links[i].url, TRUE), access[i]), i, c, Skips, Like)
    BY <1>1, <2>2, ListingStep, Zenon
  <2> QED
    BY <2>1, <2>3 DEF OffersStep, MarylandFold!OffersStep
<1>4. \A i \in 1..n : access[i] = "public" <=> links[i].access = "public"
  BY DEF MarylandAccess, DeclaredAccess
<1>5. \A i \in Skips : ~(Https(links[i].url) /\ links[i].url.host = "portal")
  BY DEF MarylandSafe
<1> HIDE DEF n, access, c, Skips, Like
<1>6. MarylandFold!Offers(MarylandFold!Folded(<<>>, links), n, c, Skips, Like)
  BY <1>1, <1>3, MarylandFold!FoldOffers
<1> HIDE DEF F
<1>7. Offers(F, n, c, Skips, Like)
  BY <1>2, <1>6 DEF Offers, MarylandFold!Offers
<1> QED
  BY <1>1, <1>4, <1>5, <1>7, ListingOffers DEF F, c, Like

GeorgiaFold == INSTANCE FoldInduction WITH Op <- GeorgiaOffer

LEMMA GeorgiaOffers ==
  ASSUME NEW links, IsSequence(links)
  PROVE  ShownOpenly(GeorgiaCandidates(links), links) /\ Sought(GeorgiaCandidates(links), links)
<1> DEFINE n == Len(links)
           access == [i \in 1..n |-> GeorgiaAccess(links[i].access)]
           c == ListingMade(links, access)
           Skips == {i \in 1..n : ~GeorgiaSafe(links[i].url, TRUE)}
           Like == SamePlace(c, links)
           F == GeorgiaCandidates(links)
<1>1. n \in Nat /\ DOMAIN links = 1..n
  BY SequenceLength
<1>2. F = GeorgiaFold!Folded(<<>>, links)
  BY DEF GeorgiaCandidates, GeorgiaFold!Folded, FoldLeft, MapThenFoldSet, GeorgiaFold!MapThenFoldSet, Max, GeorgiaFold!Max
<1>3. ASSUME NEW s \in Seq({c[i] : i \in 1..n}), NEW i \in 1..n
      PROVE  GeorgiaFold!OffersStep(s, GeorgiaOffer(s, links[i]), i, c, Skips, Like)
  <2>1. GeorgiaOffer(s, links[i]) = ListingOffer(s, links[i], GeorgiaSafe(links[i].url, TRUE), access[i])
    BY DEF GeorgiaOffer
  <2>2. GeorgiaSafe(links[i].url, TRUE) \in BOOLEAN /\ (GeorgiaSafe(links[i].url, TRUE) <=> i \notin Skips)
    BY DEF GeorgiaSafe
  <2> HIDE DEF access, Skips, n
  <2>3. OffersStep(s, ListingOffer(s, links[i], GeorgiaSafe(links[i].url, TRUE), access[i]), i, c, Skips, Like)
    BY <1>1, <2>2, ListingStep, Zenon
  <2> QED
    BY <2>1, <2>3 DEF OffersStep, GeorgiaFold!OffersStep
<1>4. \A i \in 1..n : access[i] = "public" <=> links[i].access = "public"
  BY DEF GeorgiaAccess, DeclaredAccess
<1>5. \A i \in Skips : ~(Https(links[i].url) /\ links[i].url.host = "portal")
  BY DEF GeorgiaSafe
<1> HIDE DEF n, access, c, Skips, Like
<1>6. GeorgiaFold!Offers(GeorgiaFold!Folded(<<>>, links), n, c, Skips, Like)
  BY <1>1, <1>3, GeorgiaFold!FoldOffers
<1> HIDE DEF F
<1>7. Offers(F, n, c, Skips, Like)
  BY <1>2, <1>6 DEF Offers, GeorgiaFold!Offers
<1> QED
  BY <1>1, <1>4, <1>5, <1>7, ListingOffers DEF F, c, Like

DemandStarFold == INSTANCE FoldInduction WITH Op <- DemandStarOffer

LEMMA DemandStarOffers ==
  ASSUME NEW links, IsSequence(links)
  PROVE  ShownOpenly(DemandStarCandidates(links), links) /\ Sought(DemandStarCandidates(links), links)
<1> DEFINE n == Len(links)
           access == [i \in 1..n |-> DeclaredAccess(links[i].access)]
           c == ListingMade(links, access)
           Skips == {i \in 1..n : ~DemandStarSafe(links[i].url, TRUE)}
           Like == SamePlace(c, links)
           F == DemandStarCandidates(links)
<1>1. n \in Nat /\ DOMAIN links = 1..n
  BY SequenceLength
<1>2. F = DemandStarFold!Folded(<<>>, links)
  BY DEF DemandStarCandidates, DemandStarFold!Folded, FoldLeft, MapThenFoldSet, DemandStarFold!MapThenFoldSet, Max, DemandStarFold!Max
<1>3. ASSUME NEW s \in Seq({c[i] : i \in 1..n}), NEW i \in 1..n
      PROVE  DemandStarFold!OffersStep(s, DemandStarOffer(s, links[i]), i, c, Skips, Like)
  <2>1. DemandStarOffer(s, links[i]) = ListingOffer(s, links[i], DemandStarSafe(links[i].url, TRUE), access[i])
    BY DEF DemandStarOffer
  <2>2. DemandStarSafe(links[i].url, TRUE) \in BOOLEAN /\ (DemandStarSafe(links[i].url, TRUE) <=> i \notin Skips)
    BY DEF DemandStarSafe
  <2> HIDE DEF access, Skips, n
  <2>3. OffersStep(s, ListingOffer(s, links[i], DemandStarSafe(links[i].url, TRUE), access[i]), i, c, Skips, Like)
    BY <1>1, <2>2, ListingStep, Zenon
  <2> QED
    BY <2>1, <2>3 DEF OffersStep, DemandStarFold!OffersStep
<1>4. \A i \in 1..n : access[i] = "public" <=> links[i].access = "public"
  BY DEF DeclaredAccess
<1>5. \A i \in Skips : ~(Https(links[i].url) /\ links[i].url.host = "portal")
  BY DEF DemandStarSafe, Https
<1> HIDE DEF n, access, c, Skips, Like
<1>6. DemandStarFold!Offers(DemandStarFold!Folded(<<>>, links), n, c, Skips, Like)
  BY <1>1, <1>3, DemandStarFold!FoldOffers
<1> HIDE DEF F
<1>7. Offers(F, n, c, Skips, Like)
  BY <1>2, <1>6 DEF Offers, DemandStarFold!Offers
<1> QED
  BY <1>1, <1>4, <1>5, <1>7, ListingOffers DEF F, c, Like

-----------------------------------------------------------------------------
(* The classes that share CollectOffer.                                     *)

CollectMade(links, access) ==
  [i \in DOMAIN links |-> Candidate(links[i], links[i].id, access[i], access[i] = "public", links[i].round)]
SameUrl(c, links) == {x \in {c[i] : i \in DOMAIN links} \X DOMAIN links : x[1].url = links[x[2]].url}

LEMMA CollectStep ==
  ASSUME NEW links, NEW n \in Nat, DOMAIN links = 1..n, NEW access, NEW Skips, NEW i \in 1..n,
         NEW s \in Seq({CollectMade(links, access)[k] : k \in 1..n}),
         NEW safe \in BOOLEAN, safe <=> i \notin Skips
  PROVE  OffersStep(s, CollectOffer(s, links[i], safe, access[i]), i, CollectMade(links, access),
                    Skips, SameUrl(CollectMade(links, access), links))
<1> DEFINE c == CollectMade(links, access)
           C == {c[k] : k \in 1..n}
           Like == SameUrl(c, links)
<1>1. c[i] = Candidate(links[i], links[i].id, access[i], access[i] = "public", links[i].round)
  BY DEF CollectMade
<1> HIDE DEF c
<1>2. CollectOffer(s, links[i], safe, access[i]) =
        IF ~safe \/ \E k \in DOMAIN s : s[k].url = links[i].url THEN s ELSE Append(s, c[i])
  BY <1>1, Zenon DEF CollectOffer
<1>3. DOMAIN s = 1..Len(s) /\ \A k \in 1..Len(s) : s[k] \in C
  BY DEF c
<1>4. \A x \in C : <<x, i>> \in Like <=> x.url = links[i].url
  BY DEF SameUrl
<1>5. (\E k \in DOMAIN s : s[k].url = links[i].url) <=> \E k \in 1..Len(s) : <<s[k], i>> \in Like
  <2> HIDE DEF C, Like
  <2> QED
    BY <1>3, <1>4, Zenon
<1> HIDE DEF C, Like
<1>6. OffersStep(s, CollectOffer(s, links[i], safe, access[i]), i, c, Skips, Like)
  BY <1>2, <1>5, Zenon DEF OffersStep
<1> QED
  BY <1>6 DEF c, Like

LEMMA CollectCandidate ==
  ASSUME NEW links, NEW access, NEW i \in DOMAIN links
  PROVE  LET candidate == CollectMade(links, access)[i]
         IN /\ candidate.id = links[i].id /\ candidate.url = links[i].url
            /\ candidate.round = links[i].round
            /\ candidate.access = access[i] /\ candidate.public = (access[i] = "public")
BY DEF CollectMade, Candidate

LEMMA CollectOpenly ==
  ASSUME NEW links, NEW n \in Nat, DOMAIN links = 1..n, NEW access, NEW Skips, NEW F,
         Offers(F, n, CollectMade(links, access), Skips, SameUrl(CollectMade(links, access), links)),
         \A i \in 1..n : access[i] = "public" => ~Gated(links[i])
  PROVE  ShownOpenly(F, links)
<1> DEFINE c == CollectMade(links, access)
           Like == SameUrl(c, links)
<1>1. \A i \in (1..n) \ Skips : c[i].access = "public" => ~Gated(links[i]) /\ c[i].url = links[i].url
  <2> SUFFICES ASSUME NEW i \in 1..n
               PROVE  c[i].access = "public" => ~Gated(links[i]) /\ c[i].url = links[i].url
    OBVIOUS
  <2>1. c[i].access = access[i] /\ c[i].url = links[i].url
    BY CollectCandidate
  <2> QED
    BY <2>1
<1>2. Offers(F, n, c, Skips, Like)
  OBVIOUS
<1> HIDE DEF c, Like
<1> QED
  BY <1>1, <1>2, OffersOpenly

LEMMA CollectSought ==
  ASSUME NEW links, NEW n \in Nat, DOMAIN links = 1..n, NEW access, NEW Skips, NEW F,
         Offers(F, n, CollectMade(links, access), Skips, SameUrl(CollectMade(links, access), links)),
         \A i \in 1..n : Wanted(links[i]) => i \notin Skips /\ access[i] = "public"
  PROVE  Sought(F, links)
<1> DEFINE c == CollectMade(links, access)
           Like == SameUrl(c, links)
<1>1. ASSUME NEW i \in 1..n
      PROVE  /\ c[i].id = links[i].id /\ c[i].url = links[i].url /\ c[i].round = links[i].round
             /\ c[i].access = access[i] /\ c[i].public = (access[i] = "public")
  BY CollectCandidate
<1>2. ASSUME NEW i \in 1..n, NEW j \in 1..n, <<c[j], i>> \in Like PROVE c[j].url = links[i].url
  <2> HIDE DEF c
  <2> QED
    BY <1>2 DEF SameUrl
<1>3. Offers(F, n, c, Skips, Like)
  OBVIOUS
<1> HIDE DEF c, Like
<1>4. ASSUME NEW i \in 1..n, Wanted(links[i]) PROVE i \notin Skips /\ Gives(links[i], c[i])
  <2>1. i \notin Skips /\ access[i] = "public"
    BY <1>4
  <2>2. c[i].public = TRUE
    BY <1>1, <2>1, Zenon
  <2>3. /\ c[i].id = links[i].id /\ c[i].url = links[i].url /\ c[i].round = links[i].round
        /\ c[i].access = "public"
    BY <1>1, <2>1, Zenon
  <2> QED
    BY <2>1, <2>2, <2>3 DEF Gives
<1>5. ASSUME NEW i \in 1..n, NEW j \in 1..n
      PROVE  /\ DuplicateKey(c[j]) = DuplicateKey(links[i]) => Rivals(links[i], links[j])
             /\ <<c[j], i>> \in Like => Rivals(links[i], links[j])
  <2>1. c[j].id = links[j].id /\ c[j].url = links[j].url /\ c[j].round = links[j].round
    BY <1>1
  <2> QED
    BY <1>2, <2>1 DEF DuplicateKey, Rivals
<1> QED
  BY <1>3, <1>4, <1>5, OffersSought

BonfireFold == INSTANCE FoldInduction WITH Op <- BonfireOffer

\* The fold of Bonfire, over the links of a page or what was made of them.
LEMMA BonfireFolded ==
  ASSUME NEW links, NEW n \in Nat, DOMAIN links = 1..n, NEW access, NEW Skips,
         access = [i \in 1..n |-> BonfireAccess(links[i])],
         Skips = {i \in 1..n : ~BonfireSafe(links[i].url, TRUE)}
  PROVE  Offers(BonfireCandidates(links), n, CollectMade(links, access), Skips,
                SameUrl(CollectMade(links, access), links))
<1> DEFINE c == CollectMade(links, access)
           Like == SameUrl(c, links)
           F == BonfireCandidates(links)
<1>1. F = BonfireFold!Folded(<<>>, links)
  BY DEF BonfireCandidates, BonfireFold!Folded, FoldLeft, MapThenFoldSet, BonfireFold!MapThenFoldSet, Max, BonfireFold!Max
<1>2. ASSUME NEW s \in Seq({c[i] : i \in 1..n}), NEW i \in 1..n
      PROVE  BonfireFold!OffersStep(s, BonfireOffer(s, links[i]), i, c, Skips, Like)
  <2>1. BonfireOffer(s, links[i]) = CollectOffer(s, links[i], BonfireSafe(links[i].url, TRUE), access[i])
    BY DEF BonfireOffer
  <2>2. BonfireSafe(links[i].url, TRUE) \in BOOLEAN /\ (BonfireSafe(links[i].url, TRUE) <=> i \notin Skips)
    BY DEF BonfireSafe
  <2>3. OffersStep(s, CollectOffer(s, links[i], BonfireSafe(links[i].url, TRUE), access[i]), i, c, Skips, Like)
    BY <2>2, CollectStep, Zenon
  <2> QED
    BY <2>1, <2>3 DEF OffersStep, BonfireFold!OffersStep
<1> HIDE DEF c, Like
<1>3. BonfireFold!Offers(BonfireFold!Folded(<<>>, links), n, c, Skips, Like)
  BY <1>2, BonfireFold!FoldOffers
<1> HIDE DEF F
<1>4. Offers(F, n, c, Skips, Like)
  BY <1>1, <1>3 DEF Offers, BonfireFold!Offers
<1> QED
  BY <1>4 DEF F, c, Like

LEMMA BonfireOffers ==
  ASSUME NEW links, IsSequence(links)
  PROVE  ShownOpenly(BonfireCandidates(links), links) /\ Sought(BonfireCandidates(links), links)
<1> DEFINE n == Len(links)
           access == [i \in 1..n |-> BonfireAccess(links[i])]
           Skips == {i \in 1..n : ~BonfireSafe(links[i].url, TRUE)}
<1>1. n \in Nat /\ DOMAIN links = 1..n
  BY SequenceLength
<1>2. \A i \in 1..n : access[i] = "public" => ~Gated(links[i])
  BY DEF BonfireAccess, Gated
<1>3. \A i \in 1..n : Wanted(links[i]) => i \notin Skips /\ access[i] = "public"
  BY DEF BonfireSafe, BonfireAccess, Wanted
<1>4. access = [i \in 1..n |-> BonfireAccess(links[i])] /\ Skips = {i \in 1..n : ~BonfireSafe(links[i].url, TRUE)}
  OBVIOUS
<1> HIDE DEF n, access, Skips
<1>5. Offers(BonfireCandidates(links), n, CollectMade(links, access), Skips,
             SameUrl(CollectMade(links, access), links))
  BY <1>1, <1>4, BonfireFolded, Zenon
<1> QED
  BY <1>1, <1>2, <1>3, <1>5, CollectOpenly, CollectSought

IonWaveFold == INSTANCE FoldInduction WITH Op <- IonWaveOffer

\* The fold of IonWave, over the links of a page or what was made of them.
LEMMA IonWaveFolded ==
  ASSUME NEW links, NEW n \in Nat, DOMAIN links = 1..n, NEW access, NEW Skips,
         access = [i \in 1..n |-> IonWaveAccess(links[i])],
         Skips = {i \in 1..n : ~IonWaveSafe(links[i].url, TRUE)}
  PROVE  Offers(IonWaveCandidates(links), n, CollectMade(links, access), Skips,
                SameUrl(CollectMade(links, access), links))
<1> DEFINE c == CollectMade(links, access)
           Like == SameUrl(c, links)
           F == IonWaveCandidates(links)
<1>1. F = IonWaveFold!Folded(<<>>, links)
  BY DEF IonWaveCandidates, IonWaveFold!Folded, FoldLeft, MapThenFoldSet, IonWaveFold!MapThenFoldSet, Max, IonWaveFold!Max
<1>2. ASSUME NEW s \in Seq({c[i] : i \in 1..n}), NEW i \in 1..n
      PROVE  IonWaveFold!OffersStep(s, IonWaveOffer(s, links[i]), i, c, Skips, Like)
  <2>1. IonWaveOffer(s, links[i]) = CollectOffer(s, links[i], IonWaveSafe(links[i].url, TRUE), access[i])
    BY DEF IonWaveOffer
  <2>2. IonWaveSafe(links[i].url, TRUE) \in BOOLEAN /\ (IonWaveSafe(links[i].url, TRUE) <=> i \notin Skips)
    BY DEF IonWaveSafe
  <2>3. OffersStep(s, CollectOffer(s, links[i], IonWaveSafe(links[i].url, TRUE), access[i]), i, c, Skips, Like)
    BY <2>2, CollectStep, Zenon
  <2> QED
    BY <2>1, <2>3 DEF OffersStep, IonWaveFold!OffersStep
<1> HIDE DEF c, Like
<1>3. IonWaveFold!Offers(IonWaveFold!Folded(<<>>, links), n, c, Skips, Like)
  BY <1>2, IonWaveFold!FoldOffers
<1> HIDE DEF F
<1>4. Offers(F, n, c, Skips, Like)
  BY <1>1, <1>3 DEF Offers, IonWaveFold!Offers
<1> QED
  BY <1>4 DEF F, c, Like

LEMMA IonWaveOffers ==
  ASSUME NEW links, IsSequence(links)
  PROVE  ShownOpenly(IonWaveCandidates(links), links) /\ Sought(IonWaveCandidates(links), links)
<1> DEFINE n == Len(links)
           access == [i \in 1..n |-> IonWaveAccess(links[i])]
           Skips == {i \in 1..n : ~IonWaveSafe(links[i].url, TRUE)}
<1>1. n \in Nat /\ DOMAIN links = 1..n
  BY SequenceLength
<1>2. \A i \in 1..n : access[i] = "public" => ~Gated(links[i])
  BY DEF IonWaveAccess, Gated
<1>3. \A i \in 1..n : Wanted(links[i]) => i \notin Skips /\ access[i] = "public"
  BY DEF IonWaveSafe, IonWaveAccess, Wanted
<1>4. access = [i \in 1..n |-> IonWaveAccess(links[i])] /\ Skips = {i \in 1..n : ~IonWaveSafe(links[i].url, TRUE)}
  OBVIOUS
<1> HIDE DEF n, access, Skips
<1>5. Offers(IonWaveCandidates(links), n, CollectMade(links, access), Skips,
             SameUrl(CollectMade(links, access), links))
  BY <1>1, <1>4, IonWaveFolded, Zenon
<1> QED
  BY <1>1, <1>2, <1>3, <1>5, CollectOpenly, CollectSought

\* The live pages of IonWave: what is restricted there is given the page's own
\* address and a login.
LEMMA IonWaveLiveOffers ==
  ASSUME NEW links, IsSequence(links)
  PROVE  ShownOpenly(IonWaveCandidates([i \in DOMAIN links |-> IonWaveLive(links[i], DetailPage)]), links)
<1> DEFINE n == Len(links)
           live == [i \in DOMAIN links |-> IonWaveLive(links[i], DetailPage)]
           access == [i \in 1..n |-> IonWaveAccess(live[i])]
           Skips == {i \in 1..n : ~IonWaveSafe(live[i].url, TRUE)}
           c == CollectMade(live, access)
<1>1. n \in Nat /\ DOMAIN links = 1..n /\ DOMAIN live = 1..n
  BY SequenceLength
<1>2. ASSUME NEW i \in 1..n
      PROVE  c[i].access = "public" => ~Gated(links[i]) /\ c[i].url = links[i].url
  <2>1. c[i].access = access[i] /\ c[i].url = live[i].url
    BY <1>1 DEF CollectMade, Candidate
  <2>2. access[i] = IonWaveAccess(live[i]) /\ live[i] = IonWaveLive(links[i], DetailPage)
    BY <1>1
  <2> HIDE DEF c, access, live
  <2>3. CASE "restricted" \in links[i].words
    <3>1. live[i] = [links[i] EXCEPT !.url = DetailPage, !.access = "login_required", !.id = None]
      BY <2>2, <2>3 DEF IonWaveLive
    <3>2. live[i].access = "login_required"
      BY <3>1
    <3> QED
      BY <2>1, <2>2, <3>2 DEF IonWaveAccess
  <2>4. CASE "restricted" \notin links[i].words
    <3>1. live[i].url = links[i].url
      BY <2>2, <2>4 DEF IonWaveLive
    <3> QED
      BY <2>1, <2>4, <3>1 DEF Gated
  <2> QED
    BY <2>3, <2>4
<1>3. Offers(IonWaveCandidates(live), n, c, Skips, SameUrl(c, live))
  <2>1. access = [i \in 1..n |-> IonWaveAccess(live[i])] /\ Skips = {i \in 1..n : ~IonWaveSafe(live[i].url, TRUE)}
    OBVIOUS
  <2> HIDE DEF live, n, access, Skips
  <2> QED
    BY <1>1, <2>1, IonWaveFolded, Zenon
<1> HIDE DEF n, live, access, Skips, c
<1>4. ShownOpenly(IonWaveCandidates(live), links)
  BY <1>1, <1>2, <1>3, OffersOpenly
<1> QED
  BY <1>4 DEF live

-----------------------------------------------------------------------------
(* The other classes.                                                       *)

TexasFold == INSTANCE FoldInduction WITH Op <- TexasOffer

\* The portal's own links are public in Texas, whatever stands beside them.
LEMMA TexasOffers ==
  ASSUME NEW links, IsSequence(links)
  PROVE  Sought(TexasCandidates(links), links)
<1> DEFINE n == Len(links)
           access == [i \in 1..n |-> TexasAccess(links[i])]
           Skips == {i \in 1..n : links[i].url.scheme \notin {"http", "https"}}
           c == CollectMade(links, access)
           Like == SameUrl(c, links)
           F == TexasCandidates(links)
<1>1. n \in Nat /\ DOMAIN links = 1..n
  BY SequenceLength
<1>2. F = TexasFold!Folded(<<>>, links)
  BY DEF TexasCandidates, TexasFold!Folded, FoldLeft, MapThenFoldSet, TexasFold!MapThenFoldSet, Max, TexasFold!Max
<1>3. ASSUME NEW s \in Seq({c[i] : i \in 1..n}), NEW i \in 1..n
      PROVE  TexasFold!OffersStep(s, TexasOffer(s, links[i]), i, c, Skips, Like)
  <2> DEFINE safe == links[i].url.scheme \in {"http", "https"}
  <2>1. TexasOffer(s, links[i]) = CollectOffer(s, links[i], safe, access[i])
    BY DEF TexasOffer, CollectOffer
  <2>2. safe \in BOOLEAN /\ (safe <=> i \notin Skips)
    OBVIOUS
  <2> HIDE DEF safe, access, Skips, n
  <2>3. OffersStep(s, CollectOffer(s, links[i], safe, access[i]), i, c, Skips, Like)
    BY <1>1, <2>2, CollectStep, Zenon
  <2> QED
    BY <2>1, <2>3 DEF OffersStep, TexasFold!OffersStep
<1>4. \A i \in 1..n : Wanted(links[i]) => i \notin Skips /\ access[i] = "public"
  BY DEF Wanted, Https, TexasAccess
<1> HIDE DEF n, access, c, Skips, Like
<1>5. TexasFold!Offers(TexasFold!Folded(<<>>, links), n, c, Skips, Like)
  BY <1>1, <1>3, TexasFold!FoldOffers
<1> HIDE DEF F
<1>6. Offers(F, n, c, Skips, Like)
  BY <1>2, <1>5 DEF Offers, TexasFold!Offers
<1> QED
  BY <1>1, <1>4, <1>6, CollectSought DEF F, c, Like

PeopleSoftFold == INSTANCE FoldInduction WITH Op <- PeopleSoftOffer

\* PeopleSoft leaves out what the portal calls superseded.
LEMMA PeopleSoftOffers ==
  ASSUME NEW links, IsSequence(links)
  PROVE  ShownOpenly(PeopleSoftCandidates(links), links) /\ Sought(PeopleSoftCandidates(links), links)
<1> DEFINE n == Len(links)
           Name(link) == IF link.id # None THEN link.id ELSE link.url.path
           Made(link) == Candidate(link, Name(link), PeopleSoftAccess(link),
                                   PeopleSoftAccess(link) = "public", link.round)
           c == [i \in 1..n |-> Made(links[i])]
           C == {c[i] : i \in 1..n}
           Skips == {i \in 1..n : "superseded" \in links[i].words}
           Like == {x \in C \X (1..n) : x[1].id = Name(links[x[2]]) /\ x[1].url = links[x[2]].url}
           F == PeopleSoftCandidates(links)
<1>1. n \in Nat /\ DOMAIN links = 1..n
  BY SequenceLength
<1>2. F = PeopleSoftFold!Folded(<<>>, links)
  BY DEF PeopleSoftCandidates, PeopleSoftFold!Folded, FoldLeft, MapThenFoldSet, PeopleSoftFold!MapThenFoldSet, Max, PeopleSoftFold!Max
<1>3. \A i \in 1..n : c[i] = Made(links[i]) /\ c[i] \in C
  OBVIOUS
<1>4. ASSUME NEW s \in Seq(C), NEW i \in 1..n
      PROVE  PeopleSoftFold!OffersStep(s, PeopleSoftOffer(s, links[i]), i, c, Skips, Like)
  <2>1. PeopleSoftOffer(s, links[i]) =
          IF \/ "superseded" \in links[i].words
             \/ \E k \in DOMAIN s : s[k].id = Name(links[i]) /\ s[k].url = links[i].url
          THEN s ELSE Append(s, c[i])
    BY <1>3, Zenon DEF PeopleSoftOffer
  <2>2. DOMAIN s = 1..Len(s) /\ \A k \in 1..Len(s) : s[k] \in C
    OBVIOUS
  <2>3. \A x \in C : <<x, i>> \in Like <=> x.id = Name(links[i]) /\ x.url = links[i].url
    OBVIOUS
  <2>4. (\E k \in DOMAIN s : s[k].id = Name(links[i]) /\ s[k].url = links[i].url)
           <=> \E k \in 1..Len(s) : <<s[k], i>> \in Like
    <3> HIDE DEF C, Like, Name
    <3> QED
      BY <2>2, <2>3, Zenon
  <2>5. i \in Skips <=> "superseded" \in links[i].words
    OBVIOUS
  <2> HIDE DEF C, Like, c, Name, Skips
  <2> QED
    BY <2>1, <2>4, <2>5, Zenon DEF PeopleSoftFold!OffersStep
<1>5. PeopleSoftFold!Offers(PeopleSoftFold!Folded(<<>>, links), n, c, Skips, Like)
  <2> HIDE DEF c, Skips, Like, n
  <2> QED
    BY <1>1, <1>4, PeopleSoftFold!FoldOffers
<1>6. Offers(F, n, c, Skips, Like)
  <2> HIDE DEF c, Skips, Like, F, n
  <2> QED
    BY <1>2, <1>5 DEF Offers, PeopleSoftFold!Offers
<1>7. ASSUME NEW i \in 1..n
      PROVE  /\ c[i].id = Name(links[i]) /\ c[i].url = links[i].url /\ c[i].round = links[i].round
             /\ c[i].access = PeopleSoftAccess(links[i])
             /\ c[i].public = (PeopleSoftAccess(links[i]) = "public")
  BY DEF Candidate
<1>8. \A i \in (1..n) \ Skips : c[i].access = "public" => ~Gated(links[i]) /\ c[i].url = links[i].url
  <2> HIDE DEF c
  <2> QED
    BY <1>7 DEF Gated, PeopleSoftAccess
<1>9. \A i \in 1..n : Wanted(links[i]) => i \notin Skips /\ Gives(links[i], c[i])
  <2> SUFFICES ASSUME NEW i \in 1..n, Wanted(links[i]) PROVE i \notin Skips /\ Gives(links[i], c[i])
    OBVIOUS
  <2>1. /\ links[i].words \cap {"login", "register", "restricted", "superseded"} = {}
        /\ links[i].id # None
    BY DEF Wanted
  <2>2. PeopleSoftAccess(links[i]) = "public" /\ i \notin Skips
    BY <2>1 DEF PeopleSoftAccess
  <2> HIDE DEF c, Skips, n
  <2>3. c[i].public = TRUE
    BY <1>7, <2>2, Zenon
  <2>4. /\ c[i].id = links[i].id /\ c[i].url = links[i].url /\ c[i].round = links[i].round
        /\ c[i].access = "public"
    BY <1>7, <2>1, <2>2
  <2> QED
    BY <2>2, <2>3, <2>4 DEF Gives
<1>10. \A i, j \in 1..n : Wanted(links[i]) /\ j \notin Skips =>
         /\ DuplicateKey(c[j]) = DuplicateKey(links[i]) => Rivals(links[i], links[j])
         /\ <<c[j], i>> \in Like => Rivals(links[i], links[j])
  <2> SUFFICES ASSUME NEW i \in 1..n, NEW j \in 1..n, Wanted(links[i]), j \notin Skips
               PROVE  /\ DuplicateKey(c[j]) = DuplicateKey(links[i]) => Rivals(links[i], links[j])
                      /\ <<c[j], i>> \in Like => Rivals(links[i], links[j])
    OBVIOUS
  <2>1. links[i].id # None
    BY DEF Wanted
  <2>2. <<c[j], i>> \in Like => c[j].url = links[i].url
    <3> HIDE DEF c, Name
    <3> QED
      OBVIOUS
  <2> HIDE DEF c, Like
  <2> QED
    BY <1>7, <2>1, <2>2 DEF DuplicateKey, Rivals
<1> HIDE DEF n, c, Skips, Like, F
<1> QED
  BY <1>1, <1>6, <1>8, <1>9, <1>10, OffersOpenly, OffersSought DEF F

\* The candidates of classes that offer what they find as public.
PublicMade(links, n) ==
  [i \in 1..n |-> Candidate(links[i], links[i].id, "public", TRUE, links[i].round)]

LEMMA PublicSought ==
  ASSUME NEW links, NEW n \in Nat, DOMAIN links = 1..n, NEW F, NEW Skips,
         Offers(F, n, PublicMade(links, n), Skips, {}), \A i \in Skips : ~Wanted(links[i])
  PROVE  Sought(F, links)
<1> DEFINE c == PublicMade(links, n)
<1>1. ASSUME NEW i \in 1..n
      PROVE  /\ c[i].id = links[i].id /\ c[i].url = links[i].url /\ c[i].round = links[i].round
             /\ c[i].access = "public" /\ c[i].public = TRUE
  BY DEF PublicMade, Candidate
<1>2. Offers(F, n, c, Skips, {})
  OBVIOUS
<1> HIDE DEF c
<1>3. ASSUME NEW i \in 1..n, Wanted(links[i]) PROVE i \notin Skips /\ Gives(links[i], c[i])
  <2>1. Gives(links[i], c[i])
    BY <1>1, Zenon DEF Gives
  <2> QED
    BY <1>3, <2>1
<1>4. ASSUME NEW i \in 1..n, NEW j \in 1..n
      PROVE  /\ DuplicateKey(c[j]) = DuplicateKey(links[i]) => Rivals(links[i], links[j])
             /\ <<c[j], i>> \in {} => Rivals(links[i], links[j])
  <2>1. c[j].id = links[j].id /\ c[j].round = links[j].round
    BY <1>1
  <2> QED
    BY <2>1 DEF DuplicateKey, Rivals
<1> QED
  BY <1>2, <1>3, <1>4, OffersSought

OracleFold == INSTANCE FoldInduction WITH Op <- OracleOffer

\* The fold of Oracle.
LEMMA OracleFolded ==
  ASSUME NEW links, NEW n \in Nat, DOMAIN links = 1..n
  PROVE  LET F == FoldLeft(OracleOffer, <<>>, links)
             Skips == {i \in 1..n : links[i].id = None \/ links[i].words \cap {"login", "register"} # {}}
             c == PublicMade(links, n)
         IN Offers(F, n, c, Skips, {})
<1> DEFINE F == FoldLeft(OracleOffer, <<>>, links)
           Skips == {i \in 1..n : links[i].id = None \/ links[i].words \cap {"login", "register"} # {}}
           c == PublicMade(links, n)
           Like == {}
<1>1. F = OracleFold!Folded(<<>>, links)
  BY DEF OracleFold!Folded, FoldLeft, MapThenFoldSet, OracleFold!MapThenFoldSet, Max, OracleFold!Max
<1>2. ASSUME NEW s \in Seq({c[i] : i \in 1..n}), NEW i \in 1..n
      PROVE  OracleFold!OffersStep(s, OracleOffer(s, links[i]), i, c, Skips, Like)
  <2>1. c[i] = Candidate(links[i], links[i].id, "public", TRUE, links[i].round)
    BY DEF PublicMade
  <2>2. i \in Skips <=> (links[i].id = None \/ links[i].words \cap {"login", "register"} # Like)
    OBVIOUS
  <2> HIDE DEF c, Skips
  <2> QED
    BY <2>1, <2>2, Zenon DEF OracleOffer, OracleFold!OffersStep
<1> HIDE DEF c, Skips, Like
<1>3. OracleFold!Offers(OracleFold!Folded(<<>>, links), n, c, Skips, Like)
  BY <1>2, OracleFold!FoldOffers, Zenon
<1> HIDE DEF F
<1>4. Offers(F, n, c, Skips, Like)
  BY <1>1, <1>3 DEF Offers, OracleFold!Offers
<1> QED
  BY <1>4 DEF F, c, Skips, Like

LEMMA FirstOnes ==
  ASSUME NEW S, NEW s \in Seq(S), NEW n \in Nat, n <= Len(s)
  PROVE  /\ DOMAIN SubSeq(s, 1, n) = 1..n /\ 1..n \subseteq DOMAIN s
         /\ \A i \in 1..n : SubSeq(s, 1, n)[i] = s[i]
<1>1. DOMAIN s = 1..Len(s) /\ Len(s) \in Nat
  OBVIOUS
<1>2. \A i \in 1..n : i \in 1..Len(s)
  BY <1>1
<1> QED
  BY <1>1, <1>2

\* The first page of attachments, and on it not what asks for an account.
LEMMA OracleOffers ==
  ASSUME NEW links, IsSequence(links)
  PROVE  /\ ShownOpenly(OracleCandidates(links), links)
         /\ Len(links) <= PageSize => Sought(OracleCandidates(links), links)
<1> DEFINE n == Lesser(PageSize, Len(links))
           page == SubSeq(links, 1, n)
           Skips == {i \in 1..n : page[i].id = None \/ page[i].words \cap {"login", "register"} # {}}
           F == OracleCandidates(links)
<1>1. Len(links) \in Nat /\ DOMAIN links = 1..Len(links)
  BY SequenceLength
<1>2. n \in Nat /\ n <= Len(links) /\ (Len(links) <= PageSize => n = Len(links))
  BY <1>1, ConnectorBounds DEF Lesser
<1> HIDE DEF n
<1>3. /\ DOMAIN page = 1..n /\ 1..n \subseteq DOMAIN links
      /\ \A i \in 1..n : page[i] = links[i]
  <2>1. links \in Seq(ToSet(links))
    BY DEF IsSequence
  <2> QED
    BY <1>2, <2>1, FirstOnes
<1>4. F = FoldLeft(OracleOffer, <<>>, page)
  BY DEF OracleCandidates, n
<1> HIDE DEF page, F
<1>5. Offers(F, n, PublicMade(page, n), Skips, {})
  BY <1>2, <1>3, <1>4, OracleFolded
<1>6. ShownOpenly(F, page)
  <2> DEFINE c == PublicMade(page, n)
  <2>1. \A i \in 1..n : c[i].url = page[i].url
    BY DEF PublicMade, Candidate
  <2>2. Offers(F, n, c, Skips, {})
    BY <1>5
  <2> HIDE DEF c
  <2>3. \A i \in (1..n) \ Skips : ~Gated(page[i])
    BY DEF Gated
  <2> QED
    BY <1>2, <1>3, <2>1, <2>2, <2>3, OffersOpenly
<1>7. ShownOpenly(F, links)
  <2> SUFFICES ASSUME NEW k \in DOMAIN F, F[k].access = "public"
               PROVE  \E i \in Open(links) : F[k].url = links[i].url
    BY <1>6 DEF ShownOpenly
  <2>1. PICK i \in Open(page) : F[k].url = page[i].url
    BY <1>6 DEF ShownOpenly
  <2>2. i \in 1..n /\ ~Gated(page[i])
    BY <1>3, <2>1 DEF Open
  <2>3. i \in DOMAIN links /\ links[i] = page[i]
    BY <1>3, <2>2
  <2> QED
    BY <2>1, <2>2, <2>3 DEF Open
<1>8. ASSUME Len(links) <= PageSize PROVE Sought(F, links)
  <2>1. page = links
    <3>1. page = [i \in 1..n |-> page[i]] /\ links = [i \in 1..n |-> links[i]]
      BY <1>1, <1>2, <1>3, <1>8 DEF page, IsSequence
    <3> QED
      BY <1>3, <3>1
  <2>2. \A i \in Skips : ~Wanted(links[i])
    BY <2>1 DEF Wanted
  <2>3. DOMAIN links = 1..n /\ Offers(F, n, PublicMade(links, n), Skips, {})
    BY <1>3, <1>5, <2>1
  <2> QED
    BY <1>2, <2>2, <2>3, PublicSought
<1> QED
  BY <1>7, <1>8 DEF F

TylerFold == INSTANCE FoldInduction WITH Op <- TylerOffer

\* Tyler offers everything, when every link is one of its own.
LEMMA TylerOffers ==
  ASSUME NEW links, IsSequence(links),
         \A i \in DOMAIN links : TylerSafe(links[i].url) /\ links[i].direct
  PROVE  Sought(TylerCandidates(links), links)
<1> DEFINE n == Len(links)
           F == TylerCandidates(links)
           c == PublicMade(links, n)
<1>1. n \in Nat /\ DOMAIN links = 1..n
  BY SequenceLength
<1>2. F = FoldLeft(TylerOffer, <<>>, links)
  BY DEF TylerCandidates
<1>3. F = TylerFold!Folded(<<>>, links)
  BY <1>2 DEF TylerFold!Folded, FoldLeft, MapThenFoldSet, TylerFold!MapThenFoldSet, Max, TylerFold!Max
<1>4. ASSUME NEW s \in Seq({c[i] : i \in 1..n}), NEW i \in 1..n
      PROVE  TylerFold!OffersStep(s, TylerOffer(s, links[i]), i, c, {}, {})
  <2>1. c[i] = Candidate(links[i], links[i].id, "public", TRUE, links[i].round)
    BY DEF PublicMade
  <2> HIDE DEF c
  <2> QED
    BY <2>1, Zenon DEF TylerOffer, TylerFold!OffersStep
<1> HIDE DEF c, n
<1>5. TylerFold!Offers(TylerFold!Folded(<<>>, links), n, c, {}, {})
  BY <1>1, <1>4, TylerFold!FoldOffers
<1> HIDE DEF F
<1>6. Offers(F, n, c, {}, {})
  BY <1>3, <1>5 DEF Offers, TylerFold!Offers
<1> QED
  BY <1>1, <1>6, PublicSought DEF c, F

RivipFold == INSTANCE FoldInduction WITH Op <- RivipOffer

\* RIVIP calls public only what the page does.
LEMMA RivipOffers ==
  ASSUME NEW links, IsSequence(links)
  PROVE  ShownOpenly(RivipCandidates(links), links)
<1> DEFINE n == Len(links)
           Eligibly(link) == link.url.host \in {"portal", "approved"} /\ link.access = "public" /\ link.direct
           Made(link) == Candidate(link, None, IF Eligibly(link) THEN "public" ELSE "external",
                                   Eligibly(link), link.round)
           c == [i \in 1..n |-> Made(links[i])]
           C == {c[i] : i \in 1..n}
           Like == {x \in C \X (1..n) : x[1].url = links[x[2]].url}
           F == RivipCandidates(links)
<1>1. n \in Nat /\ DOMAIN links = 1..n
  BY SequenceLength
<1>2. F = RivipFold!Folded(<<>>, links)
  BY DEF RivipCandidates, RivipFold!Folded, FoldLeft, MapThenFoldSet, RivipFold!MapThenFoldSet, Max, RivipFold!Max
<1>3. \A i \in 1..n : c[i] = Made(links[i]) /\ c[i] \in C
  OBVIOUS
<1>4. ASSUME NEW s \in Seq(C), NEW i \in 1..n
      PROVE  RivipFold!OffersStep(s, RivipOffer(s, links[i]), i, c, {}, Like)
  <2>1. RivipOffer(s, links[i]) =
          IF \E k \in DOMAIN s : s[k].url = links[i].url THEN s ELSE Append(s, c[i])
    BY <1>3, Zenon DEF RivipOffer
  <2>2. DOMAIN s = 1..Len(s) /\ \A k \in 1..Len(s) : s[k] \in C
    OBVIOUS
  <2>3. \A x \in C : <<x, i>> \in Like <=> x.url = links[i].url
    OBVIOUS
  <2>4. (\E k \in DOMAIN s : s[k].url = links[i].url) <=> \E k \in 1..Len(s) : <<s[k], i>> \in Like
    <3> HIDE DEF C, Like
    <3> QED
      BY <2>2, <2>3, Zenon
  <2> HIDE DEF C, Like, c
  <2> QED
    BY <2>1, <2>4, Zenon DEF RivipFold!OffersStep
<1>5. ASSUME NEW i \in 1..n
      PROVE  c[i].access = "public" => ~Gated(links[i]) /\ c[i].url = links[i].url
  <2>1. c[i].url = links[i].url /\ c[i].access = IF Eligibly(links[i]) THEN "public" ELSE "external"
    BY DEF Candidate
  <2> HIDE DEF c
  <2> QED
    BY <2>1 DEF Gated
<1> HIDE DEF c, Like, n
<1>6. RivipFold!Offers(RivipFold!Folded(<<>>, links), n, c, {}, Like)
  BY <1>1, <1>4, RivipFold!FoldOffers
<1> HIDE DEF F
<1>7. Offers(F, n, c, {}, Like)
  BY <1>2, <1>6 DEF Offers, RivipFold!Offers
<1>8. ShownOpenly(F, links)
  BY <1>1, <1>5, <1>7, OffersOpenly
<1> QED
  BY <1>8 DEF F

LEMMA EmptyOf ==
  ASSUME NEW C
  PROVE  <<>> \in Seq(C)
OBVIOUS

OpenGovFold == INSTANCE FoldInduction WITH Op <- OpenGovOffer

LEMMA WithoutOf ==
  ASSUME NEW C, NEW s \in Seq(C), NEW ids
  PROVE  Without(s, ids) \in Seq(C)
<1> DEFINE n == Len(s)
           parts == [k \in DOMAIN s |-> IF s[k].id \in ids THEN <<>> ELSE <<s[k]>>]
<1>1. n \in Nat /\ DOMAIN s = 1..n
  OBVIOUS
<1>2. \A k \in 1..n : s[k] \in C
  OBVIOUS
<1>3. /\ DOMAIN parts = 1..n /\ parts = [k \in 1..n |-> parts[k]]
      /\ \A k \in 1..n : parts[k] = IF s[k].id \in ids THEN <<>> ELSE <<s[k]>>
  BY <1>1
<1>4. Without(s, ids) = OpenGovFold!FlattenSeq(parts)
  BY DEF Without, FlattenSeq, OpenGovFold!FlattenSeq
<1> HIDE DEF n, parts
<1>5. ASSUME NEW k \in 1..n PROVE parts[k] \in Seq(C)
  <2>1. <<s[k]>> \in Seq(C)
    BY <1>2
  <2>2. parts[k] = <<>> \/ parts[k] = <<s[k]>>
    BY <1>3
  <2>3. <<>> \in Seq(C)
    BY EmptyOf
  <2> QED
    BY <2>1, <2>2, <2>3, Zenon
<1>6. parts \in [1..n -> Seq(C)]
  BY <1>3, <1>5
<1>7. /\ OpenGovFold!FlattenSeq(parts) \in Seq(C)
      /\ OpenGovFold!ToSet(OpenGovFold!FlattenSeq(parts)) =
           UNION {OpenGovFold!ToSet(parts[i]) : i \in 1..n}
  BY <1>1, <1>6, OpenGovFold!FlattenElements
<1> QED
  BY <1>4, <1>7

LEMMA OpenGovOne ==
  ASSUME NEW C, NEW s \in Seq(C), NEW link,
         Candidate(link, link.id, "login_required", FALSE, link.round) \in C
  PROVE  OpenGovOffer(s, link) \in Seq(C)
<1>1. Without(s, {link.id}) \in Seq(C)
  BY WithoutOf
<1> DEFINE w == Without(s, {link.id})
           x == Candidate(link, link.id, "login_required", FALSE, link.round)
<1>2. OpenGovOffer(s, link) = s \/ OpenGovOffer(s, link) = Append(w, x)
  BY DEF OpenGovOffer
<1>3. w \in Seq(C) /\ x \in C
  BY <1>1
<1> HIDE DEF w, x
<1> QED
  BY <1>2, <1>3

\* OpenGov leads all of its documents through the login of the portal.
LEMMA OpenGovOffers ==
  ASSUME NEW links, IsSequence(links)
  PROVE  ShownOpenly(OpenGovCandidates(links), links)
<1> DEFINE n == Len(links)
           F == OpenGovCandidates(links)
           C == {Candidate(links[i], links[i].id, "login_required", FALSE, links[i].round) : i \in 1..n}
<1>1. n \in Nat /\ DOMAIN links = 1..n
  BY SequenceLength
<1>2. F = OpenGovFold!Folded(<<>>, links)
  BY DEF OpenGovCandidates, OpenGovFold!Folded, FoldLeft, MapThenFoldSet, OpenGovFold!MapThenFoldSet, Max, OpenGovFold!Max
<1> HIDE DEF n, F
<1>3. PICK h : OpenGovFold!Stepped(h, <<>>, links, n)
  BY <1>1, OpenGovFold!FoldStepped
<1>4. /\ h[0] = <<>>
      /\ \A i \in 1..n : h[i] = OpenGovOffer(h[i - 1], links[i])
      /\ F = h[n]
  BY <1>2, <1>3 DEF OpenGovFold!Stepped
<1> DEFINE T == {k \in 0..n : h[k] \in Seq(C)}
<1>6. 0 \in T
  <2>1. h[0] \in Seq(C)
    BY <1>4, EmptyOf
  <2> QED
    BY <1>1, <2>1
<1>7. ASSUME NEW i \in 1..n, i - 1 \in T PROVE i \in T
  <2>1. h[i - 1] \in Seq(C) /\ h[i] = OpenGovOffer(h[i - 1], links[i])
    BY <1>4, <1>7
  <2>2. Candidate(links[i], links[i].id, "login_required", FALSE, links[i].round) \in C
    BY Zenon
  <2> HIDE DEF C
  <2>3. h[i] \in Seq(C)
    BY <2>1, <2>2, OpenGovOne
  <2> QED
    BY <2>3
<1> HIDE DEF T
<1>8. n \in T
  BY <1>1, <1>6, <1>7, OpenGovFold!Induction
<1>9. F \in Seq(C)
  BY <1>4, <1>8 DEF T
<1>10. \A x \in C : x.access = "login_required"
  BY DEF Candidate
<1> HIDE DEF C
<1>11. \A k \in DOMAIN F : F[k].access = "login_required"
  BY <1>9, <1>10
<1>12. F \in Seq(ToSet(F))
  BY <1>9 DEF ToSet
<1> QED
  BY <1>11, <1>12 DEF F, ShownOpenly, IsSequence

-----------------------------------------------------------------------------
(* What is offered, taken into the manifest and asked for.                  *)

\* Whatever the class, what is offered as public is shown openly.
LEMMA CandidatesOpenly ==
  ASSUME NEW links, IsSequence(links),
         NEW family \in DocumentFamilies \ {"tyler", "pennsylvania", "texas"}
  PROVE  ShownOpenly(CandidatesOf(family, links), links)
<1>1. CASE family \in PayloadOnly
  <2>1. CandidatesOf(family, links) = <<>>
    BY <1>1 DEF CandidatesOf
  <2>2. IsSequence(<<>>) /\ DOMAIN <<>> = {}
    BY DEF IsSequence, ToSet
  <2> QED
    BY <2>1, <2>2 DEF ShownOpenly
<1>2. CASE family = "eva"
  <2>1. CandidatesOf(family, links) = EvaCandidates(links)
    BY <1>2 DEF CandidatesOf, OffersOf, PayloadOnly
  <2> QED
    BY <2>1, EvaOffers
<1>3. CASE family = "peoplesoft"
  <2>1. CandidatesOf(family, links) = PeopleSoftCandidates(links)
    BY <1>3 DEF CandidatesOf, OffersOf, PayloadOnly
  <2> QED
    BY <2>1, PeopleSoftOffers
<1>4. CASE family = "oracle"
  <2>1. CandidatesOf(family, links) = OracleCandidates(links)
    BY <1>4 DEF CandidatesOf, OffersOf, PayloadOnly
  <2> QED
    BY <2>1, OracleOffers
<1>5. CASE family = "bonfire"
  <2>1. CandidatesOf(family, links) = BonfireCandidates(links)
    BY <1>5 DEF CandidatesOf, OffersOf, PayloadOnly
  <2> QED
    BY <2>1, BonfireOffers
<1>6. CASE family = "ionwave"
  <2>1. CandidatesOf(family, links) = IonWaveCandidates(links)
    BY <1>6 DEF CandidatesOf, OffersOf, PayloadOnly
  <2> QED
    BY <2>1, IonWaveOffers
<1>7. CASE family = "bidnet"
  <2>1. CandidatesOf(family, links) = BidNetCandidates(links)
    BY <1>7 DEF CandidatesOf, OffersOf, PayloadOnly
  <2> QED
    BY <2>1, BidNetOffers
<1>8. CASE family = "public_purchase"
  <2>1. CandidatesOf(family, links) = PublicPurchaseCandidates(links)
    BY <1>8 DEF CandidatesOf, OffersOf, PayloadOnly
  <2> QED
    BY <2>1, PublicPurchaseOffers
<1>9. CASE family = "planetbids"
  <2>1. CandidatesOf(family, links) = PlanetBidsCandidates(links)
    BY <1>9 DEF CandidatesOf, OffersOf, PayloadOnly
  <2> QED
    BY <2>1, PlanetBidsOffers
<1>10. CASE family = "maryland"
  <2>1. CandidatesOf(family, links) = MarylandCandidates(links)
    BY <1>10 DEF CandidatesOf, OffersOf, PayloadOnly
  <2> QED
    BY <2>1, MarylandOffers
<1>11. CASE family = "georgia"
  <2>1. CandidatesOf(family, links) = GeorgiaCandidates(links)
    BY <1>11 DEF CandidatesOf, OffersOf, PayloadOnly
  <2> QED
    BY <2>1, GeorgiaOffers
<1>12. CASE family = "demandstar"
  <2>1. CandidatesOf(family, links) = DemandStarCandidates(links)
    BY <1>12 DEF CandidatesOf, OffersOf, PayloadOnly
  <2> QED
    BY <2>1, DemandStarOffers
<1>13. CASE family = "rivip"
  <2>1. CandidatesOf(family, links) = RivipCandidates(links)
    BY <1>13 DEF CandidatesOf, OffersOf, PayloadOnly
  <2> QED
    BY <2>1, RivipOffers
<1>14. CASE family = "opengov"
  <2>1. CandidatesOf(family, links) = OpenGovCandidates(links)
    BY <1>14 DEF CandidatesOf, OffersOf, PayloadOnly
  <2> QED
    BY <2>1, OpenGovOffers
<1>15. CASE family = "ionwave_live"
  <2>1. CandidatesOf(family, links) =
          IonWaveCandidates([i \in DOMAIN links |-> IonWaveLive(links[i], DetailPage)])
    BY <1>15 DEF CandidatesOf, OffersOf, PayloadOnly
  <2> QED
    BY <2>1, IonWaveLiveOffers
<1> QED
  BY <1>1, <1>2, <1>3, <1>4, <1>5, <1>6, <1>7, <1>8, <1>9, <1>10, <1>11, <1>12, <1>13, <1>14, <1>15
     DEF DocumentFamilies, PayloadOnly

\* Whatever the class, but for those OfferedKept exempts, a wanted link is sought.
Exempt(family, links) ==
  \/ family \in PayloadOnly \cup {"opengov", "rivip", "pennsylvania", "ionwave_live"}
  \/ family = "oracle" /\ Len(links) > PageSize
  \/ family = "tyler" /\ \E i \in DOMAIN links : ~(TylerSafe(links[i].url) /\ links[i].direct)

LEMMA CandidatesSought ==
  ASSUME NEW links, IsSequence(links), NEW family \in DocumentFamilies, ~Exempt(family, links)
  PROVE  Sought(CandidatesOf(family, links), links)
<1>1. CASE family = "eva"
  <2>1. CandidatesOf(family, links) = EvaCandidates(links)
    BY <1>1 DEF CandidatesOf, OffersOf, PayloadOnly
  <2> QED
    BY <2>1, EvaOffers
<1>2. CASE family = "peoplesoft"
  <2>1. CandidatesOf(family, links) = PeopleSoftCandidates(links)
    BY <1>2 DEF CandidatesOf, OffersOf, PayloadOnly
  <2> QED
    BY <2>1, PeopleSoftOffers
<1>3. CASE family = "oracle"
  <2>1. CandidatesOf(family, links) = OracleCandidates(links)
    BY <1>3 DEF CandidatesOf, OffersOf, PayloadOnly
  <2>2. Len(links) <= PageSize
    BY <1>3, SequenceLength, ConnectorBounds DEF Exempt
  <2> QED
    BY <2>1, <2>2, OracleOffers
<1>4. CASE family = "bonfire"
  <2>1. CandidatesOf(family, links) = BonfireCandidates(links)
    BY <1>4 DEF CandidatesOf, OffersOf, PayloadOnly
  <2> QED
    BY <2>1, BonfireOffers
<1>5. CASE family = "ionwave"
  <2>1. CandidatesOf(family, links) = IonWaveCandidates(links)
    BY <1>5 DEF CandidatesOf, OffersOf, PayloadOnly
  <2> QED
    BY <2>1, IonWaveOffers
<1>6. CASE family = "bidnet"
  <2>1. CandidatesOf(family, links) = BidNetCandidates(links)
    BY <1>6 DEF CandidatesOf, OffersOf, PayloadOnly
  <2> QED
    BY <2>1, BidNetOffers
<1>7. CASE family = "public_purchase"
  <2>1. CandidatesOf(family, links) = PublicPurchaseCandidates(links)
    BY <1>7 DEF CandidatesOf, OffersOf, PayloadOnly
  <2> QED
    BY <2>1, PublicPurchaseOffers
<1>8. CASE family = "planetbids"
  <2>1. CandidatesOf(family, links) = PlanetBidsCandidates(links)
    BY <1>8 DEF CandidatesOf, OffersOf, PayloadOnly
  <2> QED
    BY <2>1, PlanetBidsOffers
<1>9. CASE family = "maryland"
  <2>1. CandidatesOf(family, links) = MarylandCandidates(links)
    BY <1>9 DEF CandidatesOf, OffersOf, PayloadOnly
  <2> QED
    BY <2>1, MarylandOffers
<1>10. CASE family = "georgia"
  <2>1. CandidatesOf(family, links) = GeorgiaCandidates(links)
    BY <1>10 DEF CandidatesOf, OffersOf, PayloadOnly
  <2> QED
    BY <2>1, GeorgiaOffers
<1>11. CASE family = "demandstar"
  <2>1. CandidatesOf(family, links) = DemandStarCandidates(links)
    BY <1>11 DEF CandidatesOf, OffersOf, PayloadOnly
  <2> QED
    BY <2>1, DemandStarOffers
<1>12. CASE family = "texas"
  <2>1. CandidatesOf(family, links) = TexasCandidates(links)
    BY <1>12 DEF CandidatesOf, OffersOf, PayloadOnly
  <2> QED
    BY <2>1, TexasOffers
<1>13. CASE family = "tyler"
  <2>1. CandidatesOf(family, links) = TylerCandidates(links)
    BY <1>13 DEF CandidatesOf, OffersOf, PayloadOnly
  <2>2. \A i \in DOMAIN links : TylerSafe(links[i].url) /\ links[i].direct
    BY <1>13 DEF Exempt
  <2> QED
    BY <2>1, <2>2, TylerOffers
<1>14. family \notin PayloadOnly \cup {"opengov", "rivip", "pennsylvania", "ionwave_live"}
  BY DEF Exempt
<1> QED
  BY <1>1, <1>2, <1>3, <1>4, <1>5, <1>6, <1>7, <1>8, <1>9, <1>10, <1>11, <1>12, <1>13, <1>14
     DEF DocumentFamilies, PayloadOnly

LEMMA LesserOfTwo ==
  ASSUME NEW a \in Nat, NEW b \in Nat
  PROVE  Lesser(a, b) \in Nat /\ Lesser(a, b) <= b /\ (b <= a => Lesser(a, b) = b)
BY DEF Lesser

TakeFold == INSTANCE FoldInduction WITH Op <- Take

\* ingest takes some of the candidates, and when there is room for all, one for
\* each key.
LEMMA TakesCandidates ==
  ASSUME NEW F, IsSequence(F)
  PROVE  /\ IsSequence(Ingested(F))
         /\ \A k \in DOMAIN Ingested(F) : \E j \in DOMAIN F : Ingested(F)[k] = F[j]
         /\ Len(F) <= MaxDocuments => \A j \in DOMAIN F : \E k \in DOMAIN Ingested(F) :
              Ingested(F)[k] = F[j] \/ DuplicateKey(Ingested(F)[k]) = DuplicateKey(F[j])
<1> DEFINE n == Lesser(MaxDocuments, Len(F))
           window == SubSeq(F, 1, n)
           C == {window[i] : i \in 1..n}
           Skips == {}
           Like == {x \in C \X (1..n) : DuplicateKey(x[1]) = DuplicateKey(window[x[2]])}
           R == Ingested(F)
<1>1. Len(F) \in Nat /\ DOMAIN F = 1..Len(F)
  BY SequenceLength
<1>2. n \in Nat /\ n <= Len(F) /\ (Len(F) <= MaxDocuments => n = Len(F))
  BY <1>1, DocumentsBounded, LesserOfTwo
<1>3. /\ DOMAIN window = 1..n /\ 1..n \subseteq DOMAIN F
      /\ \A i \in 1..n : window[i] = F[i]
  <2> HIDE DEF n
  <2>1. F \in Seq(ToSet(F))
    BY DEF IsSequence
  <2> QED
    BY <1>2, <2>1, FirstOnes
<1>4. R = TakeFold!Folded(<<>>, window)
  BY DEF Ingested, TakeFold!Folded, FoldLeft, MapThenFoldSet, TakeFold!MapThenFoldSet, Max, TakeFold!Max
<1> HIDE DEF n, window, R
<1>5. ASSUME NEW s \in Seq(C), NEW i \in 1..n
      PROVE  TakeFold!OffersStep(s, Take(s, window[i]), i, window, Skips, Like)
  <2>1. DOMAIN s = 1..Len(s) /\ \A k \in 1..Len(s) : s[k] \in C
    OBVIOUS
  <2>2. \A x \in C : <<x, i>> \in Like <=> DuplicateKey(x) = DuplicateKey(window[i])
    OBVIOUS
  <2>3. (\E k \in DOMAIN s : DuplicateKey(s[k]) = DuplicateKey(window[i]))
           <=> \E k \in 1..Len(s) : <<s[k], i>> \in Like
    <3> HIDE DEF C, Like
    <3> QED
      BY <2>1, <2>2, Zenon
  <2> HIDE DEF C, Like
  <2> QED
    BY <2>3, Zenon DEF Take, TakeFold!OffersStep
<1>6. \A k \in 1..n, i \in 1..n :
        <<window[k], i>> \in Like => DuplicateKey(window[k]) = DuplicateKey(window[i])
  OBVIOUS
<1> HIDE DEF Skips, Like
<1>7. TakeFold!Offers(TakeFold!Folded(<<>>, window), n, window, Skips, Like)
  BY <1>2, <1>3, <1>5, TakeFold!FoldOffers
<1>8. Offers(R, n, window, Skips, Like)
  BY <1>4, <1>7 DEF Offers, TakeFold!Offers
<1>9. IsSequence(R) /\ DOMAIN R = 1..Len(R)
  BY <1>2, <1>8, OffersSequence
<1>10. ASSUME NEW k \in DOMAIN R PROVE \E j \in 1..n : R[k] = window[j]
  BY <1>8, <1>9 DEF Offers
<1>11. ASSUME NEW k \in DOMAIN R PROVE \E j \in DOMAIN F : R[k] = F[j]
  <2>1. PICK j \in 1..n : R[k] = window[j]
    BY <1>10
  <2> QED
    BY <1>3, <2>1
<1>12. ASSUME Len(F) <= MaxDocuments, NEW j \in DOMAIN F
       PROVE  \E k \in DOMAIN R : R[k] = F[j] \/ DuplicateKey(R[k]) = DuplicateKey(F[j])
  <2>1. j \in 1..n /\ window[j] = F[j]
    BY <1>1, <1>2, <1>3, <1>12
  <2>2. PICK k \in 1..Len(R) : R[k] = window[j] \/ <<R[k], j>> \in Like
    BY <1>8, <2>1 DEF Offers, Skips
  <2>3. k \in DOMAIN R
    BY <1>9, <2>2
  <2>4. PICK i \in 1..n : R[k] = window[i]
    BY <1>10, <2>3
  <2>5. R[k] = window[j] \/ DuplicateKey(R[k]) = DuplicateKey(window[j])
    BY <1>6, <2>1, <2>2, <2>4
  <2> QED
    BY <2>1, <2>3, <2>5
<1> QED
  BY <1>9, <1>11, <1>12 DEF R

\* A document to retrieve is shown openly.
LEMMA EligibleOpenly ==
  ASSUME NEW links, IsSequence(links),
         NEW family \in DocumentFamilies \ {"tyler", "pennsylvania", "texas"},
         NEW document \in Eligible(family, links)
  PROVE  \E i \in Open(links) : document.url = links[i].url
<1> DEFINE F == CandidatesOf(family, links)
           R == Ingested(F)
<1>1. ShownOpenly(F, links)
  BY CandidatesOpenly
<1>2. PICK k \in DOMAIN R : document = R[k] /\ Retrievable(R[k])
  BY DEF Eligible
<1> HIDE DEF F
<1>3. PICK j \in DOMAIN F : R[k] = F[j]
  BY <1>1, <1>2, TakesCandidates DEF ShownOpenly
<1> HIDE DEF R
<1> QED
  BY <1>1, <1>2, <1>3 DEF ShownOpenly, Retrievable

\* A wanted link without a rival, where the class is not exempt and there is room
\* for all, is among the documents to retrieve.
LEMMA WantedEligible ==
  ASSUME NEW links, IsSequence(links), NEW family \in DocumentFamilies, ~Exempt(family, links),
         Len(links) <= MaxDocuments, NEW i \in DOMAIN links, Wanted(links[i]), Alone(links, links[i])
  PROVE  \E document \in Eligible(family, links) : document.url = links[i].url
<1> DEFINE F == CandidatesOf(family, links)
           R == Ingested(F)
           link == links[i]
           shown == {j \in DOMAIN links : links[j].url = link.url}
           least == CHOOSE j \in shown : \A k \in shown : j <= k
<1>1. Sought(F, links)
  BY CandidatesSought
<1>2. IsSequence(F) /\ Len(F) <= MaxDocuments
  <2>1. IsSequence(F) /\ DOMAIN F \subseteq DOMAIN links
    BY <1>1 DEF Sought
  <2> HIDE DEF F
  <2>2. Len(F) \in Nat /\ DOMAIN F = 1..Len(F) /\ Len(links) \in Nat /\ DOMAIN links = 1..Len(links)
    BY <2>1, SequenceLength
  <2>3. Len(F) <= Len(links)
    <3>1. Len(F) # 0 => Len(F) \in 1..Len(links)
      BY <2>1, <2>2
    <3> QED
      BY <2>2, <3>1
  <2> QED
    BY <2>1, <2>2, <2>3, DocumentsBounded
<1>3. /\ \E k \in DOMAIN F : Gives(link, F[k])
      /\ \A k \in DOMAIN F : DuplicateKey(F[k]) = DuplicateKey(link) => Gives(link, F[k])
  BY <1>1 DEF Sought
<1> HIDE DEF F
<1>4. PICK j \in DOMAIN F : Gives(link, F[j])
  BY <1>3
<1>5. PICK k \in DOMAIN R : R[k] = F[j] \/ DuplicateKey(R[k]) = DuplicateKey(F[j])
  BY <1>2, TakesCandidates
<1>6. PICK m \in DOMAIN F : R[k] = F[m]
  BY <1>2, TakesCandidates
<1>7. DuplicateKey(F[j]) = DuplicateKey(link)
  BY <1>4 DEF Gives, DuplicateKey
<1>8. Gives(link, R[k])
  BY <1>3, <1>4, <1>5, <1>6, <1>7
<1>9. Wanted(link)
  OBVIOUS
<1>10. links[least] = link
  <2>1. i \in shown /\ shown \in SUBSET Nat
    BY SequenceLength
  <2>2. \A l \in shown : links[l] = link
    BY DEF Alone, Rivals
  <2> HIDE DEF shown
  <2>3. \E l \in shown : \A n \in shown : l <= n
    BY <2>1, TakeFold!LeastNumber
  <2>4. least \in shown
    BY <2>3
  <2> QED
    BY <2>2, <2>4
<1>11. Canonicalizable(link.url)
  BY <1>9, NoneIsNoHost DEF Wanted, Https, Canonicalizable
<1>12. Retrievable(R[k]) /\ Likely(R[k], links[least].text)
  <2>1. R[k].access = "public" /\ R[k].url = link.url /\ R[k].public = TRUE
    BY <1>8 DEF Gives
  <2>2. R[k].public
    BY <2>1, Zenon
  <2>3. links[least].text = "likely"
    BY <1>9, <1>10 DEF Wanted
  <2>4. Retrievable(R[k])
    BY <1>11, <2>1, <2>2, Zenon DEF Retrievable
  <2> QED
    BY <2>1, <2>3, <2>4 DEF Likely
<1>13. R[k].url = link.url
  BY <1>8 DEF Gives
<1>14. R[k] \in Eligible(family, links)
  <2> DEFINE Text(url) == LET seen == {l \in DOMAIN links : links[l].url = url}
                          IN links[CHOOSE l \in seen : \A n \in seen : l <= n].text
  <2>1. Text(R[k].url) = links[least].text
    BY <1>13, Zenon
  <2>2. Likely(R[k], Text(R[k].url))
    BY <1>12, <2>1, Zenon
  <2>3. Eligible(family, links) =
          {R[n] : n \in {n \in DOMAIN R : Retrievable(R[n]) /\ Likely(R[n], Text(R[n].url))}}
    BY Zenon DEF Eligible, F
  <2> HIDE DEF R, Text
  <2> QED
    BY <1>5, <1>12, <2>2, <2>3, Zenon
<1> QED
  BY <1>13, <1>14

\* A fetch begins with a document to retrieve, and only its beginning asks for one.
AskedEligible == asked \subseteq {document.url : document \in Documents}

LEMMA AskedEligibleNext == AskedEligible /\ [Next]_vars => AskedEligible'
<1> SUFFICES ASSUME AskedEligible, [Next]_vars PROVE AskedEligible'
  OBVIOUS
<1> DEFINE Asks(D) == /\ setting' = setting
                      /\ asked' = asked \/ \E document \in D : asked' = asked \cup {document.url}
<1>1. ASSUME NEW p \in Process, NEW document \in Documents, NEW html \in BOOLEAN,
             Start(p, document, html)
      PROVE  Asks(Documents)
  BY <1>1, Zenon DEF Start
<1>2. ASSUME NEW p \in Process, NEW reply \in setting.replies,
             Follow(p, reply) \/ Unmodified(p, reply) \/ Answer(p, reply)
      PROVE  Asks(Documents)
  BY <1>2, Zenon DEF Follow, Requested, Unmodified, Answer
<1>3. ASSUME NEW p \in Process, \/ Lose(p) \/ Break(p) \/ Crash(p) \/ Read(p) \/ Complete(p)
                               \/ LoseLease(p) \/ FailUnstored(p)
                               \/ StoreBegins(p) \/ StoreContinues(p) \/ StoreEnds(p)
      PROVE  Asks(Documents)
  BY <1>3, Zenon DEF Lose, Break, Crash, Read, Complete, LoseLease, FailUnstored,
                    StoreBegins, StoreContinues, StoreEnds
<1>4. ASSUME Decay \/ UNCHANGED vars PROVE Asks(Documents)
  BY <1>4, Zenon DEF Decay, vars
<1>5. Asks(Documents)
  <2> HIDE DEF Asks
  <2> QED
    BY <1>1, <1>2, <1>3, <1>4, Zenon DEF Next, Proceed
<1>6. Documents' = Documents
  BY <1>5 DEF Documents
<1> QED
  BY <1>5, <1>6 DEF AskedEligible

\* Whatever the page and the class that reads it, no url is requested that the
\* page shows nowhere but behind a login or a registration (GatedNeverAsked).
THEOREM OnlyOpenAsked == Spec => []GatedNeverAsked
<1>1. Init => AskedEligible
  BY DEF Init, AskedEligible
<1>2. RetrievalInv /\ AskedEligible => GatedNeverAsked
  <2> SUFFICES ASSUME RetrievalInv, AskedEligible,
                      setting.family \notin {"tyler", "pennsylvania", "texas"},
                      NEW i \in DOMAIN setting.links, setting.links[i].url \in asked
               PROVE  \E j \in Open(setting.links) : setting.links[j].url = setting.links[i].url
    BY DEF GatedNeverAsked
  <2>1. setting \in Settings
    BY DEF RetrievalInv, FetchInv, RetrievalType
  <2>2. IsSequence(setting.links) /\ setting.family \in DocumentFamilies \ {"tyler", "pennsylvania", "texas"}
    BY <2>1, PagesOfConnectors
  <2>3. PICK document \in Eligible(setting.family, setting.links) : document.url = setting.links[i].url
    BY DEF AskedEligible, Documents
  <2> QED
    BY <2>2, <2>3, EligibleOpenly
<1> QED
  BY <1>1, <1>2, AskedEligibleNext, RetrievalInvariant, PTL DEF Spec

\* Whatever the page and the class that reads it, but for the classes it names, a
\* public link to a file that names a solicitation document is among the
\* documents to retrieve (OfferedKept).
THEOREM WantedKept == Spec => []OfferedKept
<1>1. RetrievalInv => OfferedKept
  <2> SUFFICES ASSUME RetrievalInv, ~Exempt(setting.family, setting.links),
                      Len(setting.links) <= MaxDocuments, NEW i \in DOMAIN setting.links,
                      Wanted(setting.links[i]), Alone(setting.links, setting.links[i])
               PROVE  \E document \in Documents : document.url = setting.links[i].url
    BY Zenon DEF OfferedKept, Exempt, Alone
  <2>1. setting \in Settings
    BY DEF RetrievalInv, FetchInv, RetrievalType
  <2>2. IsSequence(setting.links) /\ setting.family \in DocumentFamilies
    BY <2>1, PagesOfConnectors
  <2> QED
    BY <2>2, WantedEligible DEF Documents
<1> QED
  BY <1>1, RetrievalInvariant, PTL
================================================================================
