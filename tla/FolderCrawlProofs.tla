--------------------------- MODULE FolderCrawlProofs ---------------------------
(***************************************************************************)
(* Proofs about FolderCrawl, for any tree of folders and projects and any  *)
(* number of changes: no project is read twice, and the crawl implements   *)
(* Census.                                                                 *)
(***************************************************************************)
EXTENDS FolderCrawl, SequenceTheorems, FiniteSetTheorems, TLAPS

Url == Folder \cup Job

--------------------------------------------------------------------------------
(* Urls. *)

\* A url is a sequence of its names, and what is above it is one too.
LEMMA UrlShape ==
  ASSUME NEW u \in Url
  PROVE  /\ u \in Seq(Segment)
         /\ Len(u) \in Nat
         /\ u = [i \in 1..Len(u) |-> u[i]]
         /\ u \in Job => Len(u) > 0
<1>1. u \in Seq(Segment)
  BY CrawlUrls DEF Url
<1>2. u \in Job => Len(u) > 0
  BY <1>1, CrawlUrls, EmptySeq DEF Root
<1>3. QED
  BY <1>1, <1>2

\* The names above the names above.
LEMMA UpUp ==
  ASSUME NEW u, NEW m \in Nat, NEW n \in 0..m
  PROVE  Up(Up(u, m), n) = Up(u, n)
BY DEF Up

LEMMA UpLen ==
  ASSUME NEW u \in Url, NEW n \in 0..Len(u)
  PROVE  /\ Up(u, n) \in Seq(Segment)
         /\ Len(Up(u, n)) = n
<1>1. u \in Seq(Segment) /\ Len(u) \in Nat
  BY UrlShape
<1>2. Up(u, n) \in [1..n -> Segment]
  BY <1>1 DEF Up
<1>3. QED
  BY <1>2

LEMMA UpWhole ==
  ASSUME NEW u \in Url
  PROVE  Up(u, Len(u)) = u
BY UrlShape DEF Up

\* Everything is below itself.
LEMMA BelowSelf ==
  ASSUME NEW u \in Url
  PROVE  Below(u, u)
BY UrlShape, UpWhole DEF Below

LEMMA BelowTrans ==
  ASSUME NEW a \in Url, NEW b \in Url, NEW c \in Url, Below(a, b), Below(b, c)
  PROVE  Below(a, c)
<1>1. /\ Len(c) <= Len(b) /\ Len(b) <= Len(a)
      /\ Len(a) \in Nat /\ Len(b) \in Nat /\ Len(c) \in Nat
      /\ Up(a, Len(b)) = b /\ Up(b, Len(c)) = c
  BY UrlShape DEF Below
<1>2. Up(Up(a, Len(b)), Len(c)) = Up(a, Len(c))
  BY <1>1, UpUp
<1>3. Up(a, Len(c)) = c
  BY <1>1, <1>2
<1>4. Len(c) <= Len(a)
  BY <1>1
<1>5. QED
  BY <1>3, <1>4 DEF Below

\* A child is below its folder, and a level deeper.
LEMMA ChildIsBelow ==
  ASSUME NEW c \in Url, NEW h \in Url, c # Root, Parent(c) = h
  PROVE  Below(c, h) /\ Len(c) = Len(h) + 1
<1>1. Len(c) \in Nat /\ Len(c) > 0
  BY UrlShape, EmptySeq DEF Root
<1>2. Up(c, Len(c) - 1) = h
  BY DEF Parent
<1>3. Len(h) = Len(c) - 1
  BY <1>1, <1>2, UpLen
<1>4. QED
  BY <1>1, <1>2, <1>3 DEF Below

\* What is above a child is the child or above its folder.
LEMMA AboveChild ==
  ASSUME NEW c \in Url, NEW h \in Url, NEW q \in Url,
         c # Root, Parent(c) = h, Below(c, q)
  PROVE  q = c \/ Below(h, q)
<1>1. /\ Len(c) = Len(h) + 1 /\ Up(c, Len(h)) = h
      /\ Len(c) \in Nat /\ Len(h) \in Nat /\ Len(q) \in Nat
  BY ChildIsBelow, UrlShape DEF Below
<1>2. Len(q) <= Len(c) /\ Up(c, Len(q)) = q
  BY DEF Below
<1>3. CASE Len(q) = Len(c)
  BY <1>2, <1>3, UpWhole
<1>4. CASE Len(q) # Len(c)
  <2>1. Len(q) <= Len(h)
    BY <1>1, <1>2, <1>4
  <2>2. Up(h, Len(q)) = q
    BY <1>1, <1>2, <2>1, UpUp
  <2>3. QED
    BY <2>1, <2>2 DEF Below
<1>5. QED
  BY <1>3, <1>4

--------------------------------------------------------------------------------
(* The invariant. *)

QueueRange == {queue[i] : i \in DOMAIN queue}

\* Folders that wait are not above one another, nor above a project that has
\* been listed, so nothing is reached a second time.
Apart ==
  /\ \A i, k \in DOMAIN queue : Below(queue[i], queue[k]) => i = k
  /\ \A i \in DOMAIN queue : \A j \in found \cup unread : ~Below(j, queue[i])
  /\ unread \cap found = {}

\* A project that has been there all the time has been listed, or a folder above
\* it waits; none has been listed that was never there.
Reached ==
  /\ must \subseteq jobs /\ jobs \subseteq may
  /\ found \cup unread \subseteq may
  /\ crawling => \A j \in must \ (found \cup unread) :
                   \E n \in 0..(Len(j) - 1) : Up(j, n) \in QueueRange

IInv == /\ TypeOK
        /\ Rooted(folders, jobs)
        /\ Apart
        /\ Reached

LEMMA InitInv == Init => IInv
<1> SUFFICES ASSUME Init PROVE IInv
  OBVIOUS
<1>1. TypeOK
  <2>1. queue \in Seq(Folder)
    BY EmptySeq DEF Init
  <2>2. changes \in 0..MaxChanges
    BY CrawlUrls DEF Init
  <2>3. QED
    BY <2>1, <2>2 DEF Init, TypeOK
<1>2. Apart
  BY DEF Init, Apart
<1>3. Reached
  BY DEF Init, Reached
<1>4. QED
  BY <1>1, <1>2, <1>3 DEF Init, IInv

\* Jenkins keeps the folders above everything it has.
LEMMA CreateRooted ==
  ASSUME IInv, NEW k \in Url \ {Root}, Parent(k) \in folders,
         NEW n \in 0..(Len(k) - 1)
  PROVE  Up(k, n) \in folders
<1> DEFINE h == Parent(k)
<1>1. h \in Url
  BY DEF IInv, TypeOK, Url
<1>2. /\ Len(k) = Len(h) + 1 /\ Up(k, Len(h)) = h
      /\ Len(k) \in Nat /\ Len(h) \in Nat
  BY <1>1, ChildIsBelow, UrlShape DEF Below
<1>3. CASE n = Len(h)
  BY <1>2, <1>3
<1>4. CASE n # Len(h)
  <2>1. n \in 0..(Len(h) - 1)
    BY <1>2, <1>4
  <2>2. Up(h, n) \in folders
    BY <2>1 DEF IInv, Rooted
  <2>3. Up(h, n) = Up(k, n)
    BY <1>2, <2>1, UpUp
  <2>4. QED
    BY <2>2, <2>3
<1>5. QED
  BY <1>3, <1>4

LEMMA JenkinsRooted ==
  ASSUME IInv, JenkinsStep
  PROVE  Rooted(folders, jobs)'
<1>1. /\ folders \subseteq Url /\ jobs \subseteq Url
      /\ folders \subseteq Folder /\ jobs \subseteq Job
  BY DEF IInv, TypeOK, Url
<1>2. SUFFICES ASSUME NEW u \in folders' \cup jobs', NEW n \in 0..(Len(u) - 1)
               PROVE  Up(u, n) \in folders'
  BY DEF Rooted
<1>3. CASE \E v \in Url : Create(v)
  <2>1. PICK v \in Url : Create(v)
    BY <1>3
  <2>2. folders \subseteq folders'
    BY <2>1 DEF Create
  <2>3. CASE u \in folders \cup jobs
    BY <2>2, <2>3 DEF IInv, Rooted
  <2>4. CASE u \notin folders \cup jobs
    <3>1. u = v /\ Parent(u) \in folders
      BY <2>1, <2>4 DEF Create
    <3>2. u # Root
      <4>1. u \in Url /\ Len(Root) = 0
        BY <2>1, <3>1 DEF Root
      <4>2. n \in 0..(Len(u) - 1) /\ Len(u) \in Nat
        BY <4>1, UrlShape
      <4>3. QED
        BY <4>1, <4>2
    <3>3. QED
      BY <2>1, <2>2, <3>1, <3>2, CreateRooted
  <2>5. QED
    BY <2>3, <2>4
<1>4. CASE \E v \in Url : Delete(v)
  <2>1. PICK v \in Url : Delete(v)
    BY <1>4
  <2>2. u \in Url /\ u \in folders \cup jobs /\ ~Below(u, v)
    BY <1>1, <2>1 DEF Delete
  <2>3. Up(u, n) \in folders
    BY <2>2 DEF IInv, Rooted
  <2>4. Below(u, Up(u, n))
    <3>1. n \in 0..Len(u) /\ Len(u) \in Nat
      BY <2>2, UrlShape
    <3>2. Len(Up(u, n)) = n
      BY <2>2, <3>1, UpLen
    <3>3. QED
      BY <3>1, <3>2 DEF Below
  <2>5. ~Below(Up(u, n), v)
    BY <1>1, <2>2, <2>3, <2>4, BelowTrans
  <2>6. QED
    BY <2>1, <2>3, <2>5 DEF Delete
<1>5. CASE \E j, k \in Job : Move(j, k)
  <2>1. PICK j \in Job, k \in Job : Move(j, k)
    BY <1>5
  <2>2. folders' = folders
    BY <2>1 DEF Move
  <2>3. CASE u \in folders \cup jobs
    BY <2>2, <2>3 DEF IInv, Rooted
  <2>4. CASE u = k
    <3>1. k \in Url \ {Root}
      BY CrawlUrls DEF Url
    <3>2. Parent(k) \in folders
      BY <2>1 DEF Move
    <3>3. QED
      BY <2>2, <2>4, <3>1, <3>2, CreateRooted
  <2>5. QED
    BY <2>1, <2>3, <2>4 DEF Move
<1>6. QED
  BY <1>3, <1>4, <1>5 DEF JenkinsStep, Url

--------------------------------------------------------------------------------
(* The listing of a folder. *)

\* What the listing puts into the queue.
LEMMA Listed ==
  ASSUME IInv, ListFolder
  PROVE  LET h == Head(queue)
         IN  /\ h \in Folder /\ 1 \in DOMAIN queue /\ h = queue[1]
             /\ queue' \in Seq(Folder)
             /\ \A i \in DOMAIN queue : i # 1 => queue[i] \in QueueRange'
             /\ \A c \in Children(h, folders) : c \in QueueRange'
             /\ \A i \in DOMAIN queue' :
                  \/ queue'[i] \in Children(h, folders)
                  \/ \E k \in DOMAIN queue : k # 1 /\ queue'[i] = queue[k]
             /\ \A i, k \in DOMAIN queue' :
                  queue'[i] = queue'[k] =>
                    \/ i = k
                    \/ \E m, n \in DOMAIN queue : m # n /\ queue[m] = queue[n]
                    \/ \E c \in Children(h, folders) :
                         \E m \in DOMAIN queue : c = queue[m]
<1> DEFINE h == Head(queue)
           C == Children(h, folders)
<1>1. queue \in Seq(Folder) /\ queue # <<>> /\ folders \subseteq Folder
  BY DEF IInv, TypeOK, ListFolder
<1>2. PICK s \in Orders(C) : queue' = Tail(queue) \o s
  BY DEF ListFolder
<1>3. C \subseteq Folder
  BY <1>1 DEF Children
<1>4. PICK l \in Nat : s \in [1..l -> C]
  <2>1. IsFiniteSet(C)
    BY <1>3, CrawlUrls, FS_Subset
  <2>2. Cardinality(C) \in Nat
    BY <2>1, FS_CardinalityType
  <2>3. QED
    BY <1>2, <2>2 DEF Orders
<1>5. /\ s \in Seq(Folder) /\ Len(s) = l /\ DOMAIN s = 1..l
      /\ \A i \in 1..l : s[i] \in C
  BY <1>3, <1>4
<1>6. /\ \A x \in C : \E i \in 1..l : s[i] = x
      /\ \A i, k \in 1..l : s[i] = s[k] => i = k
  BY <1>2, <1>5 DEF Orders
<1> DEFINE t == Tail(queue)
<1>7. /\ t \in Seq(Folder) /\ Len(t) = Len(queue) - 1 /\ Len(queue) \in Nat \ {0}
      /\ \A i \in 1..Len(t) : t[i] = queue[i + 1]
      /\ DOMAIN queue = 1..Len(queue) /\ h = queue[1] /\ h \in Folder
  BY <1>1
<1>8. /\ queue' \in Seq(Folder)
      /\ Len(queue') = Len(t) + l
      /\ DOMAIN queue' = 1..(Len(t) + l)
      /\ \A i \in 1..Len(t) : queue'[i] = t[i]
      /\ \A i \in 1..l : queue'[Len(t) + i] = s[i]
  BY <1>2, <1>5, <1>7
<1> HIDE DEF h, C, t
<1>9. ASSUME NEW i \in DOMAIN queue, i # 1
      PROVE  queue[i] \in QueueRange'
  <2>1. i - 1 \in 1..Len(t)
    BY <1>7, <1>9
  <2>2. queue'[i - 1] = queue[i]
    BY <1>7, <1>8, <2>1
  <2>3. QED
    BY <1>7, <1>8, <2>1, <2>2 DEF QueueRange
<1>10. ASSUME NEW c \in C
       PROVE  c \in QueueRange'
  <2>1. PICK i \in 1..l : s[i] = c
    BY <1>6
  <2>2. queue'[Len(t) + i] = c /\ Len(t) + i \in DOMAIN queue'
    BY <1>7, <1>8, <2>1
  <2>3. QED
    BY <2>2 DEF QueueRange
<1>11. ASSUME NEW i \in DOMAIN queue'
       PROVE  \/ i \in 1..Len(t) /\ i + 1 \in DOMAIN queue /\ queue'[i] = queue[i + 1]
              \/ i - Len(t) \in 1..l /\ queue'[i] = s[i - Len(t)]
  <2>1. CASE i \in 1..Len(t)
    BY <1>7, <1>8, <2>1
  <2>2. CASE i \notin 1..Len(t)
    <3>1. i - Len(t) \in 1..l /\ i = Len(t) + (i - Len(t))
      BY <1>7, <1>8, <2>2
    <3>2. QED
      BY <1>8, <3>1
  <2>3. QED
    BY <2>1, <2>2
<1>12. ASSUME NEW i \in DOMAIN queue'
       PROVE  \/ queue'[i] \in C
              \/ \E k \in DOMAIN queue : k # 1 /\ queue'[i] = queue[k]
  <2>1. CASE i \in 1..Len(t) /\ i + 1 \in DOMAIN queue /\ queue'[i] = queue[i + 1]
    BY <1>7, <2>1
  <2>2. CASE i - Len(t) \in 1..l /\ queue'[i] = s[i - Len(t)]
    BY <1>5, <2>2
  <2>3. QED
    BY <1>11, <2>1, <2>2
<1>13. ASSUME NEW i \in DOMAIN queue', NEW k \in DOMAIN queue',
              queue'[i] = queue'[k], i # k
       PROVE  \/ \E m, n \in DOMAIN queue : m # n /\ queue[m] = queue[n]
              \/ \E c \in C : \E m \in DOMAIN queue : c = queue[m]
  <2>1. CASE i \in 1..Len(t) /\ k \in 1..Len(t)
    <3>1. /\ i + 1 \in DOMAIN queue /\ k + 1 \in DOMAIN queue /\ i + 1 # k + 1
          /\ queue[i + 1] = queue[k + 1]
      BY <1>7, <1>8, <1>13, <2>1
    <3>2. QED
      BY <3>1
  <2>2. CASE i \notin 1..Len(t) /\ k \notin 1..Len(t)
    <3>1. /\ i - Len(t) \in 1..l /\ k - Len(t) \in 1..l
          /\ s[i - Len(t)] = s[k - Len(t)]
      BY <1>11, <1>13, <2>2
    <3>2. i - Len(t) = k - Len(t)
      BY <1>6, <3>1
    <3>3. QED
      BY <1>7, <1>8, <1>13, <3>2
  <2>3. CASE i \in 1..Len(t) /\ k \notin 1..Len(t)
    <3>1. i + 1 \in DOMAIN queue /\ queue'[i] = queue[i + 1]
      BY <1>7, <1>8, <2>3
    <3>2. queue'[k] \in C
      BY <1>5, <1>11, <2>3
    <3>3. QED
      BY <1>13, <3>1, <3>2
  <2>4. CASE i \notin 1..Len(t) /\ k \in 1..Len(t)
    <3>1. k + 1 \in DOMAIN queue /\ queue'[k] = queue[k + 1]
      BY <1>7, <1>8, <2>4
    <3>2. queue'[i] \in C
      BY <1>5, <1>11, <2>4
    <3>3. QED
      BY <1>13, <3>1, <3>2
  <2>5. QED
    BY <2>1, <2>2, <2>3, <2>4
<1>14. QED
  BY <1>7, <1>8, <1>9, <1>10, <1>12, <1>13 DEF h, C

--------------------------------------------------------------------------------
(* Each step keeps each part of the invariant. *)

LEMMA StepType ==
  ASSUME IInv, Next
  PROVE  TypeOK'
<1> USE DEF IInv, TypeOK
<1>1. CASE JenkinsStep
  <2>1. changes' \in 0..MaxChanges
    BY <1>1, CrawlUrls DEF JenkinsStep, Change
  <2>2. folders' \in SUBSET Folder /\ jobs' \in SUBSET Job
    BY <1>1 DEF JenkinsStep, Create, Delete, Move
  <2>3. QED
    BY <1>1, <2>1, <2>2 DEF JenkinsStep, crawlVars
<1>2. CASE BeginCrawl
  BY <1>2, CrawlUrls DEF BeginCrawl, jenkinsVars
<1>3. CASE ListFolder
  <2>1. queue' \in Seq(Folder)
    BY <1>3, Listed
  <2>2. unread' \in SUBSET Job
    BY <1>3 DEF ListFolder, Children
  <2>3. QED
    BY <1>3, <2>1, <2>2 DEF ListFolder, jenkinsVars
<1>4. CASE \E j \in Job : ReadProject(j)
  BY <1>4 DEF ReadProject, jenkinsVars
<1>5. CASE FolderIsGone \/ ReplaceProjects
  BY <1>5, EmptySeq DEF FolderIsGone, ReplaceProjects, Abandon, jenkinsVars
<1>6. CASE FailCrawl
  <2>1. changes' \in 0..MaxChanges
    BY <1>6, CrawlUrls DEF FailCrawl, Change
  <2>2. QED
    BY <1>6, <2>1, EmptySeq DEF FailCrawl, Abandon, jenkinsVars
<1>7. QED
  BY <1>1, <1>2, <1>3, <1>4, <1>5, <1>6 DEF Next, CrawlStep

LEMMA StepRooted ==
  ASSUME IInv, Next
  PROVE  Rooted(folders, jobs)'
<1>1. CASE UNCHANGED jenkinsVars
  BY <1>1 DEF jenkinsVars, IInv, Rooted
<1>2. QED
  BY <1>1, JenkinsRooted
     DEF Next, CrawlStep, BeginCrawl, ListFolder, ReadProject, FolderIsGone,
         ReplaceProjects, FailCrawl

\* A listed folder takes the place of its children, and its projects are below
\* no other folder that waits.
LEMMA ListApart ==
  ASSUME IInv, ListFolder
  PROVE  Apart'
<1> DEFINE h == Head(queue)
           C == Children(h, folders)
<1>1. /\ h \in Url /\ 1 \in DOMAIN queue /\ h = queue[1]
      /\ unread = {} /\ unread' = Children(h, jobs) /\ found' = found
      /\ \A i \in DOMAIN queue : queue[i] \in Url
  BY Listed DEF IInv, TypeOK, ListFolder, Url
<1>2. /\ C \subseteq Url /\ C \subseteq Folder
      /\ \A c \in C : c # Root /\ Parent(c) = h
  BY DEF IInv, TypeOK, Children, Url
<1>3. /\ unread' \subseteq Url /\ unread' \subseteq Job /\ found \subseteq Url
      /\ \A j \in unread' : j # Root /\ Parent(j) = h
  BY <1>1 DEF IInv, TypeOK, Children, Url
<1>4. /\ \A i \in DOMAIN queue : i # 1 => ~Below(h, queue[i]) /\ ~Below(queue[i], h)
      /\ \A i, k \in DOMAIN queue : queue[i] = queue[k] => i = k
      /\ \A j \in found : \A i \in DOMAIN queue : ~Below(j, queue[i])
  BY <1>1, BelowSelf DEF IInv, Apart
<1>5. \A i \in DOMAIN queue' :
        \/ queue'[i] \in C
        \/ \E k \in DOMAIN queue : k # 1 /\ queue'[i] = queue[k]
  BY Listed
<1>6. ASSUME NEW c \in C, NEW k \in DOMAIN queue
      PROVE  c # queue[k] /\ (k # 1 => ~Below(c, queue[k]) /\ ~Below(queue[k], c))
  <2>1. Below(c, h)
    BY <1>1, <1>2, ChildIsBelow
  <2>2. c # queue[k]
    <3>1. CASE k = 1
      <4>1. Len(c) = Len(h) + 1 /\ Len(h) \in Nat
        BY <1>1, <1>2, ChildIsBelow, UrlShape
      <4>2. QED
        BY <1>1, <3>1, <4>1
    <3>2. CASE k # 1
      BY <1>4, <2>1, <3>2
    <3>3. QED
      BY <3>1, <3>2
  <2>3. ASSUME k # 1, Below(c, queue[k])
        PROVE  FALSE
    BY <1>1, <1>2, <1>4, <2>2, <2>3, AboveChild
  <2>4. ASSUME k # 1, Below(queue[k], c)
        PROVE  FALSE
    BY <1>1, <1>2, <1>4, <2>1, <2>4, BelowTrans
  <2>5. QED
    BY <2>2, <2>3, <2>4
<1>7. ASSUME NEW c \in C \cup unread', NEW d \in C, Below(c, d)
      PROVE  c = d
  <2>1. /\ Len(c) = Len(h) + 1 /\ Len(d) = Len(h) + 1 /\ Len(h) \in Nat
        /\ c \in Url /\ d \in Url
    BY <1>1, <1>2, <1>3, ChildIsBelow, UrlShape
  <2>2. Up(c, Len(c)) = d
    BY <1>7, <2>1 DEF Below
  <2>3. QED
    BY <2>1, <2>2, UpWhole
<1>8. ASSUME NEW i \in DOMAIN queue', NEW k \in DOMAIN queue',
             Below(queue'[i], queue'[k])
      PROVE  i = k
  <2>1. queue'[i] = queue'[k]
    <3>1. CASE queue'[i] \in C /\ queue'[k] \in C
      BY <1>7, <1>8, <3>1
    <3>2. CASE queue'[i] \in C /\ queue'[k] \notin C
      BY <1>5, <1>6, <1>8, <3>2
    <3>3. CASE queue'[i] \notin C /\ queue'[k] \in C
      BY <1>5, <1>6, <1>8, <3>3
    <3>4. CASE queue'[i] \notin C /\ queue'[k] \notin C
      BY <1>5, <1>8, <3>4 DEF IInv, Apart
    <3>5. QED
      BY <3>1, <3>2, <3>3, <3>4
  <2>2. QED
    BY <1>4, <1>6, <2>1, Listed
<1>9. ASSUME NEW i \in DOMAIN queue', NEW j \in found' \cup unread'
      PROVE  ~Below(j, queue'[i])
  <2>1. CASE j \in found /\ queue'[i] \in C
    <3>1. ~Below(j, h) /\ j \in Url
      BY <1>1, <1>3, <1>4, <2>1
    <3>2. Below(queue'[i], h)
      BY <1>1, <1>2, <2>1, ChildIsBelow
    <3>3. QED
      BY <1>1, <1>2, <2>1, <3>1, <3>2, BelowTrans
  <2>2. CASE j \in found /\ queue'[i] \notin C
    BY <1>4, <1>5, <2>2
  <2>3. CASE j \in unread' /\ queue'[i] \in C
    BY <1>2, <1>3, <1>7, <2>3, CrawlUrls
  <2>4. CASE j \in unread' /\ queue'[i] \notin C
    <3>1. PICK k \in DOMAIN queue : k # 1 /\ queue'[i] = queue[k]
      BY <1>5, <2>4
    <3>2. queue[k] # j
      BY <1>3, <2>4, CrawlUrls DEF IInv, TypeOK
    <3>3. QED
      BY <1>1, <1>3, <1>4, <2>4, <3>1, <3>2, AboveChild
  <2>5. QED
    BY <1>1, <2>1, <2>2, <2>3, <2>4
<1>10. unread' \cap found' = {}
  BY <1>1, <1>3, <1>4, ChildIsBelow
<1>11. QED
  BY <1>8, <1>9, <1>10 DEF Apart

LEMMA StepApart ==
  ASSUME IInv, Next
  PROVE  Apart'
<1>1. CASE JenkinsStep
  BY <1>1 DEF JenkinsStep, crawlVars, IInv, Apart
<1>2. CASE BeginCrawl
  BY <1>2 DEF BeginCrawl, Apart
<1>3. CASE ListFolder
  BY <1>3, ListApart
<1>4. CASE \E j \in Job : ReadProject(j)
  BY <1>4 DEF ReadProject, IInv, Apart
<1>5. CASE FolderIsGone \/ ReplaceProjects \/ FailCrawl
  BY <1>5 DEF FolderIsGone, ReplaceProjects, FailCrawl, Abandon, Apart
<1>6. QED
  BY <1>1, <1>2, <1>3, <1>4, <1>5 DEF Next, CrawlStep

\* A project below a listed folder is listed with it, or its next folder waits.
LEMMA ListReached ==
  ASSUME IInv, ListFolder, NEW j \in must' \ (found' \cup unread')
  PROVE  \E n \in 0..(Len(j) - 1) : Up(j, n) \in QueueRange'
<1> DEFINE h == Head(queue)
<1>1. /\ h \in Folder /\ h = queue[1]
      /\ \A i \in DOMAIN queue : i # 1 => queue[i] \in QueueRange'
      /\ \A c \in Children(h, folders) : c \in QueueRange'
  BY Listed
<1>2. /\ crawling /\ unread = {} /\ unread' = Children(h, jobs)
      /\ must' = must /\ found' = found
  BY DEF ListFolder
<1>3. j \in jobs /\ j \in Url /\ j # Root /\ Len(j) \in Nat /\ Len(j) > 0
  <2>1. j \in jobs /\ j \in Job
    BY <1>2 DEF IInv, Reached, TypeOK
  <2>2. QED
    BY <2>1, CrawlUrls, UrlShape DEF Url
<1>4. PICK n \in 0..(Len(j) - 1) : Up(j, n) \in QueueRange
  BY <1>2 DEF IInv, Reached
<1>5. PICK i \in DOMAIN queue : Up(j, n) = queue[i]
  BY <1>4 DEF QueueRange
<1>6. CASE i # 1
  BY <1>1, <1>5, <1>6
<1>7. CASE i = 1
  <2>1. Up(j, n) = h
    BY <1>1, <1>5, <1>7
  <2>2. n + 1 # Len(j)
    <3> SUFFICES ASSUME n + 1 = Len(j) PROVE FALSE
      OBVIOUS
    <3>1. Parent(j) = h
      BY <1>3, <2>1 DEF Parent
    <3>2. QED
      BY <1>2, <1>3, <3>1 DEF Children
  <2>3. n + 1 \in 0..(Len(j) - 1) /\ n + 1 \in 0..Len(j) /\ n \in 0..(n + 1)
    BY <1>3, <2>2
  <2> DEFINE c == Up(j, n + 1)
  <2>4. c \in folders
    BY <1>3, <2>3 DEF IInv, Rooted
  <2>5. Len(c) = n + 1
    BY <1>3, <2>3, UpLen
  <2>6. c # Root
    BY <2>5 DEF Root
  <2>7. Up(c, n) = h
    BY <2>1, <2>3, UpUp
  <2>8. Parent(c) = h
    BY <2>5, <2>7 DEF Parent
  <2>9. c \in QueueRange'
    BY <1>1, <2>4, <2>6, <2>8 DEF Children
  <2>10. QED
    BY <2>3, <2>9
<1>8. QED
  BY <1>6, <1>7

LEMMA StepReached ==
  ASSUME IInv, Next
  PROVE  Reached'
<1>1. CASE JenkinsStep
  BY <1>1 DEF JenkinsStep, crawlVars, IInv, Reached, QueueRange
<1>2. CASE BeginCrawl
  <2>1. must' = jobs /\ may' = jobs /\ jobs' = jobs /\ found' = {} /\ unread' = {}
    BY <1>2 DEF BeginCrawl, jenkinsVars
  <2>2. ASSUME NEW j \in must'
        PROVE  \E n \in 0..(Len(j) - 1) : Up(j, n) \in QueueRange'
    <3>1. Len(j) \in Nat /\ Len(j) > 0
      BY <2>1, UrlShape DEF IInv, TypeOK, Url
    <3>2. Up(j, 0) = Root
      BY DEF Up, Root
    <3>3. Root \in QueueRange'
      <4>1. queue' = <<Root>>
        BY <1>2 DEF BeginCrawl
      <4>2. 1 \in DOMAIN queue' /\ queue'[1] = Root
        BY <4>1
      <4>3. QED
        BY <4>2 DEF QueueRange
    <3>4. QED
      BY <3>1, <3>2, <3>3
  <2>3. QED
    BY <2>1, <2>2 DEF Reached
<1>3. CASE ListFolder
  <2>1. /\ must' \subseteq jobs' /\ jobs' \subseteq may'
        /\ found' = found /\ may' = may /\ unread' \subseteq jobs
    BY <1>3 DEF ListFolder, jenkinsVars, Children, IInv, Reached
  <2>2. unread' \subseteq may'
    BY <2>1 DEF IInv, Reached
  <2>3. QED
    BY <1>3, <2>1, <2>2, ListReached DEF IInv, Reached
<1>4. CASE \E j \in Job : ReadProject(j)
  BY <1>4 DEF ReadProject, jenkinsVars, IInv, Reached, QueueRange
<1>5. CASE FolderIsGone \/ ReplaceProjects \/ FailCrawl
  BY <1>5 DEF FolderIsGone, ReplaceProjects, FailCrawl, Abandon, jenkinsVars,
              IInv, Reached
<1>6. QED
  BY <1>1, <1>2, <1>3, <1>4, <1>5 DEF Next, CrawlStep

\* The invariant holds in every state.
LEMMA IInvariant == Spec => []IInv
<1>1. Init => IInv
  BY InitInv
<1>2. IInv /\ [Next]_vars => IInv'
  <2> SUFFICES ASSUME IInv, [Next]_vars PROVE IInv'
    OBVIOUS
  <2>1. CASE Next
    BY <2>1, StepType, StepRooted, StepApart, StepReached DEF IInv
  <2>2. CASE UNCHANGED vars
    BY <2>2 DEF vars, jenkinsVars, crawlVars, IInv, TypeOK, Rooted, Apart,
                Reached, QueueRange
  <2>3. QED
    BY <2>1, <2>2
<1>3. QED
  BY <1>1, <1>2, PTL DEF Spec

--------------------------------------------------------------------------------
(* What follows. *)

\* Every variable keeps its type.
THEOREM TypeCorrect == Spec => []TypeOK
<1>1. IInv => TypeOK
  BY DEF IInv
<1>2. QED
  BY <1>1, IInvariant, PTL

\* No refresh reads a project twice, or crawls a folder twice.
THEOREM ProjectsReadOnce == Spec => []ReadsOnce
<1>1. IInv => ReadsOnce
  <2> SUFFICES ASSUME IInv PROVE ReadsOnce
    OBVIOUS
  <2>1. \A i \in DOMAIN queue : Below(queue[i], queue[i])
    BY BelowSelf DEF IInv, TypeOK, Url
  <2>2. QED
    BY <2>1 DEF IInv, Apart, ReadsOnce
<1>2. QED
  BY <1>1, IInvariant, PTL

\* A crawl ends with a list that the promise allows.
LEMMA PublishMaps ==
  ASSUME IInv, ReplaceProjects
  PROVE  Promise!Publish
<1>1. QueueRange = {} /\ unread = {}
  BY DEF ReplaceProjects, QueueRange
<1>2. found \subseteq may /\ must \subseteq found
  BY <1>1 DEF ReplaceProjects, IInv, Reached
<1>3. QED
  BY <1>2 DEF ReplaceProjects, Abandon, jenkinsVars, Promise!Publish

\* Every step is one of the promise, or changes nothing of it.
LEMMA StepMaps ==
  ASSUME IInv, IInv', [Next]_vars
  PROVE  [Promise!CensusNext]_(Promise!censusVars)
<1> USE DEF Promise!CensusNext
<1>1. CASE JenkinsStep
  <2>1. jobs' \in SUBSET Job
    BY DEF IInv, TypeOK
  <2>2. Promise!Change
    BY <1>1, <2>1 DEF JenkinsStep, crawlVars, Promise!Change
  <2>3. QED
    BY <2>2
<1>2. CASE BeginCrawl
  <2>1. Promise!Begin
    BY <1>2 DEF BeginCrawl, jenkinsVars, Promise!Begin
  <2>2. QED
    BY <2>1
<1>3. CASE ListFolder \/ \E j \in Job : ReadProject(j)
  BY <1>3 DEF ListFolder, ReadProject, jenkinsVars, Promise!censusVars
<1>4. CASE FolderIsGone \/ FailCrawl
  <2>1. Promise!GiveUp
    BY <1>4 DEF FolderIsGone, FailCrawl, Abandon, jenkinsVars, Promise!GiveUp
  <2>2. QED
    BY <2>1
<1>5. CASE ReplaceProjects
  BY <1>5, PublishMaps
<1>6. CASE UNCHANGED vars
  BY <1>6 DEF vars, jenkinsVars, crawlVars, Promise!censusVars
<1>7. QED
  BY <1>1, <1>2, <1>3, <1>4, <1>5, <1>6 DEF Next, CrawlStep

\* The crawl implements the promise: whatever comes, goes and moves during a
\* refresh, its list has all that was there throughout and nothing that never was.
THEOREM CrawlIsACensus == Spec => CensusSpec
<1>1. Init => Promise!CensusInit
  BY InitInv DEF Init, IInv, TypeOK, Promise!CensusInit
<1>2. IInv /\ IInv' /\ [Next]_vars => [Promise!CensusNext]_(Promise!censusVars)
  BY StepMaps
<1>3. QED
  BY <1>1, <1>2, IInvariant, PTL DEF Spec, CensusSpec, Promise!CensusSpec
================================================================================
