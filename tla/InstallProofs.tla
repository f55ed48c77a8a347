--------------------------- MODULE InstallProofs ---------------------------
(***************************************************************************)
(* Theorems about SvInstall, for any repositories, remotes, branches and   *)
(* dependencies.                                                           *)
(***************************************************************************)
EXTENDS SvInstall, TLAPS

\* A clone knows no more of a branch than there is, and its own branches follow
\* what is there, under the name that LocalName gives them.
Sound(r, c, tips) ==
    /\ Here(c) # Nil
    /\ \A up \in Published[r] : c.track[up] <= tips[up]
    /\ \A b \in Locals : LET l == c.local[b]
                         IN  l # Nil /\ l.up # Nil =>
                                 /\ l.up \in Published[r]
                                 /\ l.up[1] \in c.remotes
                                 /\ l.n \in 1..c.track[l.up]
                                 /\ LocalName(l.up) = b
ClonesOK == \A r \in Repos : clone[r] # Nil => Sound(r, clone[r], tip[r])

\* A clone has the remote of up, and what was fetched of it.
Seen(r, c, up) == /\ up[1] \in c.remotes
                  /\ up \in Published[r] => c.track[up] >= 1

\* An invocation past the first steps has a clone, which has seen the branch it
\* is for, and only a branch with an upstream comes to a pull or to the
\* settings.
FrameOK(f, c) ==
    /\ f.pc # "clone" => c # Nil
    /\ f.pc \notin {"clone", "fetch"} => Seen(f.repo, c, f.up)
    /\ f.pc \in {"pull", "settings"} => Here(c).up # Nil
StackOK == \A i \in DOMAIN stack : /\ FrameOK(stack[i], clone[stack[i].repo])
                                   /\ i > 1 => stack[i].pc = "deps"

Types ==
    /\ tip \in [Repos -> [Upstreams -> Nat]]
    /\ clone \in [Repos -> Clones \cup {Nil}]
    /\ stack \in Seq(Frames)
    /\ partial \in BOOLEAN

InstallInv ==
    /\ Types
    /\ \A r \in Repos : \A up \in Published[r] : tip[r][up] >= 1
    /\ ClonesOK /\ StackOK
-----------------------------------------------------------------------------
\* The stack after a step of the innermost invocation, ...
LEMMA Replaced ==
    ASSUME NEW S, NEW s \in Seq(S), s # <<>>, NEW f \in S,
           NEW t, t = <<f>> \o Tail(s)
    PROVE  /\ t \in Seq(S) /\ t # <<>> /\ Len(t) = Len(s)
           /\ Head(t) = f /\ t[1] = f
           /\ \A i \in 2..Len(s) : t[i] = s[i]
<1>1. /\ Len(s) \in Nat /\ Len(s) >= 1
      /\ Tail(s) \in Seq(S) /\ Len(Tail(s)) = Len(s) - 1
      /\ \A i \in 1..Len(s) - 1 : Tail(s)[i] = s[i + 1]
  OBVIOUS
<1>2. <<f>> \in Seq(S) /\ Len(<<f>>) = 1
  OBVIOUS
<1>3. t \in Seq(S) /\ Len(t) = Len(s) /\ t[1] = f
  BY <1>1, <1>2
<1>4. ASSUME NEW i \in 2..Len(s) PROVE t[i] = s[i]
  <2>1. t[i] = Tail(s)[i - 1]
    BY <1>1, <1>2
  <2>2. i - 1 \in 1..Len(s) - 1 /\ (i - 1) + 1 = i
    BY <1>1
  <2>3. QED
    BY <1>1, <2>1, <2>2
<1>5. QED
  BY <1>1, <1>3, <1>4

\* ... after a call, ...
LEMMA Pushed ==
    ASSUME NEW S, NEW s \in Seq(S), s # <<>>, NEW f \in S, NEW g \in S,
           NEW t, t = <<g, f>> \o Tail(s)
    PROVE  /\ t \in Seq(S) /\ t # <<>> /\ Len(t) = Len(s) + 1
           /\ Head(t) = g /\ t[1] = g /\ t[2] = f
           /\ \A i \in 3..Len(s) + 1 : t[i] = s[i - 1]
<1>1. /\ Len(s) \in Nat /\ Len(s) >= 1
      /\ Tail(s) \in Seq(S) /\ Len(Tail(s)) = Len(s) - 1
      /\ \A i \in 1..Len(s) - 1 : Tail(s)[i] = s[i + 1]
  OBVIOUS
<1>2. <<g, f>> \in Seq(S) /\ Len(<<g, f>>) = 2
  OBVIOUS
<1>3. t \in Seq(S) /\ Len(t) = Len(s) + 1 /\ t[1] = g /\ t[2] = f
  BY <1>1, <1>2
<1>4. ASSUME NEW i \in 3..Len(s) + 1 PROVE t[i] = s[i - 1]
  <2>1. t[i] = Tail(s)[i - 2]
    BY <1>1, <1>2
  <2>2. i - 2 \in 1..Len(s) - 1 /\ (i - 2) + 1 = i - 1
    BY <1>1
  <2>3. QED
    BY <1>1, <2>1, <2>2
<1>5. QED
  BY <1>1, <1>3, <1>4

\* ... and after a return.
LEMMA Popped ==
    ASSUME NEW S, NEW s \in Seq(S), s # <<>>, NEW t, t = Tail(s)
    PROVE  /\ t \in Seq(S) /\ Len(t) = Len(s) - 1
           /\ \A i \in 1..Len(t) : t[i] = s[i + 1]
OBVIOUS

LEMMA Constants ==
    /\ \A up \in Upstreams : LocalName(up) \in Locals /\ up[1] \in Remotes
    /\ LET m == <<"origin", <<"master">> >>
       IN  /\ m \in Upstreams /\ LocalName(m) = <<"master">>
           /\ \A r \in Repos : m \in Published[r]
    /\ \A r \in Repos : Published[r] \subseteq Upstreams
    /\ \A r \in Repos, up \in Upstreams :
          /\ Deps[r, up] \in Seq(Dependencies)
          /\ r[1] # "app" => Deps[r, up] = <<>>
    /\ "origin" \in Remotes
    /\ Nil \notin Upstreams /\ Nil \notin Branch /\ Nil \notin Clones
    /\ Developed \subseteq Repos
    /\ Requests \subseteq [repo : Repos, up : Upstreams, deps : BOOLEAN]
<1>1. \A up \in Upstreams : LocalName(up) \in Locals /\ up[1] \in Remotes
  BY DEF Locals, Upstreams
<1>2. LET m == <<"origin", <<"master">> >>
      IN  m \in Upstreams /\ LocalName(m) = <<"master">>
  BY InstallAssumption DEF LocalName, Upstreams
<1>3. QED
  BY <1>1, <1>2, InstallAssumption

\* The innermost invocation, and what it is about.
LEMMA TopType ==
    ASSUME Types, stack # <<>>
    PROVE  /\ Top \in Frames /\ Top = stack[1]
           /\ Len(stack) \in Nat /\ Len(stack) >= 1 /\ DOMAIN stack = 1..Len(stack)
           /\ 1 \in DOMAIN stack
BY DEF Types, Top

LEMMA FrameType ==
    ASSUME NEW r \in Repos, NEW up \in Upstreams, NEW d \in BOOLEAN
    PROVE  /\ Frame(r, up, d) \in Frames /\ Frame(r, up, d).pc = "clone"
           /\ Frame(r, up, d).repo = r /\ Frame(r, up, d).up = up
           /\ Frame(r, up, d).deps = d /\ Frame(r, up, d).todo = <<>>
BY DEF Frame, Frames, Labels
-----------------------------------------------------------------------------
\* Clones do not go away and keep what they have seen.
Keeps(r, c, d) == \A up \in Upstreams : Seen(r, c, up) => Seen(r, d, up)
Grows == \A r \in Repos : clone[r] # Nil =>
             clone'[r] # Nil /\ Keeps(r, clone[r], clone'[r])

LEMMA SetClone ==
    ASSUME InstallInv, tip' = tip, NEW r \in Repos, NEW c \in Clones,
           Sound(r, c, tip[r]), clone' = [clone EXCEPT ![r] = c],
           clone[r] # Nil => Keeps(r, clone[r], c)
    PROVE  /\ clone' \in [Repos -> Clones \cup {Nil}]
           /\ clone'[r] = c /\ c # Nil
           /\ ClonesOK' /\ Grows
<1>1. clone \in [Repos -> Clones \cup {Nil}] /\ c # Nil
  BY Constants DEF InstallInv, Types
<1>2. clone' \in [Repos -> Clones \cup {Nil}] /\ clone'[r] = c
  BY <1>1
<1>3. \A q \in Repos \ {r} : clone'[q] = clone[q]
  BY <1>1
<1>4. ClonesOK'
  <2> SUFFICES ASSUME NEW q \in Repos, clone'[q] # Nil
               PROVE  Sound(q, clone'[q], tip[q])
    BY DEF ClonesOK
  <2>1. QED
    BY <1>2, <1>3 DEF InstallInv, ClonesOK
<1>5. Grows
  BY <1>1, <1>2, <1>3 DEF Grows, Keeps
<1>6. QED
  BY <1>1, <1>2, <1>4, <1>5

LEMMA SameClones ==
    ASSUME InstallInv, tip' = tip, clone' = clone
    PROVE  clone' \in [Repos -> Clones \cup {Nil}] /\ ClonesOK' /\ Grows
BY DEF InstallInv, Types, ClonesOK, Grows, Keeps

LEMMA InFrames ==
    ASSUME Types, NEW i \in DOMAIN stack
    PROVE  /\ stack[i] \in Frames
           /\ stack[i].repo \in Repos /\ stack[i].up \in Upstreams
           /\ stack[i].deps \in BOOLEAN /\ stack[i].pc \in Labels
           /\ stack[i].todo \in Seq(Dependencies)
<1>1. stack[i] \in Frames
  BY DEF Types
<1>2. QED
  BY <1>1 DEF Frames

LEMMA FrameStays ==
    ASSUME InstallInv, Grows, NEW i \in DOMAIN stack, stack[i].pc = "deps"
    PROVE  FrameOK(stack[i], clone'[stack[i].repo])
<1>1. stack[i].repo \in Repos /\ stack[i].up \in Upstreams
  BY InFrames DEF InstallInv
<1>2. FrameOK(stack[i], clone[stack[i].repo])
  BY DEF InstallInv, StackOK
<1>3. stack[i].pc \notin {"clone", "fetch"} => stack[i].pc # "clone"
  OBVIOUS
<1>4. QED
  BY <1>1, <1>2, <1>3 DEF Grows, Keeps, FrameOK

LEMMA Steps ==
    ASSUME InstallInv, Grows, stack # <<>>, NEW f \in Frames,
           FrameOK(f, clone'[f.repo]), stack' = <<f>> \o Tail(stack)
    PROVE  stack' \in Seq(Frames) /\ StackOK'
<1>1. stack \in Seq(Frames)
  BY DEF InstallInv, Types
<1>2. /\ stack' \in Seq(Frames) /\ Len(stack') = Len(stack) /\ stack'[1] = f
      /\ \A i \in 2..Len(stack) : stack'[i] = stack[i]
  BY <1>1, Replaced
<1>3. ASSUME NEW i \in DOMAIN stack'
      PROVE  /\ FrameOK(stack'[i], clone'[stack'[i].repo])
             /\ i > 1 => stack'[i].pc = "deps"
  <2>1. i \in Nat /\ i \in DOMAIN stack /\ (i = 1 \/ i \in 2..Len(stack))
    BY <1>1, <1>2
  <2>2. CASE i = 1
    BY <1>2, <2>2
  <2>3. CASE i \in 2..Len(stack)
    BY <1>2, <2>1, <2>3, FrameStays DEF InstallInv, StackOK
  <2>4. QED
    BY <2>1, <2>2, <2>3
<1>4. QED
  BY <1>2, <1>3 DEF StackOK

LEMMA Calls ==
    ASSUME InstallInv, Grows, stack # <<>>, NEW f \in Frames, NEW g \in Frames,
           FrameOK(f, clone'[f.repo]), f.pc = "deps", g.pc = "clone",
           stack' = <<g, f>> \o Tail(stack)
    PROVE  stack' \in Seq(Frames) /\ StackOK'
<1>1. stack \in Seq(Frames)
  BY DEF InstallInv, Types
<1>2. /\ stack' \in Seq(Frames) /\ Len(stack') = Len(stack) + 1
      /\ stack'[1] = g /\ stack'[2] = f
      /\ \A i \in 3..Len(stack) + 1 : stack'[i] = stack[i - 1]
  BY <1>1, Pushed
<1>3. ASSUME NEW i \in DOMAIN stack'
      PROVE  /\ FrameOK(stack'[i], clone'[stack'[i].repo])
             /\ i > 1 => stack'[i].pc = "deps"
  <2>1. CASE i = 1
    BY <1>2, <2>1 DEF FrameOK
  <2>2. CASE i = 2
    BY <1>2, <2>2
  <2>3. CASE i \in 3..Len(stack) + 1
    <3>1. i - 1 \in DOMAIN stack /\ i - 1 > 1
      BY <1>1, <2>3
    <3>2. QED
      BY <1>2, <2>3, <3>1, FrameStays DEF InstallInv, StackOK
  <2>4. QED
    BY <1>1, <1>2, <2>1, <2>2, <2>3
<1>4. QED
  BY <1>2, <1>3 DEF StackOK

LEMMA ReturnsTo ==
    ASSUME InstallInv, Grows, stack # <<>>, stack' = Tail(stack)
    PROVE  stack' \in Seq(Frames) /\ StackOK'
<1>1. stack \in Seq(Frames)
  BY DEF InstallInv, Types
<1>2. /\ stack' \in Seq(Frames) /\ Len(stack') = Len(stack) - 1
      /\ \A i \in 1..Len(stack') : stack'[i] = stack[i + 1]
  BY <1>1, Popped
<1>3. ASSUME NEW i \in DOMAIN stack'
      PROVE  /\ FrameOK(stack'[i], clone'[stack'[i].repo])
             /\ stack'[i].pc = "deps"
  <2>1. i + 1 \in DOMAIN stack /\ i + 1 > 1 /\ stack'[i] = stack[i + 1]
    BY <1>1, <1>2
  <2>2. QED
    BY <2>1, FrameStays DEF InstallInv, StackOK
<1>4. QED
  BY <1>2, <1>3 DEF StackOK

LEMMA Unwinds ==
    ASSUME InstallInv, stack' = <<>>
    PROVE  stack' \in Seq(Frames) /\ StackOK'
BY DEF StackOK
-----------------------------------------------------------------------------
LEMMA TopFacts ==
    ASSUME InstallInv, stack # <<>>
    PROVE  /\ Top \in Frames /\ Top.repo \in Repos /\ Top.up \in Upstreams
           /\ Top.deps \in BOOLEAN /\ Top.todo \in Seq(Dependencies)
           /\ FrameOK(Top, Repo) /\ Repo \in Clones \cup {Nil}
           /\ Repo # Nil => Repo \in Clones /\ Sound(Top.repo, Repo, tip[Top.repo])
<1>1. Top = stack[1] /\ 1 \in DOMAIN stack
  BY TopType DEF InstallInv
<1>2. /\ Top \in Frames /\ Top.repo \in Repos /\ Top.up \in Upstreams
      /\ Top.deps \in BOOLEAN /\ Top.todo \in Seq(Dependencies)
  BY <1>1, InFrames DEF InstallInv
<1>3. FrameOK(Top, Repo)
  BY <1>1 DEF InstallInv, StackOK, Repo
<1>4. Repo \in Clones \cup {Nil}
  BY <1>2 DEF InstallInv, Types, Repo
<1>5. Repo # Nil => Sound(Top.repo, Repo, tip[Top.repo])
  BY <1>2 DEF InstallInv, ClonesOK, Repo
<1>6. QED
  BY <1>2, <1>3, <1>4, <1>5

LEMMA Goes ==
    ASSUME InstallInv, Grows, stack # <<>>, NEW label \in Labels, Goto(label),
           label # "clone" => clone'[Top.repo] # Nil,
           label \notin {"clone", "fetch"} =>
               Seen(Top.repo, clone'[Top.repo], Top.up),
           label \in {"pull", "settings"} => Here(clone'[Top.repo]).up # Nil
    PROVE  stack' \in Seq(Frames) /\ StackOK'
<1> DEFINE f == [Top EXCEPT !.pc = label]
<1>1. f \in Frames /\ f.pc = label /\ f.repo = Top.repo /\ f.up = Top.up
  BY TopFacts DEF Frames
<1>2. FrameOK(f, clone'[f.repo])
  BY <1>1 DEF FrameOK
<1>3. QED
  BY <1>1, <1>2, Steps DEF Goto

LEMMA ClonedIsSound ==
    ASSUME InstallInv, NEW r \in Repos
    PROVE  Cloned(r) \in Clones /\ Sound(r, Cloned(r), tip[r])
<1> DEFINE c == Cloned(r)
           m == <<"origin", <<"master">> >>
           l == [up |-> m, n |-> tip[r][m], own |-> FALSE]
<1>1. /\ tip[r] \in [Upstreams -> Nat] /\ tip[r][m] \in Nat /\ tip[r][m] >= 1
      /\ m \in Upstreams /\ m[1] = "origin"
      /\ LocalName(m) = <<"master">> /\ m \in Published[r]
      /\ <<"master">> \in Locals
  BY Constants DEF InstallInv, Types
<1>2. l \in Branch
  BY <1>1 DEF Branch
<1>3. /\ c.head = <<"master">> /\ c.remotes = {"origin"} /\ c.dirty = FALSE
      /\ c.local = [b \in Locals |-> IF b = <<"master">> THEN l ELSE Nil]
      /\ c.track = [up \in Upstreams |->
                       IF up[1] = "origin" THEN tip[r][up] ELSE 0]
  BY DEF Cloned
<1>4. c.local \in [Locals -> Branch \cup {Nil}] /\ c.track \in [Upstreams -> Nat]
  BY <1>1, <1>2, <1>3
<1>5. c \in Clones
  <2>1. c = [head |-> c.head, local |-> c.local, track |-> c.track,
             remotes |-> c.remotes, dirty |-> c.dirty]
    BY DEF Cloned
  <2>2. QED
    BY <2>1, <1>1, <1>3, <1>4, Constants DEF Clones
<1>6. Here(c) # Nil
  <2>1. c.local[<<"master">>] = l
    BY <1>1, <1>3
  <2>2. l # Nil
    BY <1>2, Constants
  <2>3. QED
    BY <1>3, <2>1, <2>2 DEF Here
<1>7. \A up \in Published[r] : c.track[up] <= tip[r][up]
  <2> TAKE up \in Published[r]
  <2>1. up \in Upstreams /\ tip[r][up] \in Nat /\ tip[r][up] >= 1
    BY <1>1, Constants DEF InstallInv
  <2>2. c.track[up] = tip[r][up] \/ c.track[up] = 0
    BY <1>3, <2>1
  <2>3. QED
    BY <2>1, <2>2
<1>8. ASSUME NEW b \in Locals, c.local[b] # Nil
      PROVE  b = <<"master">> /\ c.local[b] = l
  BY <1>3, <1>8
<1>9. l.up = m /\ l.n = tip[r][m] /\ c.track[m] = tip[r][m]
  BY <1>1, <1>3
<1>10. QED
  BY <1>1, <1>3, <1>5, <1>6, <1>7, <1>8, <1>9 DEF Sound

\* A fetch of a remote, whether the clone has it already or not.
LEMMA FetchedIsSound ==
    ASSUME InstallInv, NEW r \in Repos, NEW c \in Clones, NEW d \in Clones,
           Sound(r, c, tip[r]), NEW remote \in Remotes,
           d.head = c.head, d.local = c.local,
           d.remotes = c.remotes \cup {remote}, d.track = Fetched(r, c, remote)
    PROVE  /\ Sound(r, d, tip[r]) /\ Keeps(r, c, d)
           /\ \A up \in Upstreams : up[1] = remote => Seen(r, d, up)
<1>1. tip[r] \in [Upstreams -> Nat] /\ c.track \in [Upstreams -> Nat]
  BY DEF InstallInv, Types, Clones
<1>2. \A up \in Upstreams : d.track[up] = IF up[1] = remote THEN tip[r][up]
                                          ELSE c.track[up]
  BY DEF Fetched
<1>3. Here(d) # Nil
  BY DEF Sound, Here
<1>4. ASSUME NEW up \in Published[r]
      PROVE  /\ d.track[up] <= tip[r][up]
             /\ c.track[up] >= 1 \/ up[1] = remote => d.track[up] >= 1
  <2>1. up \in Upstreams /\ tip[r][up] \in Nat /\ tip[r][up] >= 1
    BY <1>1, Constants DEF InstallInv
  <2>2. c.track[up] <= tip[r][up]
    BY DEF Sound
  <2>3. QED
    BY <1>2, <2>1, <2>2
<1>5. ASSUME NEW b \in Locals, d.local[b] # Nil, d.local[b].up # Nil
      PROVE  /\ d.local[b].up \in Published[r]
             /\ d.local[b].up[1] \in d.remotes
             /\ d.local[b].n \in 1..d.track[d.local[b].up]
             /\ LocalName(d.local[b].up) = b
  <2> DEFINE l == c.local[b]
  <2>1. /\ l.up \in Published[r] /\ l.up[1] \in c.remotes
        /\ l.n \in 1..c.track[l.up] /\ LocalName(l.up) = b
    BY <1>5 DEF Sound
  <2>2. c.track[l.up] <= tip[r][l.up] /\ l.up \in Upstreams
    BY <2>1, Constants DEF Sound
  <2>3. tip[r][l.up] \in Nat /\ c.track[l.up] \in Nat /\ l.n \in Nat
    BY <1>1, <2>1, <2>2
  <2>4. l.n \in 1..d.track[l.up]
    BY <1>2, <2>1, <2>2, <2>3
  <2>5. QED
    BY <2>1, <2>4
<1>6. Keeps(r, c, d) /\ \A up \in Upstreams : up[1] = remote => Seen(r, d, up)
  BY <1>4 DEF Keeps, Seen
<1>7. QED
  BY <1>3, <1>4, <1>5, <1>6 DEF Sound

\* The branch that was asked for, which is made if need be, ...
LEMMA CreatedIsSound ==
    ASSUME InstallInv, stack # <<>>, Repo # Nil, Creatable,
           Seen(Top.repo, Repo, Top.up)
    PROVE  LET d == Created(Repo)
           IN  /\ d \in Clones /\ Sound(Top.repo, d, tip[Top.repo])
               /\ d.head = Repo.head /\ d.remotes = Repo.remotes
               /\ d.track = Repo.track /\ d.dirty = Repo.dirty
               /\ d.local[LocalName(Top.up)] # Nil
               /\ \A b \in Locals : Repo.local[b] # Nil =>
                     d.local[b] = Repo.local[b]
<1> DEFINE b0 == LocalName(Top.up)
           l0 == [up |-> Top.up, n |-> Repo.track[Top.up], own |-> FALSE]
           r == Top.repo
           d == Created(Repo)
<1>1. /\ r \in Repos /\ Top.up \in Upstreams /\ b0 \in Locals
      /\ Repo \in Clones /\ Sound(r, Repo, tip[r])
  BY TopFacts, Constants
<1>2. /\ Repo.track \in [Upstreams -> Nat] /\ Repo.head \in Locals
      /\ Repo.local \in [Locals -> Branch \cup {Nil}]
      /\ Repo.remotes \subseteq Remotes
  BY <1>1 DEF Clones
<1>3. CASE Repo.local[b0] # Nil
  <2>1. d = Repo
    BY <1>3 DEF Created
  <2>2. QED
    BY <1>1, <1>3, <2>1
<1>4. CASE Repo.local[b0] = Nil
  <2>1. /\ Top.up \in Published[r] /\ Top.up[1] \in Repo.remotes
        /\ Repo.track[Top.up] >= 1 /\ Repo.track[Top.up] \in Nat
    BY <1>1, <1>2, <1>4 DEF Creatable, Seen
  <2>2. l0 \in Branch /\ l0 # Nil
    <3>1. l0 \in Branch
      BY <1>1, <2>1 DEF Branch
    <3>2. QED
      BY <3>1, Constants
  <2>3. d = [Repo EXCEPT !.local = [Repo.local EXCEPT ![b0] = l0]]
    BY <1>1, <1>4 DEF Created, Clones
  <2>4. [Repo.local EXCEPT ![b0] = l0] \in [Locals -> Branch \cup {Nil}]
    BY <1>1, <1>2, <2>2
  <2>5. /\ d \in Clones /\ d.head = Repo.head /\ d.remotes = Repo.remotes
        /\ d.track = Repo.track /\ d.dirty = Repo.dirty
        /\ d.local = [Repo.local EXCEPT ![b0] = l0]
    BY <1>1, <2>3, <2>4 DEF Clones
  <2>6. \A b \in Locals : d.local[b] = IF b = b0 THEN l0 ELSE Repo.local[b]
    BY <1>1, <1>2, <2>5
  <2>7. Here(d) # Nil
    BY <1>1, <1>2, <2>2, <2>5, <2>6 DEF Here, Sound
  <2>8. ASSUME NEW b \in Locals, d.local[b] # Nil, d.local[b].up # Nil
        PROVE  /\ d.local[b].up \in Published[r]
               /\ d.local[b].up[1] \in d.remotes
               /\ d.local[b].n \in 1..d.track[d.local[b].up]
               /\ LocalName(d.local[b].up) = b
    <3>1. CASE b = b0
      BY <2>1, <2>5, <2>6, <3>1
    <3>2. CASE b # b0
      BY <1>1, <2>5, <2>6, <2>8, <3>2 DEF Sound
    <3>3. QED
      BY <3>1, <3>2
  <2>9. Sound(r, d, tip[r])
    BY <1>1, <2>5, <2>7, <2>8 DEF Sound
  <2>10. QED
    BY <1>1, <1>4, <2>2, <2>5, <2>6, <2>9
<1>5. QED
  BY <1>3, <1>4

\* ... and its checkout.
Switched == [Created(Repo) EXCEPT !.head = LocalName(Top.up)]

LEMMA SwitchedIsSound ==
    ASSUME InstallInv, stack # <<>>, Repo # Nil, Creatable,
           Seen(Top.repo, Repo, Top.up)
    PROVE  /\ Switched \in Clones /\ Sound(Top.repo, Switched, tip[Top.repo])
           /\ Switched.head = LocalName(Top.up)
           /\ Switched.remotes = Repo.remotes /\ Switched.track = Repo.track
           /\ Switched.dirty = Repo.dirty
           /\ \A b \in Locals : Repo.local[b] # Nil =>
                 Switched.local[b] = Repo.local[b]
<1>1. PICK d : d = Created(Repo)
  OBVIOUS
<1>2. /\ d \in Clones /\ Sound(Top.repo, d, tip[Top.repo])
      /\ d.head = Repo.head /\ d.remotes = Repo.remotes
      /\ d.track = Repo.track /\ d.dirty = Repo.dirty
      /\ d.local[LocalName(Top.up)] # Nil
      /\ \A b \in Locals : Repo.local[b] # Nil => d.local[b] = Repo.local[b]
  BY <1>1, CreatedIsSound
<1>3. LocalName(Top.up) \in Locals
  BY TopFacts, Constants
<1>4. Switched = [d EXCEPT !.head = LocalName(Top.up)]
  BY <1>1 DEF Switched
<1>5. /\ Switched \in Clones /\ Switched.head = LocalName(Top.up)
      /\ Switched.local = d.local /\ Switched.remotes = d.remotes
      /\ Switched.track = d.track /\ Switched.dirty = d.dirty
  BY <1>2, <1>3, <1>4 DEF Clones
<1>6. Sound(Top.repo, Switched, tip[Top.repo])
  BY <1>2, <1>5 DEF Sound, Here
<1>7. QED
  BY <1>2, <1>5, <1>6

\* A pull: a fetch of the upstream's remote, and the branch comes up to it.
Refetched == [Repo EXCEPT !.track =
                 Fetched(Top.repo, Repo, Here(Repo).up[1])]
Pulled == [Refetched EXCEPT !.local[Refetched.head].n =
              Refetched.track[Here(Repo).up]]

LEMMA RefetchedIsSound ==
    ASSUME InstallInv, stack # <<>>, Repo # Nil, Here(Repo).up # Nil
    PROVE  /\ Refetched \in Clones /\ Sound(Top.repo, Refetched, tip[Top.repo])
           /\ Refetched.head = Repo.head /\ Refetched.local = Repo.local
           /\ Refetched.remotes = Repo.remotes /\ Refetched.dirty = Repo.dirty
           /\ Here(Repo).up \in Published[Top.repo] /\ Here(Repo).up \in Upstreams
           /\ Refetched.track[Here(Repo).up] >= 1
           /\ Keeps(Top.repo, Repo, Refetched)
<1> DEFINE up == Here(Repo).up
           d == Refetched
<1>1. /\ Top.repo \in Repos
      /\ Repo \in Clones /\ Sound(Top.repo, Repo, tip[Top.repo])
  BY TopFacts
<1>2. Repo.head \in Locals
  BY <1>1 DEF Clones
<1>3. up \in Published[Top.repo] /\ up[1] \in Repo.remotes
  BY <1>1, <1>2 DEF Sound, Here
<1>4. up \in Upstreams /\ up[1] \in Remotes
  BY <1>1, <1>3, Constants
<1>5. Fetched(Top.repo, Repo, up[1]) \in [Upstreams -> Nat]
  BY <1>1 DEF Fetched, InstallInv, Types, Clones
<1>6. /\ d \in Clones /\ d.head = Repo.head /\ d.local = Repo.local
      /\ d.remotes = Repo.remotes /\ d.dirty = Repo.dirty
      /\ d.track = Fetched(Top.repo, Repo, up[1])
  BY <1>1, <1>5 DEF Refetched, Clones
<1>7. d.remotes = Repo.remotes \cup {up[1]}
  BY <1>3, <1>6
<1>8. /\ Sound(Top.repo, d, tip[Top.repo]) /\ Keeps(Top.repo, Repo, d)
      /\ Seen(Top.repo, d, up)
  BY <1>1, <1>4, <1>6, <1>7, FetchedIsSound
<1>9. QED
  BY <1>1, <1>3, <1>4, <1>6, <1>8 DEF Seen

LEMMA PulledIsSound ==
    ASSUME InstallInv, stack # <<>>, Repo # Nil, Here(Repo).up # Nil
    PROVE  /\ Pulled \in Clones /\ Sound(Top.repo, Pulled, tip[Top.repo])
           /\ Pulled.head = Repo.head /\ Pulled.remotes = Repo.remotes
           /\ Pulled.dirty = Repo.dirty
           /\ \A b \in Locals \ {Repo.head} : Pulled.local[b] = Repo.local[b]
           /\ Here(Pulled).up = Here(Repo).up /\ Here(Pulled).own = Here(Repo).own
           /\ Here(Pulled).n = Pulled.track[Here(Pulled).up]
           /\ Here(Pulled) # Nil /\ Keeps(Top.repo, Repo, Pulled)
<1> DEFINE c == Refetched
           d == Pulled
           r == Top.repo
           up == Here(Repo).up
           n == c.track[up]
           l == [Here(Repo) EXCEPT !.n = n]
<1>1. /\ r \in Repos /\ Repo \in Clones /\ Sound(r, Repo, tip[r])
  BY TopFacts
<1>2. /\ c \in Clones /\ Sound(r, c, tip[r]) /\ c.head = Repo.head
      /\ c.local = Repo.local /\ c.remotes = Repo.remotes
      /\ c.dirty = Repo.dirty /\ up \in Published[r] /\ up \in Upstreams
      /\ n >= 1 /\ Keeps(r, Repo, c)
  BY RefetchedIsSound
<1>3. /\ c.head \in Locals /\ c.local \in [Locals -> Branch \cup {Nil}]
      /\ c.track \in [Upstreams -> Nat]
  BY <1>2 DEF Clones
<1>4. c.local[c.head] = Here(Repo) /\ Here(Repo) # Nil /\ Here(Repo) \in Branch
  BY <1>1, <1>2, <1>3 DEF Here, Sound
<1>5. n \in Nat /\ n >= 1
  BY <1>2, <1>3
<1>6. l \in Branch /\ l.up = up /\ l.n = n /\ l.own = Here(Repo).own /\ l # Nil
  BY <1>4, <1>5, Constants DEF Branch
<1>7. [c.local EXCEPT ![c.head] = l] \in [Locals -> Branch \cup {Nil}]
  BY <1>3, <1>6
<1>8. d = [c EXCEPT !.local = [c.local EXCEPT ![c.head] = l]]
  <2>1. d = [c EXCEPT !.local =
                [c.local EXCEPT ![c.head] = [c.local[c.head] EXCEPT !.n = n]]]
    BY <1>2 DEF Pulled, Clones
  <2>2. QED
    BY <2>1, <1>4
<1>9. /\ d \in Clones /\ d.head = c.head /\ d.remotes = c.remotes
      /\ d.dirty = c.dirty /\ d.track = c.track
      /\ d.local = [c.local EXCEPT ![c.head] = l]
  BY <1>2, <1>7, <1>8 DEF Clones
<1>10. \A b \in Locals : d.local[b] = IF b = c.head THEN l ELSE c.local[b]
  BY <1>3, <1>9
<1>11. Here(d) = l
  BY <1>3, <1>9, <1>10 DEF Here
<1>12. ASSUME NEW b \in Locals, d.local[b] # Nil, d.local[b].up # Nil
       PROVE  /\ d.local[b].up \in Published[r]
              /\ d.local[b].up[1] \in d.remotes
              /\ d.local[b].n \in 1..d.track[d.local[b].up]
              /\ LocalName(d.local[b].up) = b
  <2>1. CASE b = c.head
    <3>1. /\ up \in Published[r] /\ up[1] \in c.remotes
          /\ LocalName(up) = c.head
      BY <1>2, <1>3, <1>4 DEF Sound
    <3>2. d.local[b] = l /\ l.n \in 1..c.track[l.up]
      BY <1>5, <1>6, <1>10, <2>1
    <3>3. QED
      BY <1>6, <1>9, <2>1, <3>1, <3>2
  <2>2. CASE b # c.head
    <3>1. d.local[b] = c.local[b]
      BY <1>10, <2>2
    <3>2. c.local[b] # Nil /\ c.local[b].up # Nil
      BY <1>12, <3>1
    <3>3. /\ c.local[b].up \in Published[r]
          /\ c.local[b].up[1] \in c.remotes
          /\ c.local[b].n \in 1..c.track[c.local[b].up]
          /\ LocalName(c.local[b].up) = b
      BY <1>2, <3>2 DEF Sound
    <3>4. QED
      BY <1>9, <3>1, <3>3
  <2>3. QED
    BY <2>1, <2>2
<1>13. Sound(r, d, tip[r])
  BY <1>2, <1>6, <1>9, <1>11, <1>12 DEF Sound
<1>14. Keeps(r, Repo, d)
  BY <1>2, <1>9 DEF Keeps, Seen
<1>15. QED
  BY <1>2, <1>6, <1>9, <1>10, <1>11, <1>13, <1>14
-----------------------------------------------------------------------------
LEMMA Kept ==
    ASSUME InstallInv, tip' = tip, clone' \in [Repos -> Clones \cup {Nil}],
           stack' \in Seq(Frames), partial' \in BOOLEAN, ClonesOK', StackOK'
    PROVE  InstallInv'
BY DEF InstallInv, Types

LEMMA InstallInit == Init => InstallInv
<1> SUFFICES ASSUME Init PROVE InstallInv
  OBVIOUS
<1>1. tip \in [Repos -> [Upstreams -> Nat]]
  BY DEF Init
<1>2. ASSUME NEW r \in Repos, NEW up \in Published[r] PROVE tip[r][up] >= 1
  <2>1. up \in Upstreams
    BY Constants
  <2>2. tip[r][up] = 1
    BY <2>1 DEF Init
  <2>3. QED
    BY <2>2
<1>3. clone \in [Repos -> Clones \cup {Nil}] /\ \A r \in Repos : clone[r] = Nil
  BY DEF Init
<1>4. stack \in Seq(Frames) /\ DOMAIN stack = {}
  BY DEF Init
<1>5. QED
  BY <1>1, <1>2, <1>3, <1>4 DEF Init, InstallInv, Types, ClonesOK, StackOK

LEMMA RequestKeeps ==
    ASSUME InstallInv, NEW q \in Requests, Request(q) PROVE InstallInv'
<1> DEFINE f == Frame(q.repo, q.up, q.deps)
<1>1. f \in Frames /\ f.pc = "clone"
  <2>1. q.repo \in Repos /\ q.up \in Upstreams /\ q.deps \in BOOLEAN
    BY Constants
  <2>2. QED
    BY <2>1, FrameType
<1>2. stack' = <<f>> /\ tip' = tip /\ clone' = clone /\ partial' = FALSE
  BY DEF Request
<1>3. stack' \in Seq(Frames) /\ Len(stack') = 1 /\ stack'[1] = f
  BY <1>1, <1>2
<1>4. StackOK'
  BY <1>1, <1>3 DEF StackOK, FrameOK
<1>5. QED
  BY <1>2, <1>3, <1>4, SameClones, Kept

LEMMA CloneKeeps == ASSUME InstallInv, Clone PROVE InstallInv'
<1>1. stack # <<>> /\ tip' = tip /\ partial' = partial /\ Goto("fetch")
  BY DEF Clone, At, Idle
<1>2. "fetch" \in Labels
  BY DEF Labels
<1>3. CASE Repo = Nil
  <2>1. clone' = [clone EXCEPT ![Top.repo] = Cloned(Top.repo)] /\ clone[Top.repo] = Nil
    BY <1>3 DEF Clone, SetRepo, Repo
  <2>2. /\ clone' \in [Repos -> Clones \cup {Nil}] /\ clone'[Top.repo] # Nil
        /\ ClonesOK' /\ Grows
    BY <1>1, <2>1, ClonedIsSound, SetClone, TopFacts
  <2>3. stack' \in Seq(Frames) /\ StackOK'
    BY <1>1, <1>2, <2>2, Goes
  <2>4. QED
    BY <1>1, <2>2, <2>3, Kept DEF InstallInv, Types
<1>4. CASE Repo # Nil
  <2>1. clone' = clone
    BY <1>4 DEF Clone
  <2>2. /\ clone' \in [Repos -> Clones \cup {Nil}] /\ clone'[Top.repo] # Nil
        /\ ClonesOK' /\ Grows
    BY <1>1, <1>4, <2>1, SameClones DEF Repo
  <2>3. stack' \in Seq(Frames) /\ StackOK'
    BY <1>1, <1>2, <2>2, Goes
  <2>4. QED
    BY <1>1, <2>2, <2>3, Kept DEF InstallInv, Types
<1>5. QED
  BY <1>3, <1>4

\* The state after the git fetch of an install.
Reached == [[Repo EXCEPT !.remotes = @ \cup {Top.up[1]}] EXCEPT
               !.track = Fetched(Top.repo, Repo, Top.up[1])]

LEMMA ReachedIsSound ==
    ASSUME InstallInv, stack # <<>>, Repo # Nil
    PROVE  /\ Reached \in Clones /\ Sound(Top.repo, Reached, tip[Top.repo])
           /\ Reached.head = Repo.head /\ Reached.local = Repo.local
           /\ Reached.remotes = Repo.remotes \cup {Top.up[1]}
           /\ Reached.dirty = Repo.dirty
           /\ Keeps(Top.repo, Repo, Reached) /\ Seen(Top.repo, Reached, Top.up)
<1>1. /\ Top.repo \in Repos /\ Repo \in Clones
      /\ Sound(Top.repo, Repo, tip[Top.repo]) /\ Top.up[1] \in Remotes
      /\ Top.up \in Upstreams
  BY TopFacts, Constants
<1>2. Fetched(Top.repo, Repo, Top.up[1]) \in [Upstreams -> Nat]
  BY <1>1 DEF Fetched, InstallInv, Types, Clones
<1>3. /\ Reached \in Clones
      /\ Reached.head = Repo.head /\ Reached.local = Repo.local
      /\ Reached.remotes = Repo.remotes \cup {Top.up[1]}
      /\ Reached.dirty = Repo.dirty
      /\ Reached.track = Fetched(Top.repo, Repo, Top.up[1])
  BY <1>1, <1>2 DEF Reached, Clones
<1>4. QED
  BY <1>1, <1>3, FetchedIsSound

\* What one that fails may leave: the remote.
Added == [Repo EXCEPT !.remotes = @ \cup {Top.up[1]}]

LEMMA AddedIsSound ==
    ASSUME InstallInv, stack # <<>>, Repo # Nil
    PROVE  /\ Added \in Clones /\ Sound(Top.repo, Added, tip[Top.repo])
           /\ Added.local = Repo.local /\ Added.dirty = Repo.dirty
           /\ Keeps(Top.repo, Repo, Added)
<1>1. /\ Top.repo \in Repos /\ Repo \in Clones
      /\ Sound(Top.repo, Repo, tip[Top.repo]) /\ Top.up[1] \in Remotes
  BY TopFacts, Constants
<1>2. /\ Added \in Clones /\ Added.head = Repo.head
      /\ Added.local = Repo.local /\ Added.track = Repo.track
      /\ Added.remotes = Repo.remotes \cup {Top.up[1]}
      /\ Added.dirty = Repo.dirty
  BY <1>1 DEF Added, Clones
<1>3. QED
  BY <1>1, <1>2 DEF Sound, Here, Keeps, Seen

LEMMA FetchIs ==
    ASSUME InstallInv, Fetch
    PROVE  /\ stack # <<>> /\ Repo # Nil /\ tip' = tip /\ partial' = partial
           /\ Top.pc = "fetch"
           /\ \/ SetRepo(Reached) /\ Goto("check")
              \/ (SetRepo(Added) \/ clone' = clone) /\ Throw
<1>1. /\ stack # <<>> /\ Top.pc = "fetch" /\ tip' = tip /\ partial' = partial
  BY DEF Fetch, At, Idle
<1>2. Repo # Nil /\ Repo \in Clones /\ Top.repo \in Repos
      /\ clone \in [Repos -> Clones \cup {Nil}]
  BY <1>1, TopFacts DEF FrameOK, InstallInv, Types
<1> DEFINE remote == Top.up[1]
           matched == \E x \in Repo.remotes : <<x, remote>> \in EndsWith
           c == [Repo EXCEPT !.remotes = IF matched THEN @ ELSE @ \cup {remote}]
<1>3. \/ /\ remote \in c.remotes
         /\ SetRepo([c EXCEPT !.track = Fetched(Top.repo, c, remote)])
         /\ Goto("check")
      \/ SetRepo(c) /\ Throw
  BY DEF Fetch
<1>4. c = Repo \/ c = Added
  <2>1. CASE matched
    BY <1>2, <2>1 DEF Clones
  <2>2. CASE ~matched
    BY <2>2 DEF Added
  <2>3. QED
    BY <2>1, <2>2
<1>5. CASE SetRepo(c) /\ Throw
  <2>1. SetRepo(Repo) => clone' = clone
    BY <1>2 DEF SetRepo, Repo
  <2>2. QED
    BY <1>1, <1>2, <1>4, <1>5, <2>1
<1>6. CASE /\ remote \in c.remotes
           /\ SetRepo([c EXCEPT !.track = Fetched(Top.repo, c, remote)])
           /\ Goto("check")
  <2>1. c = Added
    <3>1. CASE c = Repo
      <4>1. Repo.remotes = Repo.remotes \cup {remote}
        BY <1>6, <3>1
      <4>2. QED
        BY <1>2, <3>1, <4>1 DEF Added, Clones
    <3>2. QED
      BY <1>4, <3>1
  <2>2. c.track = Repo.track
    BY <1>2, <2>1 DEF Added, Clones
  <2>3. Fetched(Top.repo, c, remote) = Fetched(Top.repo, Repo, remote)
    BY <2>2 DEF Fetched
  <2>4. QED
    BY <1>1, <1>2, <1>6, <2>1, <2>3 DEF Reached, Added
<1>7. QED
  BY <1>3, <1>5, <1>6

LEMMA FetchKeeps == ASSUME InstallInv, Fetch PROVE InstallInv'
<1>1. /\ stack # <<>> /\ Repo # Nil /\ tip' = tip /\ partial' = partial
      /\ \/ SetRepo(Reached) /\ Goto("check")
         \/ (SetRepo(Added) \/ clone' = clone) /\ Throw
  BY FetchIs
<1>2. CASE SetRepo(Reached) /\ Goto("check")
  <2>1. /\ clone' \in [Repos -> Clones \cup {Nil}] /\ clone'[Top.repo] = Reached
        /\ Reached # Nil /\ ClonesOK' /\ Grows
    BY <1>1, <1>2, ReachedIsSound, SetClone, TopFacts DEF SetRepo, Repo
  <2>2. "check" \in Labels /\ Seen(Top.repo, Reached, Top.up)
    BY <1>1, ReachedIsSound DEF Labels
  <2>3. stack' \in Seq(Frames) /\ StackOK'
    BY <1>1, <1>2, <2>1, <2>2, Goes
  <2>4. QED
    BY <1>1, <2>1, <2>3, Kept DEF InstallInv, Types
<1>3. CASE SetRepo(Added) /\ Throw
  <2>1. clone' \in [Repos -> Clones \cup {Nil}] /\ ClonesOK'
    BY <1>1, <1>3, AddedIsSound, SetClone, TopFacts DEF SetRepo, Repo
  <2>2. QED
    BY <1>1, <1>3, <2>1, Unwinds, Kept DEF Throw, InstallInv, Types
<1>4. CASE clone' = clone /\ Throw
  BY <1>1, <1>4, SameClones, Unwinds, Kept DEF Throw, InstallInv, Types
<1>5. QED
  BY <1>1, <1>2, <1>3, <1>4

LEMMA DirtyKeeps == ASSUME InstallInv, Dirty PROVE InstallInv'
<1>1. /\ stack # <<>> /\ tip' = tip /\ clone' = clone /\ partial' = TRUE
      /\ stack' = Tail(stack)
  BY DEF Dirty, At, Idle
<1>2. QED
  BY <1>1, SameClones, ReturnsTo, Kept

\* A step that leaves the clones alone.
LEMMA JustGoes ==
    ASSUME InstallInv, stack # <<>>, tip' = tip, clone' = clone,
           partial' \in BOOLEAN, Top.pc \notin {"clone", "fetch"},
           NEW label \in Labels, Goto(label),
           label \in {"pull", "settings"} => Here(Repo).up # Nil
    PROVE  InstallInv'
<1>1. clone' \in [Repos -> Clones \cup {Nil}] /\ ClonesOK' /\ Grows
  BY SameClones
<1>2. /\ clone'[Top.repo] # Nil /\ Seen(Top.repo, clone'[Top.repo], Top.up)
      /\ label \in {"pull", "settings"} => Here(clone'[Top.repo]).up # Nil
  BY TopFacts DEF FrameOK, Repo
<1>3. stack' \in Seq(Frames) /\ StackOK'
  BY <1>1, <1>2, Goes
<1>4. QED
  BY <1>1, <1>3, Kept

LEMMA JustThrows ==
    ASSUME InstallInv, tip' = tip, clone' = clone, partial' = partial, Throw
    PROVE  InstallInv'
BY SameClones, Unwinds, Kept DEF Throw, InstallInv, Types

LEMMA TrackingKeeps == ASSUME InstallInv, Tracking PROVE InstallInv'
<1>1. /\ stack # <<>> /\ Top.pc = "check" /\ tip' = tip /\ clone' = clone
      /\ partial' = partial /\ partial \in BOOLEAN
      /\ {"status", "switch"} \subseteq Labels
  BY DEF Tracking, At, Idle, Labels, InstallInv, Types
<1>2. Throw \/ Goto("status") \/ Goto("switch")
  BY DEF Tracking
<1>3. QED
  BY <1>1, <1>2, JustGoes, JustThrows

LEMMA SwitchIs ==
    ASSUME InstallInv, Switch
    PROVE  /\ stack # <<>> /\ Repo # Nil /\ tip' = tip /\ partial' = partial
           /\ Top.pc = "switch" /\ Seen(Top.repo, Repo, Top.up)
           /\ \/ Creatable /\ SetRepo(Switched) /\ Goto("status")
              \/ Creatable /\ SetRepo(Created(Repo)) /\ Throw
              \/ Throw /\ clone' = clone
<1>1. stack # <<>> /\ Top.pc = "switch" /\ tip' = tip /\ partial' = partial
  BY DEF Switch, At, Idle
<1>2. Repo # Nil /\ Seen(Top.repo, Repo, Top.up)
  BY <1>1, TopFacts DEF FrameOK
<1>3. QED
  BY <1>1, <1>2 DEF Switch, Switched

LEMMA SwitchKeeps == ASSUME InstallInv, Switch PROVE InstallInv'
<1>1. /\ stack # <<>> /\ Repo # Nil /\ tip' = tip /\ partial' = partial
      /\ Seen(Top.repo, Repo, Top.up)
      /\ \/ Creatable /\ SetRepo(Switched) /\ Goto("status")
         \/ Creatable /\ SetRepo(Created(Repo)) /\ Throw
         \/ Throw /\ clone' = clone
  BY SwitchIs
<1>2. ASSUME NEW c \in Clones, Sound(Top.repo, c, tip[Top.repo]), SetRepo(c),
             c.remotes = Repo.remotes, c.track = Repo.track
      PROVE  /\ clone' \in [Repos -> Clones \cup {Nil}] /\ clone'[Top.repo] = c
             /\ c # Nil /\ ClonesOK' /\ Grows /\ Seen(Top.repo, c, Top.up)
  <2>1. Keeps(Top.repo, Repo, c) /\ Seen(Top.repo, c, Top.up)
    BY <1>1, <1>2 DEF Keeps, Seen
  <2>2. QED
    BY <1>1, <1>2, <2>1, SetClone, TopFacts DEF SetRepo, Repo
<1>3. CASE Creatable /\ SetRepo(Switched) /\ Goto("status")
  <2>1. /\ Switched \in Clones /\ Sound(Top.repo, Switched, tip[Top.repo])
        /\ Switched.remotes = Repo.remotes /\ Switched.track = Repo.track
    BY <1>1, <1>3, SwitchedIsSound
  <2>2. /\ clone' \in [Repos -> Clones \cup {Nil}] /\ clone'[Top.repo] = Switched
        /\ Switched # Nil /\ ClonesOK' /\ Grows
        /\ Seen(Top.repo, Switched, Top.up)
    BY <1>2, <1>3, <2>1
  <2>3. "status" \in Labels
    BY DEF Labels
  <2>4. stack' \in Seq(Frames) /\ StackOK'
    BY <1>1, <1>3, <2>1, <2>2, <2>3, Goes
  <2>5. QED
    BY <1>1, <2>2, <2>4, Kept DEF InstallInv, Types
<1>4. CASE Creatable /\ SetRepo(Created(Repo)) /\ Throw
  <2>1. PICK c : c = Created(Repo)
    OBVIOUS
  <2>2. /\ c \in Clones /\ Sound(Top.repo, c, tip[Top.repo]) /\ SetRepo(c)
        /\ c.remotes = Repo.remotes /\ c.track = Repo.track
    BY <1>1, <1>4, <2>1, CreatedIsSound
  <2>3. clone' \in [Repos -> Clones \cup {Nil}] /\ ClonesOK'
    BY <1>2, <2>2
  <2>4. QED
    BY <1>1, <1>4, <2>3, Unwinds, Kept DEF Throw, InstallInv, Types
<1>5. QED
  BY <1>1, <1>3, <1>4, JustThrows

LEMMA StatusKeeps == ASSUME InstallInv, Status PROVE InstallInv'
<1>1. /\ stack # <<>> /\ Top.pc = "status" /\ tip' = tip /\ clone' = clone
      /\ partial' = partial /\ partial \in BOOLEAN
      /\ {"settings", "pull"} \subseteq Labels
  BY DEF Status, At, Idle, Labels, InstallInv, Types
<1>2. \/ Throw
      \/ (Goto("settings") \/ Goto("pull")) /\ Here(Repo).up # Nil
  BY DEF Status
<1>3. QED
  BY <1>1, <1>2, JustGoes, JustThrows

\* What a pull leaves when it fails: nothing but the fetch, or a merge.
Merging == [Refetched EXCEPT !.dirty = TRUE]

LEMMA MergingIsSound ==
    ASSUME InstallInv, stack # <<>>, Repo # Nil, Here(Repo).up # Nil
    PROVE  /\ Merging \in Clones /\ Sound(Top.repo, Merging, tip[Top.repo])
           /\ Merging.head = Repo.head /\ Merging.local = Repo.local
           /\ Merging.remotes = Repo.remotes /\ Merging.dirty = TRUE
           /\ Keeps(Top.repo, Repo, Merging)
<1>1. /\ Refetched \in Clones /\ Sound(Top.repo, Refetched, tip[Top.repo])
      /\ Refetched.head = Repo.head /\ Refetched.local = Repo.local
      /\ Refetched.remotes = Repo.remotes /\ Keeps(Top.repo, Repo, Refetched)
  BY RefetchedIsSound
<1>2. /\ Merging \in Clones /\ Merging.head = Refetched.head
      /\ Merging.local = Refetched.local /\ Merging.remotes = Refetched.remotes
      /\ Merging.dirty = TRUE /\ Merging.track = Refetched.track
  BY <1>1 DEF Merging, Clones
<1>3. QED
  BY <1>1, <1>2 DEF Sound, Here, Keeps, Seen

LEMMA PullIs ==
    ASSUME InstallInv, Pull
    PROVE  /\ stack # <<>> /\ Repo # Nil /\ tip' = tip /\ partial' = partial
           /\ Top.pc = "pull" /\ Here(Repo).up # Nil
           /\ \/ SetRepo(Pulled) /\ Goto("settings")
              \/ /\ SetRepo(Refetched) \/ SetRepo(Merging)
                 /\ Throw
<1>1. stack # <<>> /\ Top.pc = "pull" /\ tip' = tip /\ partial' = partial
  BY DEF Pull, At, Idle
<1>2. Repo # Nil /\ Here(Repo).up # Nil
  BY <1>1, TopFacts DEF FrameOK
<1>3. \/ SetRepo(Pulled) /\ Goto("settings")
      \/ /\ SetRepo(Refetched) \/ SetRepo(Merging)
         /\ Throw
  BY DEF Pull, Pulled, Refetched, Merging
<1>4. QED
  BY <1>1, <1>2, <1>3

LEMMA PullKeeps == ASSUME InstallInv, Pull PROVE InstallInv'
<1>1. /\ stack # <<>> /\ Repo # Nil /\ tip' = tip /\ partial' = partial
      /\ Top.pc = "pull" /\ Here(Repo).up # Nil
      /\ \/ SetRepo(Pulled) /\ Goto("settings")
         \/ /\ SetRepo(Refetched) \/ SetRepo(Merging)
            /\ Throw
  BY PullIs
<1>2. ASSUME NEW c \in Clones, Sound(Top.repo, c, tip[Top.repo]),
             Keeps(Top.repo, Repo, c), SetRepo(c)
      PROVE  /\ clone' \in [Repos -> Clones \cup {Nil}] /\ clone'[Top.repo] = c
             /\ c # Nil /\ ClonesOK' /\ Grows
  BY <1>1, <1>2, SetClone, TopFacts DEF SetRepo, Repo
<1>3. CASE SetRepo(Pulled) /\ Goto("settings")
  <2>1. /\ Pulled \in Clones /\ Sound(Top.repo, Pulled, tip[Top.repo])
        /\ Keeps(Top.repo, Repo, Pulled) /\ Here(Pulled).up # Nil
    BY <1>1, PulledIsSound
  <2>2. /\ clone' \in [Repos -> Clones \cup {Nil}] /\ clone'[Top.repo] = Pulled
        /\ Pulled # Nil /\ ClonesOK' /\ Grows
    BY <1>2, <1>3, <2>1
  <2>3. "settings" \in Labels /\ Seen(Top.repo, Pulled, Top.up)
    BY <1>1, <2>1, TopFacts DEF Labels, FrameOK, Keeps
  <2>4. stack' \in Seq(Frames) /\ StackOK'
    BY <1>1, <1>3, <2>1, <2>2, <2>3, Goes
  <2>5. QED
    BY <1>1, <2>2, <2>4, Kept DEF InstallInv, Types
<1>4. CASE (SetRepo(Refetched) \/ SetRepo(Merging)) /\ Throw
  <2>1. /\ Refetched \in Clones /\ Sound(Top.repo, Refetched, tip[Top.repo])
        /\ Keeps(Top.repo, Repo, Refetched)
        /\ Merging \in Clones /\ Sound(Top.repo, Merging, tip[Top.repo])
        /\ Keeps(Top.repo, Repo, Merging)
    BY <1>1, RefetchedIsSound, MergingIsSound
  <2>2. clone' \in [Repos -> Clones \cup {Nil}] /\ ClonesOK'
    BY <1>2, <1>4, <2>1
  <2>3. QED
    BY <1>1, <1>4, <2>2, Unwinds, Kept DEF Throw, InstallInv, Types
<1>5. QED
  BY <1>1, <1>3, <1>4

LEMMA SkipKeeps == ASSUME InstallInv, Skip PROVE InstallInv'
<1>1. /\ stack # <<>> /\ Top.pc \in {"switch", "pull"} /\ tip' = tip
      /\ clone' = clone /\ partial' \in BOOLEAN
      /\ \/ Goto("status")
         \/ Goto("settings") /\ Here(Repo).up # Nil
  BY TopFacts DEF Skip, At, Idle, FrameOK
<1>2. {"status", "settings"} \subseteq Labels
  BY DEF Labels
<1>3. QED
  BY <1>1, <1>2, JustGoes

LEMMA HereUp ==
    ASSUME NEW c \in Clones, Here(c) # Nil, Here(c).up # Nil
    PROVE  Here(c).up \in Upstreams
<1>1. c.head \in Locals /\ c.local \in [Locals -> Branch \cup {Nil}]
  BY DEF Clones
<1>2. Here(c) \in Branch
  BY <1>1 DEF Here
<1>3. QED
  BY <1>2 DEF Branch

LEMMA SettingsType ==
    ASSUME InstallInv, stack # <<>>, Repo \in Clones,
           Here(Repo).up # Nil
    PROVE  SettingsDeps \in Seq(Dependencies)
<1>1. CASE Top.repo[1] = "app" /\ Top.deps
  <2>1. Top.repo \in Repos /\ Here(Repo).up \in Upstreams
    BY TopFacts, HereUp, Constants DEF Sound
  <2>2. SettingsDeps = Deps[Top.repo, Here(Repo).up]
    BY <1>1 DEF SettingsDeps
  <2>3. QED
    BY <2>1, <2>2, Constants
<1>2. CASE ~(Top.repo[1] = "app" /\ Top.deps)
  <2>1. SettingsDeps = <<>>
    BY <1>2 DEF SettingsDeps
  <2>2. QED
    BY <2>1
<1>3. QED
  BY <1>1, <1>2

LEMMA SettingsKeeps == ASSUME InstallInv, LoadSettings PROVE InstallInv'
<1> DEFINE f == [Top EXCEPT !.todo = SettingsDeps, !.pc = "deps"]
<1>1. /\ stack # <<>> /\ Top.pc = "settings" /\ tip' = tip /\ clone' = clone
      /\ partial' = partial /\ stack' = <<f>> \o Tail(stack)
  BY DEF LoadSettings, At, Idle
<1>2. /\ Repo \in Clones /\ Seen(Top.repo, Repo, Top.up) /\ Repo # Nil
      /\ Here(Repo).up # Nil
  BY <1>1, TopFacts DEF FrameOK
<1>3. SettingsDeps \in Seq(Dependencies)
  BY SettingsType, <1>1, <1>2
<1>4. /\ f \in Frames /\ f.pc = "deps" /\ f.repo = Top.repo /\ f.up = Top.up
  BY <1>1, <1>3, TopFacts DEF Frames, Labels
<1>5. FrameOK(f, clone'[f.repo])
  BY <1>1, <1>2, <1>4 DEF FrameOK, Repo
<1>6. clone' \in [Repos -> Clones \cup {Nil}] /\ ClonesOK' /\ Grows
  BY <1>1, SameClones
<1>7. stack' \in Seq(Frames) /\ StackOK'
  BY <1>1, <1>4, <1>5, <1>6, Steps
<1>8. QED
  BY <1>1, <1>6, <1>7, Kept DEF InstallInv, Types

LEMMA ChildType ==
    ASSUME NEW d \in Dependencies
    PROVE  /\ Child(d) \in Frames /\ Child(d).pc = "clone"
           /\ Child(d).repo = d.repo /\ Child(d).up = <<"origin", d.branch>>
           /\ Child(d).deps = TRUE /\ Child(d).todo = <<>>
<1>1. d.repo \in Repos /\ <<"origin", d.branch>> \in Upstreams
  BY Constants DEF Dependencies, Upstreams
<1>2. QED
  BY <1>1, FrameType DEF Child

\* A call for the next dependency.
Rest == [Top EXCEPT !.todo = Tail(@)]

LEMMA RecurseIs ==
    ASSUME InstallInv, Recurse
    PROVE  /\ stack # <<>> /\ Top.pc = "deps" /\ tip' = tip /\ clone' = clone
           /\ partial' = partial
           /\ \/ /\ Top.todo # <<>>
                 /\ Head(Top.todo) \in Dependencies
                 /\ Rest \in Frames /\ Rest.pc = "deps" /\ Rest.repo = Top.repo
                 /\ Rest.up = Top.up /\ Rest.deps = Top.deps
                 /\ Rest.todo = Tail(Top.todo)
                 /\ stack' = <<Child(Head(Top.todo)), Rest>> \o Tail(stack)
              \/ Top.todo = <<>> /\ stack' = Tail(stack)
<1>1. /\ stack # <<>> /\ Top.pc = "deps" /\ tip' = tip /\ clone' = clone
      /\ partial' = partial
  BY DEF Recurse, At, Idle
<1>2. Top \in Frames /\ Top.todo \in Seq(Dependencies)
  BY <1>1, TopFacts
<1>3. ASSUME Top.todo # <<>>
      PROVE  /\ Head(Top.todo) \in Dependencies
             /\ Tail(Top.todo) \in Seq(Dependencies)
  BY <1>2, <1>3
<1>4. ASSUME Top.todo # <<>>
      PROVE  /\ Rest \in Frames /\ Rest.pc = "deps" /\ Rest.repo = Top.repo
             /\ Rest.up = Top.up /\ Rest.deps = Top.deps
             /\ Rest.todo = Tail(Top.todo)
  BY <1>1, <1>2, <1>3, <1>4 DEF Rest, Frames
<1>5. QED
  BY <1>1, <1>3, <1>4 DEF Recurse, Returns, Rest

LEMMA RecurseKeeps == ASSUME InstallInv, Recurse PROVE InstallInv'
<1>1. /\ stack # <<>> /\ Top.pc = "deps" /\ tip' = tip /\ clone' = clone
      /\ partial' = partial
  BY RecurseIs
<1>2. clone' \in [Repos -> Clones \cup {Nil}] /\ ClonesOK' /\ Grows
  BY <1>1, SameClones
<1>3. stack' \in Seq(Frames) /\ StackOK'
  <2>1. ASSUME Top.todo # <<>>,
               Head(Top.todo) \in Dependencies,
               Rest \in Frames, Rest.pc = "deps", Rest.repo = Top.repo,
               Rest.up = Top.up,
               stack' = <<Child(Head(Top.todo)), Rest>> \o Tail(stack)
        PROVE  stack' \in Seq(Frames) /\ StackOK'
    <3>1. Repo # Nil /\ Seen(Top.repo, Repo, Top.up)
      BY <1>1, TopFacts DEF FrameOK
    <3>2. FrameOK(Rest, clone'[Rest.repo])
      BY <1>1, <2>1, <3>1 DEF FrameOK, Repo
    <3>3. /\ Child(Head(Top.todo)) \in Frames
          /\ Child(Head(Top.todo)).pc = "clone"
      BY <2>1, ChildType
    <3>4. QED
      BY <1>1, <1>2, <2>1, <3>2, <3>3, Calls
  <2>2. CASE stack' = Tail(stack)
    BY <1>1, <1>2, <2>2, ReturnsTo
  <2>3. QED
    BY <2>1, <2>2, RecurseIs
<1>4. QED
  BY <1>1, <1>2, <1>3, Kept DEF InstallInv, Types

LEMMA PushKeeps ==
    ASSUME InstallInv, NEW r \in Repos, NEW up \in Published[r],
           PushElsewhere(r, up)
    PROVE  InstallInv'
<1>1. up \in Upstreams /\ tip[r][up] \in Nat
  <2>1. up \in Upstreams
    BY Constants
  <2>2. QED
    BY <2>1 DEF InstallInv, Types
<1>2. /\ tip' = [tip EXCEPT ![r] = [tip[r] EXCEPT ![up] = tip[r][up] + 1]]
      /\ clone' = clone /\ stack' = stack /\ partial' = partial
  BY DEF PushElsewhere
<1>3. tip \in [Repos -> [Upstreams -> Nat]]
  BY DEF InstallInv, Types
<1>4. tip' \in [Repos -> [Upstreams -> Nat]]
  <2>1. [tip[r] EXCEPT ![up] = tip[r][up] + 1] \in [Upstreams -> Nat]
    BY <1>1, <1>3
  <2>2. QED
    BY <1>2, <1>3, <2>1
<1>5. \A q \in Repos : \A u \in Upstreams : tip'[q][u] >= tip[q][u]
  <2> TAKE q \in Repos
  <2> TAKE u \in Upstreams
  <2>1. tip[q][u] \in Nat
    BY <1>3
  <2>2. tip'[q][u] = tip[q][u] \/ tip'[q][u] = tip[q][u] + 1
    BY <1>1, <1>2, <1>3
  <2>3. QED
    BY <2>1, <2>2
<1>6. ASSUME NEW q \in Repos, NEW u \in Published[q]
      PROVE  tip'[q][u] >= 1
  <2>1. u \in Upstreams
    BY Constants
  <2>2. /\ tip[q][u] \in Nat /\ tip'[q][u] \in Nat
        /\ tip[q][u] >= 1 /\ tip'[q][u] >= tip[q][u]
    BY <1>3, <1>4, <1>5, <2>1 DEF InstallInv
  <2>3. QED
    BY <2>2
<1>7. ASSUME NEW q \in Repos, clone[q] # Nil
      PROVE  Sound(q, clone[q], tip'[q])
  <2>1. Sound(q, clone[q], tip[q]) /\ clone[q] \in Clones
    BY <1>7 DEF InstallInv, Types, ClonesOK
  <2>2. ASSUME NEW u \in Published[q]
        PROVE  clone[q].track[u] <= tip'[q][u]
    <3>1. u \in Upstreams
      BY Constants
    <3>2. /\ tip[q][u] \in Nat /\ tip'[q][u] \in Nat /\ tip'[q][u] >= tip[q][u]
          /\ clone[q].track[u] \in Nat
      BY <1>3, <1>4, <1>5, <2>1, <3>1 DEF Clones
    <3>3. clone[q].track[u] <= tip[q][u]
      BY <2>1, <2>2 DEF Sound
    <3>4. QED
      BY <3>2, <3>3
  <2>3. QED
    BY <2>1, <2>2 DEF Sound
<1>8. ClonesOK'
  BY <1>2, <1>7 DEF ClonesOK
<1>9. StackOK'
  BY <1>2 DEF InstallInv, StackOK
<1>10. QED
  BY <1>2, <1>4, <1>6, <1>8, <1>9 DEF InstallInv, Types

\* What a developer makes of a clone: commits are added to the branch, changes
\* appear or go.
LEMMA WorkIs ==
    ASSUME InstallInv, NEW r \in Repos, Work(r)
    PROVE  /\ clone[r] # Nil /\ clone[r] \in Clones /\ clone'[r] \in Clones
           /\ Sound(r, clone'[r], tip[r])
           /\ clone' = [clone EXCEPT ![r] = clone'[r]]
           /\ clone'[r].head = clone[r].head
           /\ clone'[r].remotes = clone[r].remotes
           /\ clone'[r].track = clone[r].track
           /\ Here(clone'[r]) # Nil
           /\ Here(clone'[r]).up = Here(clone[r]).up
           /\ Here(clone'[r]).n = Here(clone[r]).n
           /\ tip' = tip /\ stack' = stack /\ partial' = partial
<1> DEFINE c == clone[r]
           h == c.head
           l == [c.local[h] EXCEPT !.own = TRUE]
<1>1. /\ c # Nil /\ c \in Clones /\ Sound(r, c, tip[r])
      /\ clone \in [Repos -> Clones \cup {Nil}]
      /\ tip' = tip /\ stack' = stack /\ partial' = partial
  BY DEF Work, InstallInv, Types, ClonesOK
<1>2. /\ h \in Locals /\ c.local \in [Locals -> Branch \cup {Nil}]
      /\ c.local[h] # Nil /\ c.local[h] \in Branch
  BY <1>1 DEF Clones, Sound, Here
<1>3. l \in Branch /\ l.up = c.local[h].up /\ l.n = c.local[h].n /\ l # Nil
  <2>1. l \in Branch /\ l.up = c.local[h].up /\ l.n = c.local[h].n
    BY <1>2 DEF Branch
  <2>2. QED
    BY <2>1, Constants
<1>4. CASE clone' = [clone EXCEPT ![r].dirty = TRUE]
  <2>1. clone' = [clone EXCEPT ![r] = [c EXCEPT !.dirty = TRUE]]
    BY <1>4
  <2>2. clone'[r] = [c EXCEPT !.dirty = TRUE]
    BY <1>1, <2>1
  <2>3. /\ clone'[r] \in Clones /\ clone'[r].head = h
        /\ clone'[r].remotes = c.remotes /\ clone'[r].track = c.track
        /\ clone'[r].local = c.local
    BY <1>1, <2>2 DEF Clones
  <2>4. Sound(r, clone'[r], tip[r])
    BY <1>1, <2>3 DEF Sound, Here
  <2>5. QED
    BY <1>1, <1>2, <2>1, <2>2, <2>3, <2>4 DEF Here
<1>5. CASE clone' = [clone EXCEPT ![r].dirty = FALSE,
                                  ![r].local[clone[r].head].own = TRUE]
  <2> DEFINE d == [[c EXCEPT !.dirty = FALSE] EXCEPT !.local =
                      [c.local EXCEPT ![h] = l]]
  <2>1. [c.local EXCEPT ![h] = l] \in [Locals -> Branch \cup {Nil}]
    BY <1>2, <1>3
  <2>2. /\ d \in Clones /\ d.head = h /\ d.remotes = c.remotes
        /\ d.track = c.track /\ d.local = [c.local EXCEPT ![h] = l]
    BY <1>1, <2>1 DEF Clones
  <2>3. clone' = [clone EXCEPT ![r] = d]
    <3>1. [c EXCEPT !.dirty = FALSE].local = c.local
      BY <1>1 DEF Clones
    <3>2. QED
      BY <1>1, <1>5, <3>1
  <2>4. clone'[r] = d
    BY <1>1, <2>3
  <2>5. \A b \in Locals : d.local[b] = IF b = h THEN l ELSE c.local[b]
    BY <1>2, <2>2
  <2>6. Here(d) = l
    BY <1>2, <2>2, <2>5 DEF Here
  <2>7. ASSUME NEW b \in Locals, d.local[b] # Nil, d.local[b].up # Nil
        PROVE  /\ d.local[b].up \in Published[r]
               /\ d.local[b].up[1] \in d.remotes
               /\ d.local[b].n \in 1..d.track[d.local[b].up]
               /\ LocalName(d.local[b].up) = b
    <3>1. /\ c.local[b] # Nil /\ d.local[b].up = c.local[b].up
          /\ d.local[b].n = c.local[b].n
      BY <1>2, <1>3, <2>5, <2>7
    <3>2. /\ c.local[b].up \in Published[r]
          /\ c.local[b].up[1] \in c.remotes
          /\ c.local[b].n \in 1..c.track[c.local[b].up]
          /\ LocalName(c.local[b].up) = b
      BY <1>1, <2>7, <3>1 DEF Sound
    <3>3. QED
      BY <2>2, <3>1, <3>2
  <2>8. Sound(r, d, tip[r])
    BY <1>1, <1>3, <2>2, <2>6, <2>7 DEF Sound
  <2>9. QED
    BY <1>1, <1>2, <1>3, <2>2, <2>3, <2>4, <2>6, <2>8 DEF Here
<1>6. QED
  BY <1>4, <1>5 DEF Work

LEMMA WorkKeeps ==
    ASSUME InstallInv, NEW r \in Repos, Work(r) PROVE InstallInv'
<1>1. /\ clone[r] # Nil /\ clone'[r] \in Clones
      /\ Sound(r, clone'[r], tip[r])
      /\ clone' = [clone EXCEPT ![r] = clone'[r]]
      /\ clone'[r].remotes = clone[r].remotes
      /\ clone'[r].track = clone[r].track
      /\ Here(clone'[r]).up = Here(clone[r]).up
      /\ tip' = tip /\ stack' = stack /\ partial' = partial
  BY WorkIs
<1>2. /\ clone' \in [Repos -> Clones \cup {Nil}] /\ clone'[r] # Nil /\ ClonesOK'
  BY <1>1, SetClone DEF Keeps, Seen
<1>3. \A q \in Repos \ {r} : clone'[q] = clone[q]
  BY <1>1 DEF InstallInv, Types
<1>4. ASSUME NEW i \in DOMAIN stack
      PROVE  FrameOK(stack[i], clone'[stack[i].repo])
  <2>1. stack[i].repo \in Repos /\ FrameOK(stack[i], clone[stack[i].repo])
    BY InFrames DEF InstallInv, StackOK
  <2>2. QED
    BY <1>1, <1>2, <1>3, <2>1 DEF FrameOK, Seen
<1>5. StackOK'
  BY <1>1, <1>4 DEF InstallInv, StackOK
<1>6. QED
  BY <1>1, <1>2, <1>5, Kept DEF InstallInv, Types

LEMMA CheckoutKeeps ==
    ASSUME InstallInv, NEW r \in Repos, NEW b \in Locals, Checkout(r, b)
    PROVE  InstallInv'
<1> DEFINE c == clone[r]
           l == IF c.local[b] = Nil THEN [Here(c) EXCEPT !.up = Nil]
                ELSE c.local[b]
           d == [[c EXCEPT !.head = b] EXCEPT !.local = [c.local EXCEPT ![b] = l]]
<1>1. /\ c # Nil /\ c \in Clones /\ Sound(r, c, tip[r])
      /\ clone \in [Repos -> Clones \cup {Nil}]
      /\ tip' = tip /\ stack' = stack /\ partial' = partial /\ stack = <<>>
  BY DEF Checkout, InstallInv, Types, ClonesOK, Idle
<1>2. /\ c.head \in Locals /\ c.local \in [Locals -> Branch \cup {Nil}]
      /\ Here(c) # Nil /\ Here(c) \in Branch
  BY <1>1 DEF Clones, Sound, Here
<1>3. l \in Branch /\ l # Nil /\ (l.up = Nil \/ l = c.local[b])
  <2>1. CASE c.local[b] = Nil
    <3>1. l = [Here(c) EXCEPT !.up = Nil]
      BY <2>1
    <3>2. l \in Branch /\ l.up = Nil
      BY <1>2, <3>1 DEF Branch
    <3>3. QED
      BY <3>2, Constants
  <2>2. CASE c.local[b] # Nil
    BY <1>2, <2>2
  <2>3. QED
    BY <2>1, <2>2
<1>4. [c.local EXCEPT ![b] = l] \in [Locals -> Branch \cup {Nil}]
  BY <1>2, <1>3
<1>5. /\ d \in Clones /\ d.head = b /\ d.remotes = c.remotes
      /\ d.track = c.track /\ d.local = [c.local EXCEPT ![b] = l]
  BY <1>1, <1>4 DEF Clones
<1>6. clone' = [clone EXCEPT ![r] = d]
  <2>1. [c EXCEPT !.head = b].local = c.local
    BY <1>1 DEF Clones
  <2>2. QED
    BY <1>1, <2>1 DEF Checkout
<1>7. \A a \in Locals : d.local[a] = IF a = b THEN l ELSE c.local[a]
  BY <1>2, <1>5
<1>8. Here(d) # Nil
  BY <1>3, <1>5, <1>7 DEF Here
<1>9. ASSUME NEW a \in Locals, d.local[a] # Nil, d.local[a].up # Nil
      PROVE  d.local[a] = c.local[a]
  BY <1>3, <1>7, <1>9
<1>10. Sound(r, d, tip[r])
  BY <1>1, <1>5, <1>8, <1>9 DEF Sound
<1>11. clone' \in [Repos -> Clones \cup {Nil}] /\ ClonesOK'
  BY <1>1, <1>5, <1>6, <1>10, SetClone DEF Keeps, Seen
<1>12. StackOK'
  BY <1>1 DEF StackOK
<1>13. QED
  BY <1>1, <1>11, <1>12, Kept DEF InstallInv, Types

LEMMA InstallNext == InstallInv /\ [Next]_vars => InstallInv'
<1> SUFFICES ASSUME InstallInv, [Next]_vars PROVE InstallInv'
  OBVIOUS
<1>1. CASE UNCHANGED vars
  BY <1>1 DEF vars, InstallInv, Types, ClonesOK, StackOK
<1>2. CASE \E q \in Requests : Request(q)
  BY <1>2, RequestKeeps
<1>3. CASE Step
  BY <1>3, CloneKeeps, FetchKeeps, DirtyKeeps, TrackingKeeps, StatusKeeps,
     SettingsKeeps, RecurseKeeps DEF Step
<1>4. CASE Answer
  BY <1>4, SwitchKeeps, PullKeeps, SkipKeeps DEF Answer
<1>5. CASE Fail
  BY <1>5, JustThrows DEF Fail
<1>6. CASE \E r \in Repos : \E up \in Published[r] : PushElsewhere(r, up)
  BY <1>6, PushKeeps
<1>7. CASE \E r \in Developed : Work(r) \/ \E b \in Locals : Checkout(r, b)
  BY <1>7, WorkKeeps, CheckoutKeeps, Constants
<1>8. QED
  BY <1>1, <1>2, <1>3, <1>4, <1>5, <1>6, <1>7 DEF Next

LEMMA InstallInvariant == Spec => []InstallInv
BY InstallInit, InstallNext, PTL DEF Spec

\* Type correctness: sv install never looks at a clone that is not there, a
\* branch that it has not fetched or a remote that it has not added.
THEOREM TypeCorrect == Spec => []TypeOK
<1>1. InstallInv => TypeOK
  BY DEF InstallInv, Types, ClonesOK, StackOK, Sound, FrameOK, TypeOK
<1>2. QED
  BY <1>1, InstallInvariant, PTL
-----------------------------------------------------------------------------
\* What the developer has done in clone c is in clone d as well.
HasWorkOf(d, c) ==
    /\ c.dirty => d.dirty
    /\ \A b \in Locals : c.local[b] # Nil /\ c.local[b].own =>
          d.local[b] # Nil /\ d.local[b].own

LEMMA RepoKeepsWork ==
    ASSUME InstallInv, stack # <<>>, Repo # Nil, NEW d, HasWorkOf(d, Repo),
           SetRepo(d)
    PROVE  WorkKeptStep
<1>1. Top.repo \in Repos /\ clone \in [Repos -> Clones \cup {Nil}]
  BY TopFacts DEF InstallInv, Types
<1>2. \A r \in Repos : clone'[r] = IF r = Top.repo THEN d ELSE clone[r]
  BY <1>1 DEF SetRepo
<1>3. QED
  BY <1>2 DEF HasWorkOf, WorkKeptStep, Repo

LEMMA SameKeepsWork == ASSUME clone' = clone PROVE WorkKeptStep
BY DEF WorkKeptStep

LEMMA PulledHasWork ==
    ASSUME InstallInv, stack # <<>>, Repo # Nil, Here(Repo).up # Nil
    PROVE  HasWorkOf(Pulled, Repo)
<1>1. /\ Pulled.head = Repo.head /\ Pulled.dirty = Repo.dirty
      /\ \A b \in Locals \ {Repo.head} : Pulled.local[b] = Repo.local[b]
      /\ Here(Pulled).own = Here(Repo).own /\ Here(Pulled) # Nil
  BY PulledIsSound
<1>2. QED
  BY <1>1 DEF HasWorkOf, Here

\* sv install never checks out, pulls or clones over what a developer has done,
\* whenever it was done: the two prompts wait for as long as one likes.
THEOREM WorkIsKept == Spec => WorkKept
<1>1. ASSUME InstallInv, [Next]_vars PROVE [WorkKeptStep]_vars
  <2>1. CASE UNCHANGED vars
    BY <2>1
  <2>2. CASE Next
    <3>1. CASE clone' = clone
      BY <3>1, SameKeepsWork
    <3>2. CASE stack' = stack
      BY <3>2 DEF WorkKeptStep
    <3>3. CASE Clone
      <4>1. CASE Repo = Nil
        <5>1. /\ clone' = [clone EXCEPT ![Top.repo] = Cloned(Top.repo)]
              /\ clone[Top.repo] = Nil
          BY <3>3, <4>1 DEF Clone, SetRepo, Repo
        <5>2. \A r \in Repos : clone[r] # Nil => clone'[r] = clone[r]
          BY <1>1, <5>1 DEF InstallInv, Types
        <5>3. QED
          BY <5>2 DEF WorkKeptStep
      <4>2. CASE Repo # Nil
        BY <3>1, <3>3, <4>2 DEF Clone
      <4>3. QED
        BY <4>1, <4>2
    <3>4. CASE Fetch
      <4>1. /\ stack # <<>> /\ Repo # Nil
            /\ SetRepo(Reached) \/ SetRepo(Added) \/ clone' = clone
        BY <1>1, <3>4, FetchIs
      <4>2. HasWorkOf(Reached, Repo) /\ HasWorkOf(Added, Repo)
        BY <1>1, <4>1, ReachedIsSound, AddedIsSound DEF HasWorkOf
      <4>3. QED
        BY <1>1, <3>1, <4>1, <4>2, RepoKeepsWork
    <3>5. CASE Switch
      <4>1. /\ stack # <<>> /\ Repo # Nil /\ Seen(Top.repo, Repo, Top.up)
            /\ \/ Creatable /\ (SetRepo(Switched) \/ SetRepo(Created(Repo)))
               \/ clone' = clone
        BY <1>1, <3>5, SwitchIs
      <4>2. Creatable => /\ HasWorkOf(Switched, Repo)
                         /\ HasWorkOf(Created(Repo), Repo)
        BY <1>1, <4>1, SwitchedIsSound, CreatedIsSound DEF HasWorkOf
      <4>3. QED
        BY <1>1, <3>1, <4>1, <4>2, RepoKeepsWork
    <3>6. CASE Pull
      <4>1. /\ stack # <<>> /\ Repo # Nil /\ Here(Repo).up # Nil
            /\ SetRepo(Pulled) \/ SetRepo(Refetched) \/ SetRepo(Merging)
        BY <1>1, <3>6, PullIs
      <4>2. /\ HasWorkOf(Pulled, Repo) /\ HasWorkOf(Refetched, Repo)
            /\ HasWorkOf(Merging, Repo)
        BY <1>1, <4>1, PulledHasWork, RefetchedIsSound, MergingIsSound
           DEF HasWorkOf
      <4>3. QED
        BY <1>1, <4>1, <4>2, RepoKeepsWork
    <3>7. CASE \/ \E q \in Requests : Request(q)
               \/ Dirty \/ Tracking \/ Status \/ LoadSettings \/ Recurse
               \/ Skip \/ Fail
      BY <3>1, <3>7 DEF Request, Dirty, Tracking, Status, LoadSettings, Recurse,
         Skip, Fail
    <3>8. CASE \/ \E r \in Repos : \E up \in Published[r] : PushElsewhere(r, up)
               \/ \E r \in Developed : Work(r) \/ \E b \in Locals : Checkout(r, b)
      BY <3>2, <3>8 DEF PushElsewhere, Work, Checkout
    <3>9. QED
      BY <2>2, <3>3, <3>4, <3>5, <3>6, <3>7, <3>8 DEF Next, Step, Answer
  <2>3. QED
    BY <1>1, <2>1, <2>2
<1>2. QED
  BY <1>1, InstallInvariant, PTL DEF Spec, WorkKept
-----------------------------------------------------------------------------
\* No application needs itself, not even through others: there are ranks that
\* go down from what needs to what is needed.
Ranks(rank) ==
    \A r \in Repos, up \in Upstreams : \A k \in DOMAIN Deps[r, up] :
        rank[Deps[r, up][k].repo] < rank[r]
Acyclic == \E rank \in [Repos -> Nat] : Ranks(rank)

\* Then no repository is installed from within its own install.
Below(rank, f) == \A k \in DOMAIN f.todo : rank[f.todo[k].repo] < rank[f.repo]
RankOK(rank) ==
    /\ \A i, j \in DOMAIN stack :
          i < j => rank[stack[i].repo] < rank[stack[j].repo]
    /\ \A i \in DOMAIN stack : Below(rank, stack[i])

\* What an invocation has achieved by each of its steps.
Placed(c, up) == c # Nil /\ c.head = LocalName(up) /\ Here(c).up # Nil
UpToDate(c) == Here(c).n = c.track[Here(c).up]
Stage(f, c) ==
    /\ f.pc = "status" => c.head = LocalName(f.up)
    /\ f.pc \in {"pull", "settings", "deps"} => Placed(c, f.up)
    /\ f.pc \in {"settings", "deps"} => UpToDate(c)
StageOK == \A i \in DOMAIN stack : Stage(stack[i], clone[stack[i].repo])

PlaceInv(rank) == InstallInv /\ RankOK(rank) /\ (~partial => StageOK)

LEMMA OthersStay ==
    ASSUME InstallInv, NEW rank \in [Repos -> Nat], RankOK(rank), stack # <<>>
    PROVE  \A i \in 2..Len(stack) :
              i \in DOMAIN stack /\ stack[i].repo \in Repos \ {Top.repo}
<1> TAKE i \in 2..Len(stack)
<1>1. /\ 1 \in DOMAIN stack /\ i \in DOMAIN stack /\ 1 < i /\ Top = stack[1]
  BY TopType DEF InstallInv
<1>2. stack[i].repo \in Repos /\ Top.repo \in Repos
  BY <1>1, InFrames DEF InstallInv
<1>3. rank[Top.repo] < rank[stack[i].repo] /\ rank[Top.repo] \in Nat
  BY <1>1, <1>2 DEF RankOK
<1>4. QED
  BY <1>1, <1>2, <1>3

LEMMA RankSteps ==
    ASSUME InstallInv, NEW rank \in [Repos -> Nat], RankOK(rank), stack # <<>>,
           NEW f \in Frames, f.repo = Top.repo, Below(rank, f),
           stack' = <<f>> \o Tail(stack)
    PROVE  RankOK(rank)'
<1>1. stack \in Seq(Frames)
  BY DEF InstallInv, Types
<1>2. /\ stack' \in Seq(Frames) /\ Len(stack') = Len(stack) /\ stack'[1] = f
      /\ \A i \in 2..Len(stack) : stack'[i] = stack[i]
  BY <1>1, Replaced
<1>3. Top = stack[1] /\ DOMAIN stack = 1..Len(stack) /\ DOMAIN stack' = 1..Len(stack)
      /\ Len(stack) \in Nat
  BY <1>1, <1>2, TopType DEF InstallInv
<1>4. \A i \in DOMAIN stack' : stack'[i].repo = stack[i].repo /\ i \in DOMAIN stack
  BY <1>2, <1>3
<1>5. \A i \in DOMAIN stack' : Below(rank, stack'[i])
  BY <1>2, <1>3 DEF RankOK
<1>6. QED
  BY <1>4, <1>5 DEF RankOK

LEMMA RankGoes ==
    ASSUME InstallInv, NEW rank \in [Repos -> Nat], RankOK(rank), stack # <<>>,
           NEW label \in Labels, Goto(label)
    PROVE  RankOK(rank)'
<1> DEFINE f == [Top EXCEPT !.pc = label]
<1>1. f \in Frames /\ f.repo = Top.repo /\ f.todo = Top.todo
  BY TopFacts DEF Frames
<1>2. Below(rank, Top)
  BY TopType DEF InstallInv, RankOK
<1>3. Below(rank, f)
  BY <1>1, <1>2 DEF Below
<1>4. QED
  BY <1>1, <1>3, RankSteps DEF Goto

LEMMA RankPops ==
    ASSUME InstallInv, NEW rank \in [Repos -> Nat], RankOK(rank), stack # <<>>,
           stack' = Tail(stack)
    PROVE  RankOK(rank)'
<1>1. stack \in Seq(Frames)
  BY DEF InstallInv, Types
<1>2. /\ stack' \in Seq(Frames) /\ Len(stack') = Len(stack) - 1
      /\ \A i \in 1..Len(stack') : stack'[i] = stack[i + 1]
  BY <1>1, Popped
<1>3. /\ DOMAIN stack = 1..Len(stack) /\ DOMAIN stack' = 1..Len(stack')
      /\ Len(stack) \in Nat
  BY <1>1, <1>2
<1>4. \A i \in DOMAIN stack' : i + 1 \in DOMAIN stack /\ stack'[i] = stack[i + 1]
  BY <1>2, <1>3
<1>5. ASSUME NEW i \in DOMAIN stack', NEW j \in DOMAIN stack', i < j
      PROVE  rank[stack'[i].repo] < rank[stack'[j].repo]
  <2>1. i + 1 < j + 1
    BY <1>3, <1>5
  <2>2. QED
    BY <1>4, <2>1 DEF RankOK
<1>6. QED
  BY <1>4, <1>5 DEF RankOK

LEMMA RankCalls ==
    ASSUME InstallInv, NEW rank \in [Repos -> Nat], RankOK(rank), stack # <<>>,
           NEW f \in Frames, f.repo = Top.repo, Below(rank, f),
           NEW g \in Frames, rank[g.repo] < rank[f.repo], Below(rank, g),
           stack' = <<g, f>> \o Tail(stack)
    PROVE  RankOK(rank)'
<1>1. stack \in Seq(Frames)
  BY DEF InstallInv, Types
<1>2. /\ stack' \in Seq(Frames) /\ Len(stack') = Len(stack) + 1
      /\ stack'[1] = g /\ stack'[2] = f
      /\ \A i \in 3..Len(stack) + 1 : stack'[i] = stack[i - 1]
  BY <1>1, Pushed
<1>3. Top = stack[1] /\ DOMAIN stack = 1..Len(stack)
      /\ DOMAIN stack' = 1..Len(stack) + 1 /\ Len(stack) \in Nat /\ Len(stack) >= 1
  BY <1>1, <1>2, TopType DEF InstallInv
<1>4. \A i \in 2..Len(stack) + 1 :
          i - 1 \in DOMAIN stack /\ stack'[i].repo = stack[i - 1].repo
  BY <1>2, <1>3
<1>5. /\ g.repo \in Repos /\ f.repo \in Repos
      /\ \A i \in DOMAIN stack : stack[i].repo \in Repos
  BY InFrames DEF Frames, InstallInv
<1>6. \A i \in DOMAIN stack : rank[f.repo] <= rank[stack[i].repo]
  <2> TAKE i \in DOMAIN stack
  <2>1. rank[f.repo] \in Nat /\ rank[stack[i].repo] \in Nat
    BY <1>5
  <2>2. CASE i = 1
    BY <1>3, <2>1, <2>2
  <2>3. CASE i # 1
    <3>1. 1 \in DOMAIN stack /\ 1 < i
      BY <1>3, <2>3
    <3>2. rank[stack[1].repo] < rank[stack[i].repo]
      BY <3>1 DEF RankOK
    <3>3. rank[f.repo] < rank[stack[i].repo]
      BY <1>3, <3>2
    <3>4. QED
      BY <2>1, <3>3
  <2>4. QED
    BY <2>2, <2>3
<1>7. ASSUME NEW i \in DOMAIN stack', NEW j \in DOMAIN stack', i < j
      PROVE  rank[stack'[i].repo] < rank[stack'[j].repo]
  <2>1. j \in 2..Len(stack) + 1
    BY <1>3, <1>7
  <2>2. j - 1 \in DOMAIN stack /\ stack'[j].repo = stack[j - 1].repo
    BY <1>4, <2>1
  <2>3. CASE i = 1
    <3>1. /\ rank[g.repo] \in Nat /\ rank[f.repo] \in Nat
          /\ rank[stack[j - 1].repo] \in Nat
      BY <1>5, <2>2
    <3>2. QED
      BY <1>2, <1>6, <2>2, <2>3, <3>1
  <2>4. CASE i # 1
    <3>1. i \in 2..Len(stack) + 1 /\ i - 1 < j - 1
      BY <1>3, <1>7, <2>4
    <3>2. QED
      BY <1>4, <2>2, <3>1 DEF RankOK
  <2>5. QED
    BY <2>3, <2>4
<1>8. ASSUME NEW i \in DOMAIN stack' PROVE Below(rank, stack'[i])
  <2>1. CASE i = 1
    BY <1>2, <2>1
  <2>2. CASE i = 2
    BY <1>2, <2>2
  <2>3. CASE i \in 3..Len(stack) + 1
    <3>1. stack'[i] = stack[i - 1] /\ i - 1 \in DOMAIN stack
      BY <1>2, <1>3, <2>3
    <3>2. QED
      BY <3>1 DEF RankOK
  <2>4. QED
    BY <1>3, <2>1, <2>2, <2>3
<1>9. QED
  BY <1>7, <1>8 DEF RankOK

LEMMA SettingsBelow ==
    ASSUME InstallInv, NEW rank \in [Repos -> Nat], Ranks(rank), stack # <<>>,
           Repo \in Clones, Here(Repo).up # Nil
    PROVE  \A k \in DOMAIN SettingsDeps :
              rank[SettingsDeps[k].repo] < rank[Top.repo]
<1>1. CASE Top.repo[1] = "app" /\ Top.deps
  <2>1. Top.repo \in Repos /\ Here(Repo).up \in Upstreams
    BY TopFacts, HereUp, Constants DEF Sound
  <2>2. SettingsDeps = Deps[Top.repo, Here(Repo).up]
    BY <1>1 DEF SettingsDeps
  <2>3. QED
    BY <2>1, <2>2 DEF Ranks
<1>2. CASE ~(Top.repo[1] = "app" /\ Top.deps)
  <2>1. SettingsDeps = <<>>
    BY <1>2 DEF SettingsDeps
  <2>2. QED
    BY <2>1
<1>3. QED
  BY <1>1, <1>2

LEMMA SettingsIs ==
    ASSUME InstallInv, LoadSettings
    PROVE  /\ stack # <<>> /\ Top.pc = "settings" /\ tip' = tip
           /\ clone' = clone /\ partial' = partial
           /\ Repo \in Clones /\ Here(Repo).up # Nil
           /\ \E f \in Frames :
                 /\ f.pc = "deps" /\ f.repo = Top.repo /\ f.up = Top.up
                 /\ f.deps = Top.deps /\ f.todo = SettingsDeps
                 /\ stack' = <<f>> \o Tail(stack)
<1> DEFINE f == [Top EXCEPT !.todo = SettingsDeps, !.pc = "deps"]
<1>1. /\ stack # <<>> /\ Top.pc = "settings" /\ tip' = tip /\ clone' = clone
      /\ partial' = partial /\ stack' = <<f>> \o Tail(stack)
  BY DEF LoadSettings, At, Idle
<1>2. Repo \in Clones /\ Here(Repo).up # Nil
  BY <1>1, TopFacts DEF FrameOK
<1>3. SettingsDeps \in Seq(Dependencies)
  BY SettingsType, <1>1, <1>2
<1>4. /\ f \in Frames /\ f.pc = "deps" /\ f.repo = Top.repo /\ f.up = Top.up
      /\ f.deps = Top.deps /\ f.todo = SettingsDeps
  BY <1>1, <1>3, TopFacts DEF Frames, Labels
<1>5. QED
  BY <1>1, <1>2, <1>4

\* What a step makes of the stack.
LEMMA Moves ==
    ASSUME InstallInv, Next
    PROVE  \/ stack' = stack \/ stack' = <<>>
           \/ \E label \in Labels : stack # <<>> /\ Goto(label)
           \/ stack # <<>> /\ stack' = Tail(stack)
           \/ \E q \in Requests : Request(q)
           \/ LoadSettings \/ Recurse
<1>1. CASE Clone \/ Tracking \/ Status \/ Skip
  <2>1. {"fetch", "status", "switch", "settings", "pull"} \subseteq Labels
    BY DEF Labels
  <2>2. /\ stack # <<>>
        /\ \/ Throw \/ Goto("fetch") \/ Goto("status") \/ Goto("switch")
           \/ Goto("settings") \/ Goto("pull")
    BY <1>1 DEF Clone, Tracking, Status, Skip, At, Idle
  <2>3. QED
    BY <2>1, <2>2 DEF Throw
<1>2. CASE Fetch \/ Switch \/ Pull
  <2>1. {"check", "status", "settings"} \subseteq Labels
    BY DEF Labels
  <2>2. /\ stack # <<>>
        /\ Throw \/ Goto("check") \/ Goto("status") \/ Goto("settings")
    BY <1>2, FetchIs, SwitchIs, PullIs
  <2>3. QED
    BY <2>1, <2>2 DEF Throw
<1>3. CASE Dirty \/ Fail
  BY <1>3 DEF Dirty, Fail, At, Idle, Throw
<1>4. CASE \/ \E r \in Repos : \E up \in Published[r] : PushElsewhere(r, up)
           \/ \E r \in Developed : Work(r) \/ \E b \in Locals : Checkout(r, b)
  BY <1>4 DEF PushElsewhere, Work, Checkout
<1>5. QED
  BY <1>1, <1>2, <1>3, <1>4 DEF Next, Step, Answer

LEMMA RankNext ==
    ASSUME InstallInv, NEW rank \in [Repos -> Nat], Ranks(rank), RankOK(rank),
           Next
    PROVE  RankOK(rank)'
<1>1. CASE stack' = stack
  BY <1>1 DEF RankOK
<1>2. CASE stack' = <<>>
  BY <1>2 DEF RankOK
<1>3. CASE \E label \in Labels : stack # <<>> /\ Goto(label)
  BY <1>3, RankGoes
<1>4. CASE stack # <<>> /\ stack' = Tail(stack)
  BY <1>4, RankPops
<1>5. ASSUME NEW q \in Requests, Request(q) PROVE RankOK(rank)'
  <2> DEFINE f == Frame(q.repo, q.up, q.deps)
  <2>1. stack' = <<f>> /\ f.todo = <<>>
    BY <1>5 DEF Request, Frame
  <2>2. DOMAIN stack' = {1} /\ stack'[1] = f
    BY <2>1
  <2>3. Below(rank, f)
    BY <2>1 DEF Below
  <2>4. QED
    BY <2>2, <2>3 DEF RankOK
<1>6. CASE LoadSettings
  <2>1. stack # <<>> /\ Repo \in Clones /\ Here(Repo).up # Nil
    BY <1>6, SettingsIs
  <2>2. PICK f \in Frames : /\ f.repo = Top.repo /\ f.todo = SettingsDeps
                            /\ stack' = <<f>> \o Tail(stack)
    BY <1>6, SettingsIs
  <2>3. Below(rank, f)
    BY <2>1, <2>2, SettingsBelow DEF Below
  <2>4. QED
    BY <2>1, <2>2, <2>3, RankSteps
<1>7. CASE Recurse
  <2>1. CASE stack' = Tail(stack)
    BY <1>4, <1>7, <2>1, RecurseIs
  <2>2. CASE stack' # Tail(stack)
    <3> DEFINE d == Head(Top.todo)
               g == Child(d)
    <3>1. /\ stack # <<>> /\ Top.todo # <<>> /\ d \in Dependencies
          /\ Rest \in Frames /\ Rest.repo = Top.repo
          /\ Rest.todo = Tail(Top.todo)
          /\ stack' = <<g, Rest>> \o Tail(stack)
      BY <1>7, <2>2, RecurseIs
    <3>2. g \in Frames /\ g.repo = d.repo /\ g.todo = <<>>
      BY <3>1, ChildType
    <3>3. Below(rank, Top) /\ Top.todo \in Seq(Dependencies)
      BY <3>1, TopType, TopFacts DEF InstallInv, RankOK
    <3>4. /\ d = Top.todo[1] /\ 1 \in DOMAIN Top.todo
          /\ \A k \in DOMAIN Tail(Top.todo) :
                k + 1 \in DOMAIN Top.todo /\ Tail(Top.todo)[k] = Top.todo[k + 1]
      BY <3>1, <3>3
    <3>5. Below(rank, Rest) /\ Below(rank, g) /\ rank[g.repo] < rank[Rest.repo]
      BY <3>1, <3>2, <3>3, <3>4 DEF Below
    <3>6. QED
      BY <3>1, <3>2, <3>5, RankCalls
  <2>3. QED
    BY <2>1, <2>2
<1>8. QED
  BY <1>1, <1>2, <1>3, <1>4, <1>5, <1>6, <1>7, Moves

\* A step of the innermost invocation leaves the other clones alone.
Elsewhere == \A r \in Repos : r # Top.repo => clone'[r] = clone[r]

LEMMA OnlyTop ==
    ASSUME InstallInv, stack # <<>>, NEW c, SetRepo(c)
    PROVE  Elsewhere /\ clone'[Top.repo] = c
BY TopFacts DEF SetRepo, Elsewhere, InstallInv, Types

LEMMA StageSteps ==
    ASSUME InstallInv, NEW rank \in [Repos -> Nat], RankOK(rank), StageOK,
           stack # <<>>, Elsewhere,
           NEW f \in Frames, f.repo = Top.repo, Stage(f, clone'[Top.repo]),
           stack' = <<f>> \o Tail(stack)
    PROVE  StageOK'
<1>1. stack \in Seq(Frames)
  BY DEF InstallInv, Types
<1>2. /\ stack' \in Seq(Frames) /\ Len(stack') = Len(stack) /\ stack'[1] = f
      /\ \A i \in 2..Len(stack) : stack'[i] = stack[i]
  BY <1>1, Replaced
<1>3. ASSUME NEW i \in DOMAIN stack'
      PROVE  Stage(stack'[i], clone'[stack'[i].repo])
  <2>1. i = 1 \/ i \in 2..Len(stack)
    BY <1>1, <1>2
  <2>2. CASE i = 1
    BY <1>2, <2>2
  <2>3. CASE i \in 2..Len(stack)
    <3>1. /\ stack'[i] = stack[i] /\ i \in DOMAIN stack
          /\ stack[i].repo \in Repos \ {Top.repo}
      BY <1>2, <2>3, OthersStay
    <3>2. clone'[stack[i].repo] = clone[stack[i].repo]
      BY <3>1 DEF Elsewhere
    <3>3. QED
      BY <3>1, <3>2 DEF StageOK
  <2>4. QED
    BY <2>1, <2>2, <2>3
<1>4. QED
  BY <1>3 DEF StageOK

LEMMA StageGoes ==
    ASSUME InstallInv, NEW rank \in [Repos -> Nat], RankOK(rank), StageOK,
           stack # <<>>, Elsewhere, NEW label \in Labels, Goto(label),
           label \in {"status", "pull", "settings"} =>
               clone'[Top.repo].head = LocalName(Top.up),
           label \in {"pull", "settings"} =>
               clone'[Top.repo] # Nil /\ Here(clone'[Top.repo]).up # Nil,
           label = "settings" => UpToDate(clone'[Top.repo]),
           label # "deps"
    PROVE  StageOK'
<1> DEFINE f == [Top EXCEPT !.pc = label]
<1>1. f \in Frames /\ f.pc = label /\ f.repo = Top.repo /\ f.up = Top.up
  BY TopFacts DEF Frames
<1>2. Stage(f, clone'[Top.repo])
  BY <1>1 DEF Stage, Placed
<1>3. QED
  BY <1>1, <1>2, StageSteps DEF Goto

LEMMA TopStage ==
    ASSUME InstallInv, StageOK, stack # <<>>
    PROVE  Stage(Top, Repo)
BY TopType DEF InstallInv, StageOK, Repo

LEMMA StageNext ==
    ASSUME InstallInv, NEW rank \in [Repos -> Nat], Ranks(rank), RankOK(rank),
           ~partial => StageOK, Next, ~partial'
    PROVE  StageOK'
<1>1. CASE stack' = <<>>
  BY <1>1 DEF StageOK
<1>2. ASSUME NEW q \in Requests, Request(q) PROVE StageOK'
  <2> DEFINE f == Frame(q.repo, q.up, q.deps)
  <2>1. stack' = <<f>> /\ f.pc = "clone"
    BY <1>2 DEF Request, Frame
  <2>2. DOMAIN stack' = {1} /\ stack'[1] = f
    BY <2>1
  <2>3. QED
    BY <2>1, <2>2 DEF StageOK, Stage
<1>3. CASE ~(\E q \in Requests : Request(q))
  <2>1. StageOK
    BY <1>3 DEF Next, Step, Answer, Clone, Fetch, Dirty, Tracking, Status,
       LoadSettings, Recurse, Switch, Pull, Skip, Fail, PushElsewhere, Work,
       Checkout
  <2>2. {"fetch", "check", "status", "switch", "settings", "pull"} \subseteq Labels
    BY DEF Labels
  <2>3. CASE Clone
    <3>1. stack # <<>> /\ Goto("fetch")
      BY <2>3 DEF Clone, At, Idle
    <3>2. Elsewhere
      BY <2>3, <3>1, OnlyTop DEF Clone, Elsewhere
    <3>3. QED
      BY <2>1, <2>2, <3>1, <3>2, StageGoes
  <2>4. CASE Fetch
    <3>1. CASE SetRepo(Reached) /\ Goto("check")
      <4>1. stack # <<>> /\ Elsewhere
        BY <2>4, <3>1, FetchIs, OnlyTop
      <4>2. QED
        BY <2>1, <2>2, <3>1, <4>1, StageGoes
    <3>2. QED
      BY <1>1, <2>4, <3>1, FetchIs DEF Throw
  <2>5. CASE Tracking
    <3>1. stack # <<>> /\ clone' = clone /\ Top.pc = "check"
      BY <2>5 DEF Tracking, At, Idle
    <3>2. \/ Throw \/ Goto("switch")
          \/ Goto("status") /\ Here(Repo).up # Nil /\ Here(Repo).up = Top.up
      BY <2>5 DEF Tracking
    <3>3. Elsewhere /\ clone'[Top.repo] = Repo
      BY <3>1 DEF Elsewhere, Repo
    <3>4. ASSUME Here(Repo).up # Nil PROVE Repo.head = LocalName(Here(Repo).up)
      <4>1. Repo \in Clones /\ Sound(Top.repo, Repo, tip[Top.repo])
        BY <3>1, TopFacts DEF FrameOK
      <4>2. Repo.head \in Locals
        BY <4>1 DEF Clones
      <4>3. QED
        BY <3>4, <4>1, <4>2 DEF Sound, Here
    <3>5. QED
      BY <1>1, <2>1, <2>2, <3>1, <3>2, <3>3, <3>4, StageGoes DEF Throw
  <2>6. CASE Switch
    <3>1. CASE Creatable /\ SetRepo(Switched) /\ Goto("status")
      <4>1. stack # <<>> /\ Elsewhere /\ clone'[Top.repo] = Switched
        BY <2>6, <3>1, SwitchIs, OnlyTop
      <4>2. Switched.head = LocalName(Top.up)
        BY <2>6, <3>1, SwitchIs, SwitchedIsSound
      <4>3. QED
        BY <2>1, <2>2, <3>1, <4>1, <4>2, StageGoes
    <3>2. QED
      BY <1>1, <2>6, <3>1, SwitchIs DEF Throw
  <2>7. CASE Status
    <3>1. stack # <<>> /\ clone' = clone /\ Top.pc = "status"
      BY <2>7 DEF Status, At, Idle
    <3>2. \/ Throw
          \/ /\ Here(Repo).up # Nil
             /\ \/ Goto("pull")
                \/ Goto("settings") /\ GitStatus(Repo) = "equal"
      BY <2>7 DEF Status
    <3>3. GitStatus(Repo) = "equal" => UpToDate(Repo)
      BY DEF GitStatus, UpToDate
    <3>4. Repo.head = LocalName(Top.up) /\ Repo # Nil
      BY <2>1, <3>1, TopStage, TopFacts DEF Stage, FrameOK
    <3>5. Elsewhere /\ clone'[Top.repo] = Repo
      BY <3>1 DEF Elsewhere, Repo
    <3>6. QED
      BY <1>1, <2>1, <2>2, <3>1, <3>2, <3>3, <3>4, <3>5, StageGoes DEF Throw
  <2>8. CASE Pull
    <3>1. CASE SetRepo(Pulled) /\ Goto("settings")
      <4>1. /\ stack # <<>> /\ Top.pc = "pull" /\ Repo # Nil
            /\ Here(Repo).up # Nil
        BY <2>8, PullIs
      <4>2. Elsewhere /\ clone'[Top.repo] = Pulled
        BY <3>1, <4>1, OnlyTop
      <4>3. /\ Pulled.head = Repo.head /\ Here(Pulled).up # Nil
            /\ Pulled # Nil /\ UpToDate(Pulled)
        BY <4>1, PulledIsSound, Constants DEF UpToDate
      <4>4. Repo.head = LocalName(Top.up)
        BY <2>1, <4>1, TopStage DEF Stage, Placed
      <4>5. QED
        BY <2>1, <2>2, <3>1, <4>1, <4>2, <4>3, <4>4, StageGoes
    <3>2. QED
      BY <1>1, <2>8, <3>1, PullIs DEF Throw
  <2>9. CASE LoadSettings
    <3>1. stack # <<>> /\ clone' = clone /\ Top.pc = "settings"
      BY <2>9, SettingsIs
    <3>2. PICK f \in Frames : /\ f.pc = "deps" /\ f.repo = Top.repo
                              /\ f.up = Top.up /\ stack' = <<f>> \o Tail(stack)
      BY <2>9, SettingsIs
    <3>3. Stage(f, clone'[Top.repo]) /\ Elsewhere
      BY <2>1, <3>1, <3>2, TopStage DEF Stage, Elsewhere, Repo
    <3>4. QED
      BY <2>1, <3>1, <3>2, <3>3, StageSteps
  <2>10. CASE Recurse \/ Dirty
    <3>1. stack # <<>> /\ clone' = clone /\ stack \in Seq(Frames)
      BY <2>10 DEF Recurse, Dirty, At, Idle, InstallInv, Types
    <3>2. CASE stack' = Tail(stack)
      <4>1. \A i \in DOMAIN stack' :
                i + 1 \in DOMAIN stack /\ stack'[i] = stack[i + 1]
        BY <3>1, <3>2, Popped
      <4>2. QED
        BY <2>1, <3>1, <4>1 DEF StageOK
    <3>3. CASE stack' # Tail(stack)
      <4> DEFINE g == Child(Head(Top.todo))
      <4>1. /\ Top.pc = "deps" /\ Head(Top.todo) \in Dependencies
            /\ Rest \in Frames /\ Rest.pc = "deps" /\ Rest.repo = Top.repo
            /\ Rest.up = Top.up /\ stack' = <<g, Rest>> \o Tail(stack)
        BY <2>10, <3>3, RecurseIs DEF Dirty
      <4>2. g \in Frames /\ g.pc = "clone"
        BY <4>1, ChildType
      <4>3. /\ stack' \in Seq(Frames) /\ Len(stack') = Len(stack) + 1
            /\ stack'[1] = g /\ stack'[2] = Rest
            /\ \A i \in 3..Len(stack) + 1 : stack'[i] = stack[i - 1]
        BY <3>1, <4>1, <4>2, Pushed
      <4>4. ASSUME NEW i \in DOMAIN stack'
            PROVE  Stage(stack'[i], clone'[stack'[i].repo])
        <5>1. CASE i = 1
          BY <4>2, <4>3, <5>1 DEF Stage
        <5>2. CASE i = 2
          BY <2>1, <3>1, <4>1, <4>3, <5>2, TopStage DEF Stage, Repo
        <5>3. CASE i \in 3..Len(stack) + 1
          <6>1. i - 1 \in DOMAIN stack
            BY <3>1, <5>3
          <6>2. QED
            BY <2>1, <3>1, <4>3, <5>3, <6>1 DEF StageOK
        <5>4. QED
          BY <3>1, <4>3, <5>1, <5>2, <5>3
      <4>5. QED
        BY <4>4 DEF StageOK
    <3>4. QED
      BY <3>2, <3>3
  <2>11. CASE Skip \/ Fail
    BY <1>1, <2>11 DEF Skip, Fail, Throw
  <2>12. CASE \E r \in Repos : \E up \in Published[r] : PushElsewhere(r, up)
    BY <2>1, <2>12 DEF PushElsewhere, StageOK
  <2>13. ASSUME NEW r \in Developed, Work(r) PROVE StageOK'
    <3>1. r \in Repos
      BY Constants
    <3>2. /\ clone[r] # Nil /\ clone'[r] \in Clones
          /\ clone' = [clone EXCEPT ![r] = clone'[r]]
          /\ clone'[r].head = clone[r].head /\ clone'[r].track = clone[r].track
          /\ Here(clone'[r]).up = Here(clone[r]).up
          /\ Here(clone'[r]).n = Here(clone[r]).n /\ stack' = stack
      BY <2>13, <3>1, WorkIs
    <3>3. \A q \in Repos \ {r} : clone'[q] = clone[q]
      BY <3>2 DEF InstallInv, Types
    <3>4. clone'[r] # Nil
      BY <3>2, Constants
    <3>5. ASSUME NEW i \in DOMAIN stack
          PROVE  Stage(stack[i], clone'[stack[i].repo])
      <4>1. stack[i].repo \in Repos /\ Stage(stack[i], clone[stack[i].repo])
        BY <2>1, InFrames DEF InstallInv, StageOK
      <4>2. QED
        BY <3>2, <3>3, <3>4, <4>1 DEF Stage, Placed, UpToDate
    <3>6. QED
      BY <3>2, <3>5 DEF StageOK
  <2>14. CASE \E r \in Developed, b \in Locals : Checkout(r, b)
    BY <1>1, <2>14 DEF Checkout, Idle
  <2>15. QED
    BY <1>3, <2>3, <2>4, <2>5, <2>6, <2>7, <2>8, <2>9, <2>10, <2>11, <2>12,
       <2>13, <2>14 DEF Next, Step, Answer
<1>4. QED
  BY <1>2, <1>3

LEMMA PlaceInvariant ==
    ASSUME NEW rank \in [Repos -> Nat], Ranks(rank)
    PROVE  Spec => []PlaceInv(rank)
<1>1. Init => PlaceInv(rank)
  <2> SUFFICES ASSUME Init PROVE PlaceInv(rank)
    OBVIOUS
  <2>1. DOMAIN stack = {}
    BY DEF Init
  <2>2. QED
    BY <2>1, InstallInit DEF PlaceInv, RankOK, StageOK
<1>2. PlaceInv(rank) /\ [Next]_vars => PlaceInv(rank)'
  <2> SUFFICES ASSUME PlaceInv(rank), [Next]_vars PROVE PlaceInv(rank)'
    OBVIOUS
  <2>1. CASE UNCHANGED vars
    BY <2>1, InstallNext DEF PlaceInv, RankOK, StageOK, vars
  <2>2. CASE Next
    BY <2>2, InstallNext, RankNext, StageNext DEF PlaceInv
  <2>3. QED
    BY <2>1, <2>2
<1>3. QED
  BY <1>1, <1>2, PTL DEF Spec

\* In the terms of SvInstall, a clone that is placed and up to date is in place.
LEMMA PlacedIsInPlace ==
    ASSUME InstallInv, NEW r \in Repos, NEW up, Placed(clone[r], up),
           UpToDate(clone[r])
    PROVE  InPlace(r, up)
<1>1. clone[r] \in Clones /\ Sound(r, clone[r], tip[r])
  BY DEF InstallInv, Types, ClonesOK, Placed
<1>2. clone[r].head \in Locals
  BY <1>1 DEF Clones
<1>3. /\ Here(clone[r]).up \in Published[r]
      /\ LocalName(Here(clone[r]).up) = clone[r].head
  BY <1>1, <1>2 DEF Sound, Here, Placed
<1>4. QED
  BY <1>3 DEF InPlace, Placed, UpToDate

\* Without circular dependencies, whatever is cloned, followed, diverged or
\* worked on: an install that ends without a "no" leaves the repository on the
\* local branch with the name of what was asked for, with all that was fetched
\* of its upstream, and the installs of its dependencies leave it there.
THEOREM AskedIsInstalled ==
    ASSUME Acyclic
    PROVE  Spec => []InstallsWhatWasAsked
<1>1. PICK rank \in [Repos -> Nat] : Ranks(rank)
  BY DEF Acyclic
<1>2. PlaceInv(rank) => InstallsWhatWasAsked
  <2> SUFFICES ASSUME PlaceInv(rank), At("deps"), ~partial
               PROVE  InPlace(Top.repo, Top.up)
    BY DEF InstallsWhatWasAsked
  <2>1. stack # <<>> /\ Top.pc = "deps"
    BY DEF At, Idle
  <2>2. Top.repo \in Repos /\ Placed(Repo, Top.up) /\ UpToDate(Repo)
    BY <2>1, TopFacts, TopStage DEF PlaceInv, Stage
  <2>3. QED
    BY <2>2, PlacedIsInPlace DEF PlaceInv, Repo
<1>3. QED
  BY <1>1, <1>2, PlaceInvariant, PTL

\* No branch that a repository has gets the local name of another one.
NamesApart == \A r \in Repos : \A u \in Published[r], up \in Upstreams :
                  LocalName(u) = LocalName(up) => u = up

\* Such names are all that keeps an install from the promise of
\* docs/sv_install.md:5: without them what is checked out at its end follows the
\* remote and branch that were asked for.
THEOREM DesiredIsInstalled ==
    ASSUME Acyclic, NamesApart
    PROVE  Spec => []InstallsDesired
<1>1. InstallInv /\ InstallsWhatWasAsked => InstallsDesired
  <2> SUFFICES ASSUME InstallInv, InstallsWhatWasAsked, At("deps"), ~partial
               PROVE  Here(Repo).up = Top.up
    BY DEF InstallsDesired
  <2>1. InPlace(Top.repo, Top.up)
    BY DEF InstallsWhatWasAsked
  <2>2. /\ Here(Repo).up \in Published[Top.repo]
        /\ LocalName(Here(Repo).up) = LocalName(Top.up)
    BY <2>1 DEF InPlace, Repo
  <2>3. Top.repo \in Repos /\ Top.up \in Upstreams
    BY TopFacts DEF At, Idle
  <2>4. QED
    BY <2>2, <2>3 DEF NamesApart
<1>2. QED
  BY <1>1, InstallInvariant, AskedIsInstalled, PTL
-----------------------------------------------------------------------------
\* Whoever needs a repository needs the same branch of it.
Pins(pin) ==
    \A r \in Repos, up \in Upstreams : \A k \in DOMAIN Deps[r, up] :
        Deps[r, up][k].branch = pin[Deps[r, up][k].repo]
Consistent == \E pin \in [Repos -> Branches] : Pins(pin)

\* All invocations but the one of the command line are for such a branch.
Pinned(pin, r) == <<"origin", pin[r]>>
PinnedTodo(pin, f) ==
    \A k \in DOMAIN f.todo : f.todo[k].branch = pin[f.todo[k].repo]
PinOK(pin) ==
    \A i \in DOMAIN stack :
        /\ PinnedTodo(pin, stack[i])
        /\ i < Len(stack) => /\ stack[i].deps = TRUE
                             /\ stack[i].up = Pinned(pin, stack[i].repo)

\* A dependency is on its branch and, unless it is being installed again at the
\* moment, up to date with it; in clones c and with stack s.
Busy(r, s) == s # <<>> /\ Head(s).repo = r /\ Head(s).pc # "deps"
Settled(pin, r, c, s) == /\ Placed(c[r], Pinned(pin, r))
                         /\ Busy(r, s) \/ UpToDate(c[r])
Needs(r, c) == Deps[r, Here(c[r]).up]
Complete(pin, r, c, s) ==
    /\ Settled(pin, r, c, s)
    /\ \A k \in DOMAIN Needs(r, c) : Settled(pin, Needs(r, c)[k].repo, c, s)

\* What an application needs is still to be installed, is being installed, or
\* is there with what it needs itself.
Awaited(i, d, s) == \/ \E k \in DOMAIN s[i].todo : s[i].todo[k] = d
                    \/ i > 1 /\ s[i - 1].repo = d.repo
Progress(pin, i, c, s) ==
    s[i].pc = "deps" /\ s[i].deps =>
        \A k \in DOMAIN Needs(s[i].repo, c) :
            LET d == Needs(s[i].repo, c)[k]
            IN  Awaited(i, d, s) \/ Complete(pin, d.repo, c, s)
DoneOK(pin) == \A i \in DOMAIN stack : Progress(pin, i, clone, stack)

DependInv(rank, pin) ==
    PlaceInv(rank) /\ PinOK(pin) /\ (~partial => DoneOK(pin))

LEMMA PinSteps ==
    ASSUME InstallInv, NEW pin, PinOK(pin), stack # <<>>,
           NEW f \in Frames, f.repo = Top.repo, f.up = Top.up,
           f.deps = Top.deps, PinnedTodo(pin, f), stack' = <<f>> \o Tail(stack)
    PROVE  PinOK(pin)'
<1>1. stack \in Seq(Frames)
  BY DEF InstallInv, Types
<1>2. /\ stack' \in Seq(Frames) /\ Len(stack') = Len(stack) /\ stack'[1] = f
      /\ \A i \in 2..Len(stack) : stack'[i] = stack[i]
  BY <1>1, Replaced
<1>3. Top = stack[1] /\ 1 \in DOMAIN stack /\ DOMAIN stack = 1..Len(stack)
      /\ DOMAIN stack' = 1..Len(stack) /\ Len(stack) \in Nat
  BY <1>1, <1>2, TopType DEF InstallInv
<1>4. ASSUME NEW i \in DOMAIN stack'
      PROVE  /\ PinnedTodo(pin, stack'[i])
             /\ i < Len(stack') => /\ stack'[i].deps = TRUE
                                   /\ stack'[i].up = Pinned(pin, stack'[i].repo)
  <2>1. CASE i = 1
    <3>1. 1 < Len(stack) => /\ Top.deps = TRUE
                            /\ Top.up = Pinned(pin, Top.repo)
      BY <1>3 DEF PinOK
    <3>2. QED
      BY <1>2, <2>1, <3>1
  <2>2. CASE i \in 2..Len(stack)
    BY <1>2, <1>3, <2>2 DEF PinOK
  <2>3. i = 1 \/ i \in 2..Len(stack)
    BY <1>3
  <2>4. QED
    BY <2>1, <2>2, <2>3
<1>5. QED
  BY <1>4 DEF PinOK

LEMMA PinGoes ==
    ASSUME InstallInv, NEW pin, PinOK(pin), stack # <<>>,
           NEW label \in Labels, Goto(label)
    PROVE  PinOK(pin)'
<1> DEFINE f == [Top EXCEPT !.pc = label]
<1>1. /\ f \in Frames /\ f.repo = Top.repo /\ f.todo = Top.todo
      /\ f.up = Top.up /\ f.deps = Top.deps
  BY TopFacts DEF Frames
<1>2. PinnedTodo(pin, Top)
  BY TopType DEF InstallInv, PinOK
<1>3. PinnedTodo(pin, f)
  BY <1>1, <1>2 DEF PinnedTodo
<1>4. QED
  BY <1>1, <1>3, PinSteps DEF Goto

LEMMA PinPops ==
    ASSUME InstallInv, NEW pin, PinOK(pin), stack # <<>>, stack' = Tail(stack)
    PROVE  PinOK(pin)'
<1>1. stack \in Seq(Frames)
  BY DEF InstallInv, Types
<1>2. /\ stack' \in Seq(Frames) /\ Len(stack') = Len(stack) - 1
      /\ \A i \in 1..Len(stack') : stack'[i] = stack[i + 1]
  BY <1>1, Popped
<1>3. /\ DOMAIN stack = 1..Len(stack) /\ DOMAIN stack' = 1..Len(stack')
      /\ Len(stack) \in Nat
  BY <1>1, <1>2
<1>4. \A i \in DOMAIN stack' :
          /\ i + 1 \in DOMAIN stack /\ stack'[i] = stack[i + 1]
          /\ i < Len(stack') => i + 1 < Len(stack)
  BY <1>2, <1>3
<1>5. QED
  BY <1>4 DEF PinOK

LEMMA PinCalls ==
    ASSUME InstallInv, NEW pin, PinOK(pin), stack # <<>>,
           NEW f \in Frames, f.repo = Top.repo, f.up = Top.up,
           f.deps = Top.deps, PinnedTodo(pin, f),
           NEW g \in Frames, g.deps = TRUE, g.up = Pinned(pin, g.repo),
           PinnedTodo(pin, g), stack' = <<g, f>> \o Tail(stack)
    PROVE  PinOK(pin)'
<1>1. stack \in Seq(Frames)
  BY DEF InstallInv, Types
<1>2. /\ stack' \in Seq(Frames) /\ Len(stack') = Len(stack) + 1
      /\ stack'[1] = g /\ stack'[2] = f
      /\ \A i \in 3..Len(stack) + 1 : stack'[i] = stack[i - 1]
  BY <1>1, Pushed
<1>3. Top = stack[1] /\ 1 \in DOMAIN stack /\ DOMAIN stack = 1..Len(stack)
      /\ DOMAIN stack' = 1..Len(stack) + 1 /\ Len(stack) \in Nat /\ Len(stack) >= 1
  BY <1>1, <1>2, TopType DEF InstallInv
<1>4. ASSUME NEW i \in DOMAIN stack'
      PROVE  /\ PinnedTodo(pin, stack'[i])
             /\ i < Len(stack') => /\ stack'[i].deps = TRUE
                                   /\ stack'[i].up = Pinned(pin, stack'[i].repo)
  <2>1. CASE i = 1
    BY <1>2, <2>1
  <2>2. CASE i = 2
    <3>1. 2 < Len(stack') => 1 < Len(stack)
      BY <1>2, <1>3
    <3>2. 1 < Len(stack) => /\ Top.deps = TRUE
                            /\ Top.up = Pinned(pin, Top.repo)
      BY <1>3 DEF PinOK
    <3>3. QED
      BY <1>2, <2>2, <3>1, <3>2
  <2>3. CASE i \in 3..Len(stack) + 1
    <3>1. /\ stack'[i] = stack[i - 1] /\ i - 1 \in DOMAIN stack
          /\ i < Len(stack') => i - 1 < Len(stack)
      BY <1>2, <1>3, <2>3
    <3>2. QED
      BY <3>1 DEF PinOK
  <2>4. i = 1 \/ i = 2 \/ i \in 3..Len(stack) + 1
    BY <1>3
  <2>5. QED
    BY <2>1, <2>2, <2>3, <2>4
<1>5. QED
  BY <1>4 DEF PinOK

LEMMA SettingsPinned ==
    ASSUME InstallInv, NEW pin, Pins(pin), stack # <<>>,
           Repo \in Clones, Here(Repo).up # Nil
    PROVE  \A k \in DOMAIN SettingsDeps :
              SettingsDeps[k].branch = pin[SettingsDeps[k].repo]
<1>1. CASE Top.repo[1] = "app" /\ Top.deps
  <2>1. Top.repo \in Repos /\ Here(Repo).up \in Upstreams
    BY TopFacts, HereUp, Constants DEF Sound
  <2>2. SettingsDeps = Deps[Top.repo, Here(Repo).up]
    BY <1>1 DEF SettingsDeps
  <2>3. QED
    BY <2>1, <2>2 DEF Pins
<1>2. CASE ~(Top.repo[1] = "app" /\ Top.deps)
  <2>1. SettingsDeps = <<>>
    BY <1>2 DEF SettingsDeps
  <2>2. QED
    BY <2>1
<1>3. QED
  BY <1>1, <1>2

LEMMA PinNext ==
    ASSUME InstallInv, NEW pin, Pins(pin), PinOK(pin), Next
    PROVE  PinOK(pin)'
<1>1. CASE stack' = stack
  BY <1>1 DEF PinOK
<1>2. CASE stack' = <<>>
  BY <1>2 DEF PinOK
<1>3. CASE \E label \in Labels : stack # <<>> /\ Goto(label)
  BY <1>3, PinGoes
<1>4. CASE stack # <<>> /\ stack' = Tail(stack)
  BY <1>4, PinPops
<1>5. ASSUME NEW q \in Requests, Request(q) PROVE PinOK(pin)'
  <2> DEFINE f == Frame(q.repo, q.up, q.deps)
  <2>1. stack' = <<f>> /\ f.todo = <<>>
    BY <1>5 DEF Request, Frame
  <2>2. DOMAIN stack' = {1} /\ stack'[1] = f /\ Len(stack') = 1
    BY <2>1
  <2>3. PinnedTodo(pin, f)
    BY <2>1 DEF PinnedTodo
  <2>4. QED
    BY <2>2, <2>3 DEF PinOK
<1>6. CASE LoadSettings
  <2>1. stack # <<>> /\ Repo \in Clones /\ Here(Repo).up # Nil
    BY <1>6, SettingsIs
  <2>2. PICK f \in Frames : /\ f.repo = Top.repo /\ f.up = Top.up
                            /\ f.deps = Top.deps /\ f.todo = SettingsDeps
                            /\ stack' = <<f>> \o Tail(stack)
    BY <1>6, SettingsIs
  <2>3. PinnedTodo(pin, f)
    BY <2>1, <2>2, SettingsPinned DEF PinnedTodo
  <2>4. QED
    BY <2>1, <2>2, <2>3, PinSteps
<1>7. CASE Recurse
  <2>1. CASE stack' = Tail(stack)
    BY <1>4, <1>7, <2>1, RecurseIs
  <2>2. CASE stack' # Tail(stack)
    <3> DEFINE d == Head(Top.todo)
               g == Child(d)
    <3>1. /\ stack # <<>> /\ Top.todo # <<>> /\ d \in Dependencies
          /\ Rest \in Frames /\ Rest.repo = Top.repo /\ Rest.up = Top.up
          /\ Rest.deps = Top.deps /\ Rest.todo = Tail(Top.todo)
          /\ stack' = <<g, Rest>> \o Tail(stack)
      BY <1>7, <2>2, RecurseIs
    <3>2. /\ g \in Frames /\ g.repo = d.repo /\ g.todo = <<>>
          /\ g.deps = TRUE /\ g.up = <<"origin", d.branch>>
      BY <3>1, ChildType
    <3>3. PinnedTodo(pin, Top) /\ Top.todo \in Seq(Dependencies)
      BY <3>1, TopType, TopFacts DEF InstallInv, PinOK
    <3>4. /\ d = Top.todo[1] /\ 1 \in DOMAIN Top.todo
          /\ \A k \in DOMAIN Tail(Top.todo) :
                k + 1 \in DOMAIN Top.todo /\ Tail(Top.todo)[k] = Top.todo[k + 1]
      BY <3>1, <3>3
    <3>5. /\ PinnedTodo(pin, Rest) /\ PinnedTodo(pin, g)
          /\ g.up = Pinned(pin, g.repo)
      BY <3>1, <3>2, <3>3, <3>4 DEF PinnedTodo, Pinned
    <3>6. QED
      BY <3>1, <3>2, <3>5, PinCalls
  <2>3. QED
    BY <2>1, <2>2
<1>8. QED
  BY <1>1, <1>2, <1>3, <1>4, <1>5, <1>6, <1>7, Moves

LEMMA NeedsType ==
    ASSUME InstallInv, NEW r \in Repos, clone[r] # Nil, Here(clone[r]).up # Nil
    PROVE  /\ Here(clone[r]).up \in Upstreams
           /\ Needs(r, clone) \in Seq(Dependencies)
           /\ \A k \in DOMAIN Needs(r, clone) :
                 /\ Needs(r, clone)[k] \in Dependencies
                 /\ Needs(r, clone)[k].repo \in Repos
<1>1. clone[r] \in Clones /\ Here(clone[r]) # Nil
  BY DEF InstallInv, Types, ClonesOK, Sound
<1>2. Here(clone[r]).up \in Upstreams
  BY <1>1, HereUp
<1>3. Needs(r, clone) \in Seq(Dependencies)
  BY <1>2, Constants DEF Needs
<1>4. \A k \in DOMAIN Needs(r, clone) : Needs(r, clone)[k] \in Dependencies
  BY <1>3
<1>5. QED
  BY <1>2, <1>3, <1>4 DEF Dependencies

\* A step that leaves settled what is.
Stays(pin) ==
    \A r \in Repos : Settled(pin, r, clone, stack) =>
        /\ Settled(pin, r, clone', stack')
        /\ Here(clone'[r]).up = Here(clone[r]).up

LEMMA CompleteStays ==
    ASSUME InstallInv, NEW pin, Stays(pin), NEW r \in Repos,
           Complete(pin, r, clone, stack)
    PROVE  Complete(pin, r, clone', stack')
<1>1. /\ Settled(pin, r, clone, stack) /\ Settled(pin, r, clone', stack')
      /\ Needs(r, clone') = Needs(r, clone)
  BY DEF Complete, Stays, Needs
<1>2. \A k \in DOMAIN Needs(r, clone) : Needs(r, clone)[k].repo \in Repos
  BY <1>1, NeedsType DEF Settled, Placed
<1>3. \A k \in DOMAIN Needs(r, clone) :
          Settled(pin, Needs(r, clone)[k].repo, clone', stack')
  BY <1>2 DEF Complete, Stays
<1>4. QED
  BY <1>1, <1>3 DEF Complete

LEMMA ProgressStays ==
    ASSUME InstallInv, StageOK, NEW pin, Stays(pin),
           NEW i \in DOMAIN stack, NEW j \in DOMAIN stack',
           stack[i].pc = "deps", stack'[j].repo = stack[i].repo,
           stack'[j].deps = stack[i].deps, Progress(pin, i, clone, stack),
           Here(clone'[stack[i].repo]).up = Here(clone[stack[i].repo]).up,
           \A d \in Dependencies : Awaited(i, d, stack) =>
               \/ Awaited(j, d, stack')
               \/ Complete(pin, d.repo, clone', stack')
    PROVE  Progress(pin, j, clone', stack')
<1> DEFINE r == stack[i].repo
<1>1. r \in Repos /\ Placed(clone[r], stack[i].up)
  BY InFrames DEF InstallInv, StageOK, Stage
<1>2. \A k \in DOMAIN Needs(r, clone) :
          Needs(r, clone)[k] \in Dependencies /\ Needs(r, clone)[k].repo \in Repos
  BY <1>1, NeedsType DEF Placed
<1>3. Needs(r, clone') = Needs(r, clone)
  BY DEF Needs
<1>4. ASSUME stack[i].deps, NEW k \in DOMAIN Needs(r, clone)
      PROVE  \/ Awaited(j, Needs(r, clone)[k], stack')
             \/ Complete(pin, Needs(r, clone)[k].repo, clone', stack')
  <2>1. \/ Awaited(i, Needs(r, clone)[k], stack)
        \/ Complete(pin, Needs(r, clone)[k].repo, clone, stack)
    BY <1>4 DEF Progress
  <2>2. CASE Awaited(i, Needs(r, clone)[k], stack)
    BY <1>2, <2>2
  <2>3. CASE Complete(pin, Needs(r, clone)[k].repo, clone, stack)
    BY <1>2, <2>3, CompleteStays
  <2>4. QED
    BY <2>1, <2>2, <2>3
<1>5. QED
  BY <1>3, <1>4 DEF Progress

\* The innermost invocation, of a dependency, moves within its own clone: it may
\* leave the last commit for a while, but not its branch.
LEMMA DoneSteps ==
    ASSUME InstallInv, NEW rank \in [Repos -> Nat], RankOK(rank), StageOK,
           NEW pin, PinOK(pin), DoneOK(pin), stack # <<>>, Elsewhere,
           Placed(Repo, Top.up) => /\ Placed(clone'[Top.repo], Top.up)
                                   /\ Here(clone'[Top.repo]).up = Here(Repo).up,
           NEW f \in Frames, f.repo = Top.repo, f.pc # "deps",
           stack' = <<f>> \o Tail(stack)
    PROVE  DoneOK(pin)'
<1>1. stack \in Seq(Frames) /\ Top = stack[1] /\ Len(stack) \in Nat
      /\ Top.repo \in Repos /\ 1 \in DOMAIN stack /\ Top = Head(stack)
  BY TopType, TopFacts DEF InstallInv, Types, Top
<1>2. /\ stack' \in Seq(Frames) /\ Len(stack') = Len(stack) /\ stack'[1] = f
      /\ stack' # <<>> /\ Head(stack') = f
      /\ \A i \in 2..Len(stack) : stack'[i] = stack[i]
  BY <1>1, Replaced
<1>3. ASSUME NEW i \in 2..Len(stack) PROVE Progress(pin, i, clone', stack')
  <2>1. 1 < Len(stack)
    BY <1>1
  <2>2. Top.up = Pinned(pin, Top.repo)
    BY <1>1, <2>1 DEF PinOK
  <2>3. Stays(pin)
    <3> SUFFICES ASSUME NEW r \in Repos, Settled(pin, r, clone, stack)
                 PROVE  /\ Settled(pin, r, clone', stack')
                        /\ Here(clone'[r]).up = Here(clone[r]).up
      BY DEF Stays
    <3>1. CASE r = Top.repo
      <4>1. Busy(r, stack')
        BY <1>2, <3>1 DEF Busy
      <4>2. Placed(Repo, Top.up)
        BY <2>2, <3>1 DEF Settled, Repo
      <4>3. QED
        BY <2>2, <3>1, <4>1, <4>2 DEF Settled, Repo
    <3>2. CASE r # Top.repo
      <4>1. clone'[r] = clone[r] /\ ~Busy(r, stack)
        BY <1>1, <3>2 DEF Elsewhere, Busy
      <4>2. QED
        BY <4>1 DEF Settled
    <3>3. QED
      BY <3>1, <3>2
  <2>4. /\ i \in DOMAIN stack /\ i \in DOMAIN stack' /\ stack'[i] = stack[i]
        /\ stack[i].repo \in Repos \ {Top.repo} /\ i > 1
    BY <1>1, <1>2, OthersStay
  <2>5. stack[i].pc = "deps" /\ Progress(pin, i, clone, stack)
    BY <2>4 DEF InstallInv, StackOK, DoneOK
  <2>6. clone'[stack[i].repo] = clone[stack[i].repo]
    BY <2>4 DEF Elsewhere
  <2>7. stack'[i - 1].repo = stack[i - 1].repo
    <3>1. i - 1 = 1 \/ i - 1 \in 2..Len(stack)
      BY <1>1
    <3>2. QED
      BY <1>1, <1>2, <3>1
  <2>8. \A d \in Dependencies : Awaited(i, d, stack) => Awaited(i, d, stack')
    BY <2>4, <2>7 DEF Awaited
  <2>9. QED
    BY <2>3, <2>4, <2>5, <2>6, <2>8, ProgressStays
<1>4. Progress(pin, 1, clone', stack')
  BY <1>2 DEF Progress
<1>5. \A i \in DOMAIN stack' : i = 1 \/ i \in 2..Len(stack)
  BY <1>1, <1>2
<1>6. QED
  BY <1>3, <1>4, <1>5 DEF DoneOK

LEMMA DoneGoes ==
    ASSUME InstallInv, NEW rank \in [Repos -> Nat], RankOK(rank), StageOK,
           NEW pin, PinOK(pin), DoneOK(pin), stack # <<>>, Elsewhere,
           Placed(Repo, Top.up) => /\ Placed(clone'[Top.repo], Top.up)
                                   /\ Here(clone'[Top.repo]).up = Here(Repo).up,
           NEW label \in Labels, label # "deps", Goto(label)
    PROVE  DoneOK(pin)'
<1> DEFINE f == [Top EXCEPT !.pc = label]
<1>1. f \in Frames /\ f.repo = Top.repo /\ f.pc # "deps"
  BY TopFacts DEF Frames
<1>2. QED
  BY <1>1, DoneSteps DEF Goto

\* So does a step between repositories, when the current one is up to date.
LEMMA QuietStays ==
    ASSUME InstallInv, StageOK, NEW pin, stack # <<>>, clone' = clone,
           Top.pc \in {"settings", "deps"}
    PROVE  Stays(pin)
<1>1. UpToDate(Repo)
  BY TopStage DEF Stage
<1>2. \A r \in Repos : Busy(r, stack) => UpToDate(clone[r])
  BY <1>1 DEF Busy, Repo, Top
<1>3. QED
  BY <1>2 DEF Stays, Settled

LEMMA DoneLoads ==
    ASSUME InstallInv, NEW rank \in [Repos -> Nat], RankOK(rank), StageOK,
           NEW pin, PinOK(pin), DoneOK(pin), LoadSettings
    PROVE  DoneOK(pin)'
<1>1. /\ stack # <<>> /\ Top.pc = "settings" /\ clone' = clone
      /\ Repo \in Clones /\ Here(Repo).up # Nil
  BY SettingsIs
<1>2. PICK f \in Frames : /\ f.pc = "deps" /\ f.repo = Top.repo
                          /\ f.deps = Top.deps /\ f.todo = SettingsDeps
                          /\ stack' = <<f>> \o Tail(stack)
  BY SettingsIs
<1>3. stack \in Seq(Frames) /\ Top = stack[1] /\ Len(stack) \in Nat
      /\ Top.repo \in Repos
  BY <1>1, TopType, TopFacts DEF InstallInv, Types
<1>4. /\ stack' \in Seq(Frames) /\ Len(stack') = Len(stack) /\ stack'[1] = f
      /\ \A i \in 2..Len(stack) : stack'[i] = stack[i]
  BY <1>1, <1>2, <1>3, Replaced
<1>5. Progress(pin, 1, clone', stack')
  <2> DEFINE up == Here(Repo).up
  <2>1. up \in Upstreams
    <3>1. Repo # Nil
      BY <1>1, Constants
    <3>2. Here(Repo) # Nil
      BY <1>1, <3>1, TopFacts DEF Sound
    <3>3. QED
      BY <1>1, <3>2, HereUp
  <2>2. Needs(stack'[1].repo, clone') = Deps[Top.repo, up]
    BY <1>1, <1>2, <1>4 DEF Needs, Repo
  <2>3. CASE Top.repo[1] = "app"
    <3>1. f.deps => f.todo = Deps[Top.repo, up]
      BY <1>2, <2>3 DEF SettingsDeps
    <3>2. QED
      BY <1>4, <2>2, <3>1 DEF Progress, Awaited
  <2>4. CASE Top.repo[1] # "app"
    <3>1. Deps[Top.repo, up] = <<>>
      BY <1>3, <2>1, <2>4, Constants
    <3>2. DOMAIN <<>> = {}
      OBVIOUS
    <3>3. DOMAIN Needs(stack'[1].repo, clone') = {}
      BY <2>2, <3>1, <3>2
    <3>4. QED
      BY <3>3 DEF Progress
  <2>5. QED
    BY <2>3, <2>4
<1>6. Stays(pin)
  BY <1>1, QuietStays
<1>7. ASSUME NEW i \in 2..Len(stack) PROVE Progress(pin, i, clone', stack')
  <2>1. /\ i \in DOMAIN stack /\ i \in DOMAIN stack' /\ stack'[i] = stack[i]
        /\ i > 1
    BY <1>3, <1>4
  <2>2. stack[i].pc = "deps" /\ Progress(pin, i, clone, stack)
    BY <2>1 DEF InstallInv, StackOK, DoneOK
  <2>3. stack'[i - 1].repo = stack[i - 1].repo
    <3>1. i - 1 = 1 \/ i - 1 \in 2..Len(stack)
      BY <1>3
    <3>2. QED
      BY <1>2, <1>3, <1>4, <3>1
  <2>4. \A d \in Dependencies : Awaited(i, d, stack) => Awaited(i, d, stack')
    BY <2>1, <2>3 DEF Awaited
  <2>5. QED
    BY <1>1, <1>6, <2>1, <2>2, <2>4, ProgressStays
<1>8. \A i \in DOMAIN stack' : i = 1 \/ i \in 2..Len(stack)
  BY <1>3, <1>4
<1>9. QED
  BY <1>5, <1>7, <1>8 DEF DoneOK

\* The install of a dependency is called: it is no longer to do, but under way.
LEMMA DoneCalls ==
    ASSUME InstallInv, StageOK, NEW pin, DoneOK(pin), Recurse, Top.todo # <<>>
    PROVE  DoneOK(pin)'
<1> DEFINE e == Head(Top.todo)
           g == Child(e)
<1>1. /\ stack # <<>> /\ Top.pc = "deps" /\ clone' = clone
      /\ e \in Dependencies
      /\ Rest \in Frames /\ Rest.pc = "deps" /\ Rest.repo = Top.repo
      /\ Rest.deps = Top.deps /\ Rest.todo = Tail(Top.todo)
      /\ stack' = <<g, Rest>> \o Tail(stack)
  BY RecurseIs
<1>2. g \in Frames /\ g.pc = "clone" /\ g.repo = e.repo
  BY <1>1, ChildType
<1>3. stack \in Seq(Frames) /\ Top = stack[1] /\ Len(stack) \in Nat
      /\ Top.todo \in Seq(Dependencies) /\ 1 \in DOMAIN stack /\ Len(stack) >= 1
  BY <1>1, TopType, TopFacts DEF InstallInv, Types
<1>4. /\ stack' \in Seq(Frames) /\ Len(stack') = Len(stack) + 1
      /\ stack'[1] = g /\ stack'[2] = Rest
      /\ \A i \in 3..Len(stack) + 1 : stack'[i] = stack[i - 1]
  BY <1>1, <1>2, <1>3, Pushed
<1>5. Stays(pin)
  BY <1>1, QuietStays
<1>6. Progress(pin, 1, clone', stack')
  BY <1>2, <1>4 DEF Progress
<1>7. Progress(pin, 2, clone', stack')
  <2>1. ASSUME NEW d \in Dependencies, Awaited(1, d, stack)
        PROVE  Awaited(2, d, stack')
    <3>1. PICK k \in DOMAIN Top.todo : Top.todo[k] = d
      BY <1>3, <2>1 DEF Awaited
    <3>2. CASE k = 1
      <4>1. e = d
        BY <1>3, <3>1, <3>2
      <4>2. QED
        BY <1>2, <1>4, <4>1 DEF Awaited
    <3>3. CASE k # 1
      <4>1. k - 1 \in DOMAIN Tail(Top.todo) /\ Tail(Top.todo)[k - 1] = d
        BY <1>3, <3>1, <3>3
      <4>2. QED
        BY <1>1, <1>4, <4>1 DEF Awaited
    <3>4. QED
      BY <3>2, <3>3
  <2>2. 2 \in DOMAIN stack'
    BY <1>3, <1>4
  <2>3. Progress(pin, 1, clone, stack)
    BY <1>3 DEF DoneOK
  <2>4. QED
    BY <1>1, <1>3, <1>4, <1>5, <2>1, <2>2, <2>3, ProgressStays
<1>8. ASSUME NEW j \in 3..Len(stack) + 1 PROVE Progress(pin, j, clone', stack')
  <2> DEFINE i == j - 1
  <2>1. /\ i \in DOMAIN stack /\ j \in DOMAIN stack' /\ stack'[j] = stack[i]
        /\ i > 1 /\ j > 1
    BY <1>3, <1>4
  <2>2. stack[i].pc = "deps" /\ Progress(pin, i, clone, stack)
    BY <2>1 DEF InstallInv, StackOK, DoneOK
  <2>3. stack'[j - 1].repo = stack[i - 1].repo
    <3>1. CASE j = 3
      BY <1>1, <1>3, <1>4, <3>1
    <3>2. CASE j # 3
      <4>1. j - 1 \in 3..Len(stack) + 1
        BY <1>3, <3>2
      <4>2. QED
        BY <1>4, <4>1
    <3>3. QED
      BY <3>1, <3>2
  <2>4. \A d \in Dependencies : Awaited(i, d, stack) => Awaited(j, d, stack')
    BY <2>1, <2>3 DEF Awaited
  <2>5. QED
    BY <1>1, <1>5, <2>1, <2>2, <2>4, ProgressStays
<1>9. \A j \in DOMAIN stack' : j = 1 \/ j = 2 \/ j \in 3..Len(stack) + 1
  BY <1>3, <1>4
<1>10. QED
  BY <1>6, <1>7, <1>8, <1>9 DEF DoneOK

\* It returns: the dependency is there, and what it needs itself.
LEMMA DoneReturns ==
    ASSUME InstallInv, StageOK, NEW pin, PinOK(pin), DoneOK(pin), Recurse,
           Top.todo = <<>>
    PROVE  DoneOK(pin)'
<1>1. /\ stack # <<>> /\ Top.pc = "deps" /\ clone' = clone
      /\ stack' = Tail(stack)
  BY RecurseIs
<1>2. stack \in Seq(Frames) /\ Top = stack[1] /\ Len(stack) \in Nat
      /\ 1 \in DOMAIN stack /\ Top.repo \in Repos
  BY <1>1, TopType, TopFacts DEF InstallInv, Types
<1>3. /\ stack' \in Seq(Frames) /\ Len(stack') = Len(stack) - 1
      /\ \A i \in 1..Len(stack') : stack'[i] = stack[i + 1]
  BY <1>1, <1>2, Popped
<1>4. Stays(pin)
  BY <1>1, QuietStays
<1>5. ASSUME 1 < Len(stack)
      PROVE  Complete(pin, Top.repo, clone', stack')
  <2>1. Top.deps = TRUE /\ Top.up = Pinned(pin, Top.repo)
    BY <1>2, <1>5 DEF PinOK
  <2>2. Placed(Repo, Top.up) /\ UpToDate(Repo)
    BY <1>1, TopStage DEF Stage
  <2>3. Settled(pin, Top.repo, clone, stack)
    BY <2>1, <2>2 DEF Settled, Repo
  <2>4. ASSUME NEW k \in DOMAIN Needs(Top.repo, clone)
        PROVE  Settled(pin, Needs(Top.repo, clone)[k].repo, clone, stack)
    <3> DEFINE d == Needs(Top.repo, clone)[k]
    <3>1. ~Awaited(1, d, stack)
      BY <1>2 DEF Awaited
    <3>2. Progress(pin, 1, clone, stack)
      BY <1>2 DEF DoneOK
    <3>3. Complete(pin, d.repo, clone, stack)
      BY <1>1, <1>2, <2>1, <3>1, <3>2 DEF Progress
    <3>4. QED
      BY <3>3 DEF Complete
  <2>5. Complete(pin, Top.repo, clone, stack)
    BY <2>3, <2>4 DEF Complete
  <2>6. QED
    BY <1>2, <1>4, <2>5, CompleteStays
<1>6. ASSUME NEW j \in DOMAIN stack' PROVE Progress(pin, j, clone', stack')
  <2> DEFINE i == j + 1
  <2>1. /\ i \in DOMAIN stack /\ stack'[j] = stack[i] /\ i > 1
        /\ 1 < Len(stack) /\ j \in Nat /\ j \in 1..Len(stack')
    BY <1>2, <1>3
  <2>2. stack[i].pc = "deps" /\ Progress(pin, i, clone, stack)
    BY <2>1 DEF InstallInv, StackOK, DoneOK
  <2>3. ASSUME NEW d \in Dependencies, Awaited(i, d, stack)
        PROVE  \/ Awaited(j, d, stack')
               \/ Complete(pin, d.repo, clone', stack')
    <3>1. CASE \E k \in DOMAIN stack[i].todo : stack[i].todo[k] = d
      BY <2>1, <3>1 DEF Awaited
    <3>2. CASE stack[j].repo = d.repo
      <4>1. CASE j = 1
        BY <1>2, <1>5, <2>1, <3>2, <4>1
      <4>2. CASE j # 1
        <5>1. j - 1 \in 1..Len(stack') /\ j > 1 /\ (j - 1) + 1 = j
          BY <1>2, <1>3, <2>1, <4>2
        <5>2. stack'[j - 1] = stack[j]
          BY <1>3, <5>1
        <5>3. QED
          BY <3>2, <5>1, <5>2 DEF Awaited
      <4>3. QED
        BY <4>1, <4>2
    <3>3. i - 1 = j
      BY <2>1
    <3>4. QED
      BY <2>3, <3>1, <3>2, <3>3 DEF Awaited
  <2>4. QED
    BY <1>1, <1>4, <2>1, <2>2, <2>3, ProgressStays
<1>7. QED
  BY <1>6 DEF DoneOK

\* Nothing is undone from outside: a developer who works in a clone leaves its
\* branch where it was.
LEMMA DoneWorks ==
    ASSUME InstallInv, StageOK, NEW pin, DoneOK(pin),
           NEW r \in Developed, Work(r)
    PROVE  DoneOK(pin)'
<1>1. r \in Repos
  BY Constants
<1>2. /\ clone[r] # Nil /\ clone'[r] \in Clones
      /\ clone' = [clone EXCEPT ![r] = clone'[r]]
      /\ clone'[r].head = clone[r].head /\ clone'[r].track = clone[r].track
      /\ Here(clone'[r]).up = Here(clone[r]).up
      /\ Here(clone'[r]).n = Here(clone[r]).n /\ stack' = stack
  BY <1>1, WorkIs
<1>3. \A q \in Repos \ {r} : clone'[q] = clone[q]
  BY <1>2 DEF InstallInv, Types
<1>4. clone'[r] # Nil
  BY <1>2, Constants
<1>5. \A q \in Repos : Here(clone'[q]).up = Here(clone[q]).up
  BY <1>2, <1>3
<1>6. Stays(pin)
  BY <1>2, <1>3, <1>4, <1>5 DEF Stays, Settled, Placed, UpToDate
<1>7. ASSUME NEW i \in DOMAIN stack PROVE Progress(pin, i, clone', stack')
  <2>1. stack[i].repo \in Repos /\ Progress(pin, i, clone, stack)
    BY InFrames DEF InstallInv, DoneOK
  <2>2. CASE stack[i].pc = "deps"
    BY <1>2, <1>5, <1>6, <2>1, <2>2, ProgressStays
  <2>3. CASE stack[i].pc # "deps"
    BY <1>2, <2>3 DEF Progress
  <2>4. QED
    BY <2>2, <2>3
<1>8. QED
  BY <1>2, <1>7 DEF DoneOK

LEMMA DoneNext ==
    ASSUME InstallInv, NEW rank \in [Repos -> Nat], Ranks(rank), RankOK(rank),
           ~partial => StageOK, NEW pin, PinOK(pin), ~partial => DoneOK(pin),
           Next, ~partial'
    PROVE  DoneOK(pin)'
<1>1. CASE stack' = <<>>
  BY <1>1 DEF DoneOK
<1>2. ASSUME NEW q \in Requests, Request(q) PROVE DoneOK(pin)'
  <2> DEFINE f == Frame(q.repo, q.up, q.deps)
  <2>1. stack' = <<f>> /\ f.pc = "clone"
    BY <1>2 DEF Request, Frame
  <2>2. DOMAIN stack' = {1} /\ stack'[1] = f
    BY <2>1
  <2>3. QED
    BY <2>1, <2>2 DEF DoneOK, Progress
<1>3. CASE ~(\E q \in Requests : Request(q))
  <2>1. StageOK /\ DoneOK(pin)
    BY <1>3 DEF Next, Step, Answer, Clone, Fetch, Dirty, Tracking, Status,
       LoadSettings, Recurse, Switch, Pull, Skip, Fail, PushElsewhere, Work,
       Checkout
  <2>2. /\ {"fetch", "check", "status", "switch", "settings", "pull"}
              \subseteq Labels \ {"deps"}
    BY DEF Labels
  <2>3. CASE Clone
    <3>1. stack # <<>> /\ Goto("fetch")
      BY <2>3 DEF Clone, At, Idle
    <3>2. Elsewhere
      BY <2>3, <3>1, OnlyTop DEF Clone, Elsewhere
    <3>3. Placed(Repo, Top.up) => clone'[Top.repo] = Repo
      BY <2>3 DEF Clone, Placed, Repo
    <3>4. QED
      BY <2>1, <2>2, <3>1, <3>2, <3>3, DoneGoes
  <2>4. CASE Fetch
    <3>1. CASE SetRepo(Reached) /\ Goto("check")
      <4>1. stack # <<>> /\ Repo # Nil
        BY <2>4, FetchIs
      <4>2. Elsewhere /\ clone'[Top.repo] = Reached
        BY <3>1, <4>1, OnlyTop
      <4>3. /\ Reached \in Clones /\ Reached.head = Repo.head
            /\ Reached.local = Repo.local
        BY <4>1, ReachedIsSound
      <4>4. Placed(Repo, Top.up) => /\ Placed(Reached, Top.up)
                                    /\ Here(Reached).up = Here(Repo).up
        BY <4>3, Constants DEF Placed, Here
      <4>5. QED
        BY <2>1, <2>2, <3>1, <4>1, <4>2, <4>4, DoneGoes
    <3>2. QED
      BY <1>1, <2>4, <3>1, FetchIs DEF Throw
  <2>5. CASE Tracking \/ Status
    <3>1. stack # <<>> /\ clone' = clone
      BY <2>5 DEF Tracking, Status, At, Idle
    <3>2. \/ Throw \/ Goto("switch") \/ Goto("status") \/ Goto("pull")
          \/ Goto("settings")
      BY <2>5 DEF Tracking, Status
    <3>3. Elsewhere /\ clone'[Top.repo] = Repo
      BY <3>1 DEF Elsewhere, Repo
    <3>4. QED
      BY <1>1, <2>1, <2>2, <3>1, <3>2, <3>3, DoneGoes DEF Throw
  <2>6. CASE Switch
    <3>1. CASE Creatable /\ SetRepo(Switched) /\ Goto("status")
      <4>1. stack # <<>> /\ Repo # Nil /\ Seen(Top.repo, Repo, Top.up)
        BY <2>6, SwitchIs
      <4>2. Elsewhere /\ clone'[Top.repo] = Switched
        BY <3>1, <4>1, OnlyTop
      <4>3. /\ Switched \in Clones /\ Switched.head = LocalName(Top.up)
            /\ \A b \in Locals : Repo.local[b] # Nil =>
                  Switched.local[b] = Repo.local[b]
        BY <3>1, <4>1, SwitchedIsSound
      <4>4. ASSUME Placed(Repo, Top.up)
            PROVE  /\ Placed(Switched, Top.up)
                   /\ Here(Switched).up = Here(Repo).up
        <5>1. Repo \in Clones /\ Here(Repo) # Nil /\ Repo.head \in Locals
          BY <4>1, TopFacts DEF Sound, Clones
        <5>2. Here(Switched) = Here(Repo)
          BY <4>3, <4>4, <5>1 DEF Here, Placed
        <5>3. QED
          BY <4>3, <4>4, <5>2, Constants DEF Placed
      <4>5. QED
        BY <2>1, <2>2, <3>1, <4>1, <4>2, <4>4, DoneGoes
    <3>2. QED
      BY <1>1, <2>6, <3>1, SwitchIs DEF Throw
  <2>7. CASE Pull
    <3>1. CASE SetRepo(Pulled) /\ Goto("settings")
      <4>1. stack # <<>> /\ Repo # Nil /\ Here(Repo).up # Nil
        BY <2>7, PullIs
      <4>2. Elsewhere /\ clone'[Top.repo] = Pulled
        BY <3>1, <4>1, OnlyTop
      <4>3. /\ Pulled \in Clones /\ Pulled.head = Repo.head
            /\ Here(Pulled).up = Here(Repo).up
        BY <4>1, PulledIsSound
      <4>4. Placed(Repo, Top.up) => /\ Placed(Pulled, Top.up)
                                    /\ Here(Pulled).up = Here(Repo).up
        BY <4>3, Constants DEF Placed
      <4>5. QED
        BY <2>1, <2>2, <3>1, <4>1, <4>2, <4>4, DoneGoes
    <3>2. QED
      BY <1>1, <2>7, <3>1, PullIs DEF Throw
  <2>8. CASE LoadSettings
    BY <2>1, <2>8, DoneLoads
  <2>9. CASE Recurse
    BY <2>1, <2>9, DoneCalls, DoneReturns
  <2>10. CASE Dirty \/ Skip \/ Fail
    BY <1>1, <2>10 DEF Dirty, Skip, Fail, Throw
  <2>11. CASE \E r \in Repos : \E up \in Published[r] : PushElsewhere(r, up)
    BY <2>1, <2>11 DEF PushElsewhere, DoneOK
  <2>12. CASE \E r \in Developed : Work(r)
    BY <2>1, <2>12, DoneWorks
  <2>13. CASE \E r \in Developed, b \in Locals : Checkout(r, b)
    BY <1>1, <2>13 DEF Checkout, Idle
  <2>14. QED
    BY <1>3, <2>3, <2>4, <2>5, <2>6, <2>7, <2>8, <2>9, <2>10, <2>11, <2>12,
       <2>13 DEF Next, Step, Answer
<1>4. QED
  BY <1>2, <1>3

LEMMA DependInvariant ==
    ASSUME NEW rank \in [Repos -> Nat], Ranks(rank), NEW pin, Pins(pin)
    PROVE  Spec => []DependInv(rank, pin)
<1>1. Init => PinOK(pin) /\ DoneOK(pin)
  <2> SUFFICES ASSUME Init PROVE PinOK(pin) /\ DoneOK(pin)
    OBVIOUS
  <2>1. DOMAIN stack = {}
    BY DEF Init
  <2>2. QED
    BY <2>1 DEF PinOK, DoneOK
<1> DEFINE Done == PinOK(pin) /\ (~partial => DoneOK(pin))
<1>2. ASSUME PlaceInv(rank), Done, [Next]_vars PROVE Done'
  <2>1. CASE UNCHANGED vars
    BY <1>2, <2>1 DEF PinOK, DoneOK, vars
  <2>2. CASE Next
    BY <1>2, <2>2, PinNext, DoneNext DEF PlaceInv
  <2>3. QED
    BY <1>2, <2>1, <2>2
<1>3. Init => Done
  BY <1>1
<1>4. PlaceInv(rank) /\ Done <=> DependInv(rank, pin)
  BY DEF DependInv
<1> HIDE DEF Done
<1>5. QED
  BY <1>2, <1>3, <1>4, PlaceInvariant, PTL DEF Spec

\* The dependencies too, and theirs, when no two settings ask for different
\* branches of one repository: what was installed for one application stays as
\* it is while the others are installed, or is brought up to date once more.
THEOREM DependenciesAreInPlace ==
    ASSUME Acyclic, Consistent
    PROVE  Spec => []DependenciesInPlace
<1>1. PICK rank \in [Repos -> Nat] : Ranks(rank)
  BY DEF Acyclic
<1>2. PICK pin \in [Repos -> Branches] : Pins(pin)
  BY DEF Consistent
<1>3. DependInv(rank, pin) => DependenciesInPlace
  <2> DEFINE Have(r) == \A k \in DOMAIN Needs(r, clone) :
                            InPlace(Needs(r, clone)[k].repo,
                                    <<"origin", Needs(r, clone)[k].branch>>)
  <2> SUFFICES ASSUME DependInv(rank, pin), At("deps"), Top.todo = <<>>,
                      Top.deps, ~partial
               PROVE  /\ Have(Top.repo)
                      /\ \A k \in DOMAIN Needs(Top.repo, clone) :
                            Have(Needs(Top.repo, clone)[k].repo)
    BY DEF DependenciesInPlace, Needs
  <2>1. /\ InstallInv /\ StageOK /\ DoneOK(pin)
        /\ stack # <<>> /\ Top.pc = "deps"
    BY DEF DependInv, PlaceInv, At, Idle
  <2>2. Top = stack[1] /\ 1 \in DOMAIN stack /\ Top.repo \in Repos
    BY <2>1, TopType, TopFacts DEF InstallInv
  <2>3. Placed(clone[Top.repo], Top.up)
    BY <2>1, TopStage DEF Stage, Repo
  <2>4. ASSUME NEW r \in Repos, NEW k \in DOMAIN Needs(r, clone),
               \E up : Placed(clone[r], up),
               Settled(pin, Needs(r, clone)[k].repo, clone, stack)
        PROVE  InPlace(Needs(r, clone)[k].repo,
                       <<"origin", Needs(r, clone)[k].branch>>)
    <3> DEFINE d == Needs(r, clone)[k]
    <3>1. Here(clone[r]).up \in Upstreams /\ d.repo \in Repos
      BY <2>1, <2>4, NeedsType DEF Placed
    <3>2. d.branch = pin[d.repo]
      BY <1>2, <3>1 DEF Pins, Needs
    <3>3. UpToDate(clone[d.repo]) /\ Placed(clone[d.repo], Pinned(pin, d.repo))
      BY <2>1, <2>4 DEF Settled, Busy, Top
    <3>4. QED
      BY <2>1, <3>1, <3>2, <3>3, PlacedIsInPlace DEF Pinned
  <2>5. ASSUME NEW k \in DOMAIN Needs(Top.repo, clone)
        PROVE  Complete(pin, Needs(Top.repo, clone)[k].repo, clone, stack)
    <3>1. Progress(pin, 1, clone, stack) /\ ~Awaited(1, Needs(Top.repo, clone)[k], stack)
      BY <2>1, <2>2 DEF DoneOK, Awaited
    <3>2. QED
      BY <2>1, <2>2, <3>1 DEF Progress
  <2>6. Have(Top.repo)
    BY <2>2, <2>3, <2>4, <2>5 DEF Complete
  <2>7. ASSUME NEW k \in DOMAIN Needs(Top.repo, clone)
        PROVE  Have(Needs(Top.repo, clone)[k].repo)
    <3> DEFINE q == Needs(Top.repo, clone)[k].repo
    <3>1. Complete(pin, q, clone, stack) /\ q \in Repos
      BY <2>1, <2>2, <2>3, <2>5, NeedsType DEF Placed
    <3>2. Placed(clone[q], Pinned(pin, q))
      BY <3>1 DEF Complete, Settled
    <3>3. QED
      BY <2>4, <3>1, <3>2 DEF Complete
  <2>8. QED
    BY <2>6, <2>7
<1>4. QED
  BY <1>1, <1>2, <1>3, DependInvariant, PTL
=============================================================================
