--------------------------- MODULE DecisionsProofs ---------------------------
(***************************************************************************)
(* That what the desktop computes is what it should, for every input: of   *)
(* each topic of Decisions and of Rules the Sound... that says what a good *)
(* answer is holds of the answer that is computed, whatever is given, and  *)
(* so every decision is as promised.  At the end, of the chats for every   *)
(* number of calls and models: one llama-server runs at most, and what a   *)
(* page hears last agrees with what the call returns.                      *)
(***************************************************************************)
EXTENDS Chat, Decisions, Recursion

\* A tag is of any number and pre-release, or no version.
AnyTag == [v : {"", "v", "V"}, number : Nat, pre : Nat, build : Nat] \cup {[v |-> "text"]}

\* The update check tells a release as newer only if it is one, whatever the two
\* versions are: LatestVersion keeps what SoundRelease promises.
THEOREM ReleaseIsSound ==
  ASSUME NEW Body,
         NEW g \in [status : {"ok", "404", "500", "lost"}, body : Body, tag : AnyTag, current : AnyTag]
  PROVE  SoundRelease(g, LatestVersion(g))
<1> DEFINE bare(t) == IF t.v = "text" THEN t ELSE [t EXCEPT !.v = "", !.build = 0]
           h == [g EXCEPT !.tag = bare(@), !.current = bare(@)]
<1>1. /\ h.status = g.status /\ h.body = g.body
      /\ h.tag = bare(g.tag) /\ h.current = bare(g.current)
  OBVIOUS
<1>2. g.tag \in AnyTag /\ g.current \in AnyTag
  OBVIOUS
<1>3. ASSUME NEW t \in AnyTag
      PROVE  /\ bare(t).v = "text" <=> t.v = "text"
             /\ t.v # "text" => /\ bare(t).number = t.number /\ bare(t).pre = t.pre
                                /\ t.number \in Nat /\ t.pre \in Nat
  <2>1. CASE t \in [v : {"", "v", "V"}, number : Nat, pre : Nat, build : Nat]
    <3>1. t.v # "text" /\ t.number \in Nat /\ t.pre \in Nat
      BY <2>1
    <3>2. bare(t) = [[t EXCEPT !.v = ""] EXCEPT !.build = 0]
      BY <3>1
    <3>3. bare(t).v = "" /\ bare(t).number = t.number /\ bare(t).pre = t.pre
      BY <2>1, <3>2
    <3>4. QED BY <3>1, <3>3
  <2>2. CASE t = [v |-> "text"]
    BY <2>2
  <2>3. QED BY <2>1, <2>2 DEF AnyTag
<1> HIDE DEF h, bare
<1>4. Outdated(h.current, h.tag) = Outdated(g.current, g.tag)
  BY <1>1, <1>2, <1>3 DEF Outdated, Precedes
<1>5. LatestVersion(h) = LatestVersion(g)
  BY <1>1, <1>4 DEF LatestVersion
<1>6. ASSUME LatestVersion(g) = "newer"
      PROVE  /\ g.status \notin {"lost", "404", "500"} /\ g.body = "release"
             /\ Outdated(g.current, g.tag) = "newer"
  BY <1>6 DEF LatestVersion
<1>7. ASSUME Outdated(g.current, g.tag) = "newer"
      PROVE  /\ Outdated(g.tag, g.current) = "same"
             /\ g.tag.number >= g.current.number /\ bare(g.tag) # bare(g.current)
  <2>1. /\ g.current.v # "text" /\ g.tag.v # "text" /\ Precedes(g.current, g.tag)
    BY <1>7 DEF Outdated
  <2>2. ~Precedes(g.tag, g.current) /\ g.tag.number >= g.current.number
        /\ (g.tag.number # g.current.number \/ g.tag.pre # g.current.pre)
    BY <1>2, <1>3, <2>1 DEF Precedes
  <2>3. bare(g.tag) # bare(g.current)
    BY <1>2, <1>3, <2>1, <2>2
  <2>4. QED BY <2>1, <2>2, <2>3 DEF Outdated
<1>8. QED BY <1>5, <1>6, <1>7 DEF SoundRelease, h, bare

-----------------------------------------------------------------------------
\* A path is any words, the last of which may be empty.
AnyFileEntry(N) ==
  [quant : BOOLEAN, path : Seq(N), source : {"hub", "hub file", "url", "bare url"}, llama : BOOLEAN]

\* The models that the page lists can be run from a file that is there, whatever the
\* entries and the files are: ListLocal keeps what SoundFiles promises.
THEOREM FilesAreSound ==
  ASSUME NEW N, NEW g, g.dir \in BOOLEAN, g.entries \in Seq(AnyFileEntry(N))
  PROVE  SoundFiles(g, ListLocal(g))
<1> DEFINE a == ListLocal(g)
<1>1. \A i \in a : g.dir /\ i \in DOMAIN g.entries /\ g.entries[i].llama
                   /\ FileName(g.entries[i]) \in g.disk
  BY DEF ListLocal
<1>2. \A i \in DOMAIN g.entries : g.entries[i].llama /\ FileName(g.entries[i]) \in g.disk /\ g.dir
                                  => i \in a
  BY DEF ListLocal
<1> HIDE DEF a
<1>3. ASSUME NEW e \in AnyFileEntry(N), e.quant, Basename(MainUrl(e)) # ""
      PROVE  FileName(e) \in {Basename(MainUrl(e))} \cup
               (IF e.source = "url" THEN {Basename(e.path)} \ {""} ELSE {})
  <2>1. e.path \in Seq(N) /\ e.source \in {"hub", "hub file", "url", "bare url"}
    BY DEF AnyFileEntry
  <2>2. Basename(<<>>) = "" /\ Basename(<<"hub", "y">>) = "y" /\ Basename(<<"host", "">>) = ""
    BY DEF Basename
  <2>3. CASE e.path # <<>> /\ e.source \in {"hub", "hub file"}
    <3>1. MainUrl(e) = <<"hub">> \o e.path
      BY <2>3 DEF MainUrl
    <3>2. Basename(<<"hub">> \o e.path) = Basename(e.path)
      <4> DEFINE p == e.path
                 q == <<"hub">> \o p
      <4>1. p \in Seq(N) /\ Len(p) \in Nat \ {0} /\ p # <<>>
        BY <2>1, <2>3, EmptySeq
      <4> HIDE DEF p
      <4>2. Len(q) = Len(p) + 1 /\ q[Len(p) + 1] = p[Len(p)] /\ q # <<>>
        BY <4>1
      <4> HIDE DEF q
      <4>3. Basename(q) = Basename(p)
        BY <4>1, <4>2 DEF Basename
      <4>4. QED BY <4>3 DEF p, q
    <3>3. QED BY <1>3, <3>1, <3>2 DEF FileName
  <2>4. CASE e.path = <<>> /\ e.source \in {"hub", "hub file"}
    <3>1. Basename(e.path) = ""
      BY <2>2, <2>4
    <3>2. QED BY <1>3, <3>1 DEF FileName
  <2>5. CASE e.source \in {"url", "bare url"}
    <3>1. MainUrl(e) = IF e.source = "url" THEN <<"host", "y">> ELSE <<"host", "">>
      BY <2>1, <2>5 DEF MainUrl
    <3>2. e.source = "url"
      <4>1. Basename(<<"host", "">>) = ""
        BY DEF Basename
      <4>2. QED BY <1>3, <2>5, <3>1, <4>1
    <3>3. QED BY <1>3, <3>2 DEF FileName
  <2>6. QED BY <2>1, <2>3, <2>4, <2>5
<1>4. ASSUME NEW i \in DOMAIN g.entries
      PROVE  LET e == g.entries[i] IN
               /\ i \in a => e.llama /\ FileName(e) \in g.disk
               /\ e.quant /\ Basename(MainUrl(e)) # "" =>
                    FileName(e) \in {Basename(MainUrl(e))} \cup
                      (IF e.source = "url" THEN {Basename(e.path)} \ {""} ELSE {})
               /\ \A j \in a : e.llama /\ FileName(e) = FileName(g.entries[j]) => i \in a
  <2>1. g.entries[i] \in AnyFileEntry(N)
    OBVIOUS
  <2>2. QED BY <1>1, <1>2, <1>3, <2>1
<1>5. QED BY <1>1, <1>4 DEF SoundFiles, a

-----------------------------------------------------------------------------
\* The messages that were imported are read back as they were, whatever is said and by
\* whom: ParseLine keeps what SoundImport promises.
THEOREM ImportIsSound ==
  ASSUME NEW R, NEW g, g.list \in Seq([role : R, text : BOOLEAN])
  PROVE  SoundImport(g, ParseLine(g))
<1> DEFINE a == ParseLine(g)
<1>1. ASSUME a.ok
      PROVE  \E n \in Nat : /\ DOMAIN a.messages = 1..n
                            /\ a = [ok |-> TRUE, messages |-> [i \in 1..n |-> a.messages[i]]]
                            /\ \A i \in 1..n : /\ NormalizeRole(a.messages[i]) = a.messages[i]
                                               /\ a.messages[i] # "missing"
  <2>1. CASE a = FromList(g.list)
    <3> DEFINE m == [i \in DOMAIN g.list |-> NormalizeRole(g.list[i].role)]
    <3>1. a = [ok |-> TRUE, messages |-> m] /\ \A i \in DOMAIN g.list : g.list[i].role # "missing"
      BY <1>1, <2>1 DEF FromList
    <3>2. Len(g.list) \in Nat /\ DOMAIN g.list = 1..Len(g.list)
      OBVIOUS
    <3>3. a.messages = m
      BY <3>1
    <3>4. \A i \in DOMAIN g.list : NormalizeRole(m[i]) = m[i] /\ m[i] # "missing"
      BY <3>1 DEF NormalizeRole
    <3> DEFINE k == Len(g.list)
    <3>5. m = [i \in 1..k |-> m[i]] /\ DOMAIN m = 1..k /\ DOMAIN m = DOMAIN g.list
      BY <3>2
    <3> HIDE DEF a, m
    <3>6. a.messages = [i \in 1..k |-> a.messages[i]] /\ DOMAIN a.messages = 1..k
      BY <3>3, <3>5
    <3>7. a = [ok |-> TRUE, messages |-> [i \in 1..k |-> a.messages[i]]]
      BY <3>1, <3>3, <3>6
    <3>8. \A i \in 1..k : NormalizeRole(a.messages[i]) = a.messages[i] /\ a.messages[i] # "missing"
      BY <3>3, <3>4, <3>5
    <3>9. k \in Nat
      BY <3>2
    <3> HIDE DEF k
    <3>10. QED
      <4> WITNESS k \in Nat
      <4> QED BY <3>6, <3>7, <3>8
  <2>2. CASE a = [ok |-> TRUE, messages |-> <<"user", "assistant">>]
    <3> DEFINE m == <<"user", "assistant">>
    <3>1. DOMAIN m = 1..2 /\ m = [i \in 1..2 |-> m[i]]
      OBVIOUS
    <3>2. \A i \in 1..2 : NormalizeRole(m[i]) = m[i] /\ m[i] # "missing"
      BY DEF NormalizeRole
    <3>3. a = [ok |-> TRUE, messages |-> m] /\ a.messages = m
      BY <2>2
    <3> HIDE DEF a, m
    <3>4. \A i \in 1..2 : NormalizeRole(a.messages[i]) = a.messages[i] /\ a.messages[i] # "missing"
      BY <3>2, <3>3
    <3>5. DOMAIN a.messages = 1..2 /\ a.messages = [i \in 1..2 |-> a.messages[i]]
      BY <3>1, <3>3
    <3>6. a = [ok |-> TRUE, messages |-> [i \in 1..2 |-> a.messages[i]]]
      BY <3>3, <3>5
    <3>7. QED BY <3>4, <3>5, <3>6
  <2>3. CASE a = [ok |-> FALSE, messages |-> <<>>]
    BY <1>1, <2>3
  <2>4. QED BY <2>1, <2>2, <2>3 DEF ParseLine
<1> HIDE DEF a
<1>2. ASSUME NEW n \in Nat, DOMAIN a.messages = 1..n,
             a = [ok |-> TRUE, messages |-> [i \in 1..n |-> a.messages[i]]],
             \A i \in 1..n : NormalizeRole(a.messages[i]) = a.messages[i] /\ a.messages[i] # "missing"
      PROVE  ParseLine(ToLine(a)) = a
  <2> DEFINE l == [i \in 1..n |-> [role |-> a.messages[i], text |-> TRUE]]
             m == [i \in 1..n |-> a.messages[i]]
  <2>1. ToLine(a) = [messages |-> "list", conversations |-> "absent", alpaca |-> "absent",
                     korean |-> FALSE, list |-> l]
    BY <1>2 DEF ToLine
  <2>2. ParseLine(ToLine(a)) = FromList(l)
    BY <2>1 DEF ParseLine
  <2>3. DOMAIN l = 1..n /\ \A i \in 1..n : l[i].role = a.messages[i] /\ l[i].text
    OBVIOUS
  <2> HIDE DEF l
  <2>4. FromList(l) = [ok |-> TRUE, messages |-> [i \in 1..n |-> NormalizeRole(l[i].role)]]
    BY <1>2, <2>3 DEF FromList
  <2>5. [i \in 1..n |-> NormalizeRole(l[i].role)] = m
    BY <1>2, <2>3
  <2>6. QED BY <1>2, <2>2, <2>4, <2>5
<1>3. QED BY <1>1, <1>2 DEF SoundImport, a

-----------------------------------------------------------------------------
\* A scan always has a summary, and one by a model names it, whatever is installed and
\* whatever the model replies: Summarise keeps what SoundSummary promises.
THEOREM SummaryIsSound ==
  ASSUME NEW g, g.chosen \in {"none"} \cup Elements(Cascade)
  PROVE  SoundSummary(g, Summarise(g))
<1> DEFINE S == {x \in {Cascade[i] : i \in DOMAIN Cascade} : x \in Elements(g.installed)}
           there == Kept(Cascade, S)
           M == {"exaone", "qwen", "llama"}
<1>1. Cascade \in Seq(M) /\ Elements(Cascade) = M /\ "none" \notin M
  BY DEF Cascade, Elements
<1>2. there \in Seq(M)
  BY <1>1, KeptIs
<1>3. PickModel(g) = IF g.chosen # "none" THEN g.chosen
                     ELSE IF g.tags = "down" \/ there = <<>> THEN "none" ELSE there[1]
  BY DEF PickModel, Where
<1> HIDE DEF there
<1>4. there # <<>> => there[1] \in M
  <2>1. there # <<>> => 1 \in 1..Len(there)
    BY <1>2, EmptySeq
  <2>2. QED BY <1>2, <2>1
<1> HIDE DEF M
<1>5. PickModel(g) # "none" => PickModel(g) \in M
  BY <1>1, <1>3, <1>4
<1>6. QED BY <1>1, <1>5 DEF Summarise, SoundSummary

-----------------------------------------------------------------------------
AnyCheckable(Pci, Vendor, Runtime) ==
  [windows : BOOLEAN, ram : Nat, free : Nat \cup {Nil}, gpus : Seq(AnyCard(Pci, Vendor)),
   driver : Nat \cup {Nil}, webview2 : BOOLEAN, vcredist : BOOLEAN,
   cuda : BOOLEAN, vulkan : BOOLEAN, runtime : Runtime]

\* Cards with more memory, and the better hosts that SoundChecks compares with.
Enlarged(s) == [i \in DOMAIN s |-> [s[i] EXCEPT !.mem = 12]]
Better(g) ==
  {[g EXCEPT !.ram = 32], [g EXCEPT !.free = IF @ = Nil THEN @ ELSE 100],
   [g EXCEPT !.driver = 530], [g EXCEPT !.cuda = TRUE], [g EXCEPT !.vulkan = TRUE],
   [g EXCEPT !.gpus = Enlarged(@)]}

\* Cards that are alike in all but their memory are of the same vendors.
LEMMA VendorsStay ==
  ASSUME NEW Pci, NEW Vendor, NEW s \in Seq(AnyCard(Pci, Vendor)), NEW v
  PROVE  /\ Enlarged(s) \in Seq(AnyCard(Pci, Vendor)) /\ Len(Enlarged(s)) = Len(s)
         /\ \A i \in 1..Len(s) : Enlarged(s)[i].mem = 12
         /\ ByVendor(Enlarged(s), v) = <<>> <=> ByVendor(s, v) = <<>>
<1> DEFINE C == AnyCard(Pci, Vendor)
           t == Enlarged(s)
           n == Len(s)
<1>1. n \in Nat /\ DOMAIN s = 1..n /\ \A i \in 1..n : s[i] \in C
  OBVIOUS
<1>2. \A i \in 1..n : [s[i] EXCEPT !.mem = 12] \in C
  BY <1>1 DEF AnyCard
<1>3. /\ DOMAIN t = 1..n /\ t = [i \in 1..n |-> [s[i] EXCEPT !.mem = 12]]
      /\ \A i \in 1..n : t[i] = [s[i] EXCEPT !.mem = 12]
  BY <1>1 DEF Enlarged
<1>4. \A i \in 1..n : t[i].mem = 12 /\ t[i].vendor = s[i].vendor
  BY <1>1, <1>3 DEF AnyCard
<1> HIDE DEF C, n, t
<1>5. t \in Seq(C) /\ Len(t) = n
  BY <1>1, <1>2, <1>3
<1>6. ASSUME NEW u \in Seq(C)
      PROVE  ByVendor(u, v) = <<>> <=> \A i \in 1..Len(u) : u[i].vendor # v
  <2> DEFINE S == {x \in {u[i] : i \in DOMAIN u} : x.vendor = v}
  <2>1. ByVendor(u, v) = Kept(u, S)
    BY DEF ByVendor, Where
  <2>2. DOMAIN u = 1..Len(u)
    BY <1>6
  <2>3. \A i \in 1..Len(u) : u[i] \in S <=> u[i].vendor = v
    BY <2>2
  <2> HIDE DEF S
  <2>4. QED BY <2>1, <2>3, KeptNothing
<1>7. s \in Seq(C)
  BY DEF C
<1>8. ByVendor(t, v) = <<>> <=> ByVendor(s, v) = <<>>
  <2>1. ByVendor(s, v) = <<>> <=> \A i \in 1..n : s[i].vendor # v
    BY <1>6, <1>7 DEF n
  <2>2. ByVendor(t, v) = <<>> <=> \A i \in 1..n : t[i].vendor # v
    BY <1>5, <1>6
  <2>3. QED BY <1>4, <2>1, <2>2
<1>9. QED BY <1>4, <1>5, <1>8 DEF t, n, C

\* The card of an all-equal memory that decides has that memory.
LEMMA PrimaryOfEqual ==
  ASSUME NEW t, NEW n \in Nat, n >= 1, DOMAIN t = 1..n, \A i \in 1..n : t[i].mem = 12
  PROVE  Primary(t).mem = 12
<1>1. {c.mem : c \in Elements(t)} = {12}
  <2>1. 1 \in 1..n
    OBVIOUS
  <2>2. QED BY <2>1 DEF Elements
<1>2. Max({12}) = 12
  BY DEF Max
<1>3. {i \in DOMAIN t : t[i].mem = 12} = 1..n
  OBVIOUS
<1>4. Max(1..n) = n
  <2>1. n \in 1..n
    OBVIOUS
  <2>2. QED BY <2>1, GreatestIsAdded
<1>5. Primary(t) = t[n]
  BY <1>1, <1>2, <1>3, <1>4 DEF Primary
<1>6. QED BY <1>5

\* A better host is not told worse things, and what is told as an error is a component
\* that Windows lacks, whatever the host has: Check keeps what SoundChecks promises.
THEOREM ChecksAreSound ==
  ASSUME NEW Pci, NEW Vendor, NEW Runtime, NEW g \in AnyCheckable(Pci, Vendor, Runtime)
  PROVE  SoundChecks(g, Check(g))
<1> DEFINE F == {"ram", "disk", "gpu", "webview2", "vcredist", "driver", "cuda", "vulkan", "runtime"}
           a == Check(g)
<1>1. /\ g.ram \in Nat /\ g.free \in Nat \cup {Nil} /\ g.driver \in Nat \cup {Nil}
      /\ g.gpus \in Seq(AnyCard(Pci, Vendor))
      /\ g.windows \in BOOLEAN /\ g.webview2 \in BOOLEAN /\ g.vcredist \in BOOLEAN
      /\ g.cuda \in BOOLEAN /\ g.vulkan \in BOOLEAN
  BY DEF AnyCheckable
<1>2. ASSUME NEW h
      PROVE  /\ DOMAIN Check(h) = F
             /\ Check(h).ram = (IF h.ram < 8 THEN 2 ELSE 1)
             /\ Check(h).disk = (IF h.free = Nil \/ h.free >= 50 THEN 0 ELSE IF h.free < 20 THEN 2 ELSE 1)
             /\ Check(h).gpu = CheckGpu(h) /\ Check(h).driver = CheckDriver(h)
             /\ Check(h).webview2 = Missing(h.webview2 \/ ~h.windows, 3)
             /\ Check(h).vcredist = Missing(h.vcredist \/ ~h.windows, 3)
             /\ Check(h).cuda = Missing(h.cuda \/ ByVendor(h.gpus, "nvidia") = <<>>, 1)
             /\ Check(h).vulkan = Missing(h.vulkan, 1)
             /\ Check(h).runtime = (IF h.runtime = "error" THEN 2 ELSE 1)
  BY DEF Check
<1>0. DOMAIN a = F
  BY <1>2
<1> DEFINE NoWorse(h) == \A c \in DOMAIN a : Check(h)[c] <= a[c]
<1>3. ASSUME NEW h,
             /\ h.ram \in Nat /\ h.free \in Nat \cup {Nil} /\ h.driver \in Nat \cup {Nil}
             /\ h.windows = g.windows /\ h.webview2 = g.webview2 /\ h.vcredist = g.vcredist
             /\ h.runtime = g.runtime
             /\ h.ram = g.ram \/ h.ram = 32
             /\ h.free = g.free \/ (h.free = 100 /\ g.free # Nil)
             /\ h.driver = g.driver \/ h.driver = 530
             /\ g.cuda => h.cuda
             /\ g.vulkan => h.vulkan
             /\ CheckGpu(h) <= CheckGpu(g)
             /\ ByVendor(h.gpus, "nvidia") = <<>> <=> ByVendor(g.gpus, "nvidia") = <<>>
      PROVE  NoWorse(h)
  <2>1. Check(h).ram <= a.ram
    BY <1>1, <1>2, <1>3
  <2>2. Check(h).disk <= a.disk
    BY <1>1, <1>2, <1>3, SMTT(30) DEF Nil
  <2>3. Check(h).gpu <= a.gpu
    BY <1>2, <1>3
  <2>4. Check(h).webview2 <= a.webview2 /\ Check(h).vcredist <= a.vcredist
    BY <1>2, <1>3, SMTT(30) DEF Missing
  <2>5. Check(h).driver <= a.driver
    BY <1>1, <1>2, <1>3, SMTT(30) DEF CheckDriver, Nil
  <2>6. Check(h).cuda <= a.cuda /\ Check(h).vulkan <= a.vulkan
    BY <1>2, <1>3 DEF Missing
  <2>7. Check(h).runtime <= a.runtime
    BY <1>2, <1>3
  <2> HIDE DEF a
  <2>8. QED BY <1>0, <2>1, <2>2, <2>3, <2>4, <2>5, <2>6, <2>7
<1>4. /\ a.ram \in 0..2 /\ a.disk \in 0..2 /\ a.gpu \in 0..2 /\ a.webview2 \in {0, 3}
      /\ a.vcredist \in {0, 3} /\ a.driver \in 0..2 /\ a.cuda \in 0..1 /\ a.vulkan \in 0..1
      /\ a.runtime \in 0..2
  BY <1>2 DEF CheckGpu, CheckDriver, Missing
<1>5a. a.webview2 = Missing(g.webview2 \/ ~g.windows, 3) /\ a.vcredist = Missing(g.vcredist \/ ~g.windows, 3)
  BY <1>2
<1> HIDE DEF NoWorse, a
<1>5. CheckGpu(g) \in 1..2
  BY DEF CheckGpu
<1>6. NoWorse([g EXCEPT !.ram = 32])
  <2> DEFINE h == [g EXCEPT !.ram = 32]
  <2>1. /\ h.ram = 32
        /\ h.free = g.free /\ h.driver = g.driver /\ h.gpus = g.gpus
        /\ h.windows = g.windows /\ h.webview2 = g.webview2 /\ h.vcredist = g.vcredist
        /\ h.cuda = g.cuda /\ h.vulkan = g.vulkan /\ h.runtime = g.runtime
    BY DEF AnyCheckable
  <2> HIDE DEF h
  <2>2. CheckGpu(h) = CheckGpu(g)
    BY <2>1 DEF CheckGpu
  <2>3. NoWorse(h)
    BY <1>1, <1>3, <1>5, <2>1, <2>2
  <2>4. QED BY <2>3 DEF h
<1>7. NoWorse([g EXCEPT !.free = IF @ = Nil THEN @ ELSE 100])
  <2> DEFINE h == [g EXCEPT !.free = IF @ = Nil THEN @ ELSE 100]
  <2>1. /\ h.free = IF g.free = Nil THEN g.free ELSE 100
        /\ h.ram = g.ram /\ h.driver = g.driver /\ h.gpus = g.gpus
        /\ h.windows = g.windows /\ h.webview2 = g.webview2 /\ h.vcredist = g.vcredist
        /\ h.cuda = g.cuda /\ h.vulkan = g.vulkan /\ h.runtime = g.runtime
    BY DEF AnyCheckable
  <2> HIDE DEF h
  <2>2. CheckGpu(h) = CheckGpu(g)
    BY <2>1 DEF CheckGpu
  <2>3. NoWorse(h)
    BY <1>1, <1>3, <1>5, <2>1, <2>2
  <2>4. QED BY <2>3 DEF h
<1>8. NoWorse([g EXCEPT !.driver = 530])
  <2> DEFINE h == [g EXCEPT !.driver = 530]
  <2>1. /\ h.driver = 530
        /\ h.ram = g.ram /\ h.free = g.free /\ h.gpus = g.gpus
        /\ h.windows = g.windows /\ h.webview2 = g.webview2 /\ h.vcredist = g.vcredist
        /\ h.cuda = g.cuda /\ h.vulkan = g.vulkan /\ h.runtime = g.runtime
    BY DEF AnyCheckable
  <2> HIDE DEF h
  <2>2. CheckGpu(h) = CheckGpu(g)
    BY <2>1 DEF CheckGpu
  <2>3. NoWorse(h)
    BY <1>1, <1>3, <1>5, <2>1, <2>2
  <2>4. QED BY <2>3 DEF h
<1>9. NoWorse([g EXCEPT !.cuda = TRUE])
  <2> DEFINE h == [g EXCEPT !.cuda = TRUE]
  <2>1. /\ h.cuda = TRUE
        /\ h.ram = g.ram /\ h.free = g.free /\ h.driver = g.driver
        /\ h.gpus = g.gpus /\ h.windows = g.windows /\ h.webview2 = g.webview2
        /\ h.vcredist = g.vcredist /\ h.vulkan = g.vulkan /\ h.runtime = g.runtime
    BY DEF AnyCheckable
  <2> HIDE DEF h
  <2>2. CheckGpu(h) = CheckGpu(g)
    BY <2>1 DEF CheckGpu
  <2>3. NoWorse(h)
    BY <1>1, <1>3, <1>5, <2>1, <2>2
  <2>4. QED BY <2>3 DEF h
<1>10. NoWorse([g EXCEPT !.vulkan = TRUE])
  <2> DEFINE h == [g EXCEPT !.vulkan = TRUE]
  <2>1. /\ h.vulkan = TRUE
        /\ h.ram = g.ram /\ h.free = g.free /\ h.driver = g.driver
        /\ h.gpus = g.gpus /\ h.windows = g.windows /\ h.webview2 = g.webview2
        /\ h.vcredist = g.vcredist /\ h.cuda = g.cuda /\ h.runtime = g.runtime
    BY DEF AnyCheckable
  <2> HIDE DEF h
  <2>2. CheckGpu(h) = CheckGpu(g)
    BY <2>1 DEF CheckGpu
  <2>3. NoWorse(h)
    BY <1>1, <1>3, <1>5, <2>1, <2>2
  <2>4. QED BY <2>3 DEF h
<1>11. NoWorse([g EXCEPT !.gpus = Enlarged(@)])
  <2> DEFINE t == Enlarged(g.gpus)
             h == [g EXCEPT !.gpus = Enlarged(@)]
  <2>1. /\ h.gpus = t
        /\ h.ram = g.ram /\ h.free = g.free /\ h.driver = g.driver
        /\ h.windows = g.windows /\ h.webview2 = g.webview2 /\ h.vcredist = g.vcredist
        /\ h.cuda = g.cuda /\ h.vulkan = g.vulkan /\ h.runtime = g.runtime
    BY DEF AnyCheckable
  <2>2. /\ t \in Seq(AnyCard(Pci, Vendor)) /\ Len(t) = Len(g.gpus)
        /\ \A i \in 1..Len(g.gpus) : t[i].mem = 12
        /\ ByVendor(t, "nvidia") = <<>> <=> ByVendor(g.gpus, "nvidia") = <<>>
    <3> DEFINE s == g.gpus
               v == "nvidia"
    <3>1. s \in Seq(AnyCard(Pci, Vendor))
      BY <1>1
    <3> HIDE DEF s, v
    <3>2. /\ Enlarged(s) \in Seq(AnyCard(Pci, Vendor)) /\ Len(Enlarged(s)) = Len(s)
          /\ \A i \in 1..Len(s) : Enlarged(s)[i].mem = 12
          /\ ByVendor(Enlarged(s), v) = <<>> <=> ByVendor(s, v) = <<>>
      BY <3>1, VendorsStay
    <3>3. QED BY <3>2 DEF s, v
  <2> HIDE DEF t, h
  <2>3. t # <<>> => Primary(t).mem = 12
    <3>1. t # <<>> => Len(t) \in Nat /\ Len(t) >= 1 /\ DOMAIN t = 1..Len(t)
      BY <2>2, EmptySeq
    <3>2. QED BY <2>2, <3>1, PrimaryOfEqual
  <2>4. CheckGpu(h) = 1
    BY <2>1, <2>3 DEF CheckGpu
  <2>5. NoWorse(h)
    BY <1>1, <1>3, <1>5, <2>1, <2>2, <2>4
  <2>6. QED BY <2>5 DEF h, t
<1>12. (\E c \in DOMAIN a : a[c] = 3) <=> (g.windows /\ ~(g.webview2 /\ g.vcredist))
  <2>2. (\E c \in DOMAIN a : a[c] = 3) <=> (a.webview2 = 3 \/ a.vcredist = 3)
    BY <1>0, <1>4
  <2>3. QED BY <1>1, <1>5a, <2>2 DEF Missing
<1>13. ASSUME NEW h \in Better(g) PROVE NoWorse(h)
  <2>1. \/ h = [g EXCEPT !.ram = 32] \/ h = [g EXCEPT !.free = IF @ = Nil THEN @ ELSE 100]
        \/ h = [g EXCEPT !.driver = 530] \/ h = [g EXCEPT !.cuda = TRUE]
        \/ h = [g EXCEPT !.vulkan = TRUE] \/ h = [g EXCEPT !.gpus = Enlarged(@)]
    BY DEF Better
  <2> DEFINE a1 == [g EXCEPT !.ram = 32]
             a2 == [g EXCEPT !.free = IF @ = Nil THEN @ ELSE 100]
             a3 == [g EXCEPT !.driver = 530]
             a4 == [g EXCEPT !.cuda = TRUE]
             a5 == [g EXCEPT !.vulkan = TRUE]
             a6 == [g EXCEPT !.gpus = Enlarged(@)]
  <2>2. NoWorse(a1) /\ NoWorse(a2) /\ NoWorse(a3) /\ NoWorse(a4) /\ NoWorse(a5) /\ NoWorse(a6)
    BY <1>6, <1>7, <1>8, <1>9, <1>10, <1>11
  <2>3. h \in {a1, a2, a3, a4, a5, a6}
    BY <2>1
  <2> HIDE DEF a1, a2, a3, a4, a5, a6
  <2>4. QED BY <2>2, <2>3
<1>14. SoundChecks(g, a) <=> /\ \A h \in Better(g) : NoWorse(h)
                             /\ (\E c \in DOMAIN a : a[c] = 3) <=> (g.windows /\ ~(g.webview2 /\ g.vcredist))
  BY DEF SoundChecks, Better, Enlarged, NoWorse
<1>15. QED BY <1>12, <1>13, <1>14 DEF a

-----------------------------------------------------------------------------
\* A report of an evaluation is about every case, and its categories add up, however
\* many cases there are: RunSuite keeps what SoundSuite promises.
THEOREM SuiteIsSound ==
  ASSUME NEW g, g.cases \in Seq(Case)
  PROVE  SoundSuite(g, RunSuite(g))
<1> DEFINE s == g.cases
           n == Len(s)
           at(c) == {i \in 1..n : s[i].category = c}
           well(c) == {i \in 1..n : s[i].category = c /\ Passed(s[i])}
           F == "factuality"
           T == "tone"
<1>1. n \in Nat /\ DOMAIN s = 1..n /\ \A i \in 1..n : s[i].category \in {F, T}
  <2>1. n \in Nat /\ DOMAIN s = 1..n /\ \A i \in 1..n : s[i] \in Case
    OBVIOUS
  <2> HIDE DEF s, n
  <2>2. \A i \in 1..n : s[i].category \in {F, T}
    BY <2>1 DEF Case
  <2>3. QED BY <2>1, <2>2
<1> HIDE DEF s
<1>2. /\ Counts(s, "all") = [passed |-> Cardinality({i \in 1..n : Passed(s[i])}),
                             total |-> Cardinality(1..n)]
      /\ Counts(s, F) = [passed |-> Cardinality(well(F)), total |-> Cardinality(at(F))]
      /\ Counts(s, T) = [passed |-> Cardinality(well(T)), total |-> Cardinality(at(T))]
  <2>1. {i \in DOMAIN s : "all" \in {s[i].category, "all"} /\ Passed(s[i])} = {i \in 1..n : Passed(s[i])}
        /\ {i \in DOMAIN s : "all" \in {s[i].category, "all"}} = 1..n
    BY <1>1
  <2>2. ASSUME NEW c \in {F, T}
        PROVE  /\ {i \in DOMAIN s : c \in {s[i].category, "all"} /\ Passed(s[i])} = well(c)
               /\ {i \in DOMAIN s : c \in {s[i].category, "all"}} = at(c)
    BY <1>1
  <2>3. QED BY <2>1, <2>2 DEF Counts
<1> DEFINE all == {i \in 1..n : Passed(s[i])}
<1>3. /\ 1..n = at(F) \cup at(T) /\ at(F) \cap at(T) = {}
      /\ all = well(F) \cup well(T) /\ well(F) \cap well(T) = {}
  BY <1>1
<1>4. /\ IsFiniteSet(1..n) /\ Cardinality(1..n) = n
      /\ \A P \in SUBSET (1..n) : IsFiniteSet(P) /\ Cardinality(P) \in Nat
  <2> HIDE DEF n
  <2>1. QED BY <1>1, PlacesAreFinite
<1>5. at(F) \in SUBSET (1..n) /\ at(T) \in SUBSET (1..n) /\ well(F) \in SUBSET (1..n) /\ well(T) \in SUBSET (1..n)
  OBVIOUS
<1> HIDE DEF n, at, well, all
<1>6. /\ Cardinality(at(F)) + Cardinality(at(T)) = n
      /\ Cardinality(well(F)) + Cardinality(well(T)) = Cardinality(all)
  <2>1. ASSUME NEW P \in SUBSET (1..n), NEW Q \in SUBSET (1..n), P \cap Q = {}
        PROVE  Cardinality(P) + Cardinality(Q) = Cardinality(P \cup Q)
    <3>1. IsFiniteSet(P) /\ IsFiniteSet(Q) /\ Cardinality(P) \in Nat /\ Cardinality(Q) \in Nat
      BY <1>4
    <3>2. Cardinality(P \cup Q) = Cardinality(P) + Cardinality(Q) - Cardinality({})
      BY <2>1, <3>1, FS_Union
    <3>3. QED BY <3>1, <3>2, FS_EmptySet
  <2>2. QED BY <1>3, <1>4, <1>5, <2>1
<1>7. ASSUME NEW a \in Nat, NEW b \in Nat, NEW q, q = [i \in 1..2 |-> IF i = 1 THEN a ELSE b]
      PROVE  Total(q) = a + b
  <2> DEFINE f == [i \in 0..2 |-> CASE i = 0 -> 0 [] i = 1 -> a [] i = 2 -> a + b]
  <2>1. q \in Seq(Nat) /\ Len(q) = 2 /\ q[1] = a /\ q[2] = b
    BY <1>7
  <2>2. f[0] = 0 /\ f[1] = a /\ f[2] = a + b
    OBVIOUS
  <2> HIDE DEF f
  <2>3. SumsUp(f, q)
    BY <2>1, <2>2 DEF SumsUp
  <2>4. QED BY <2>1, <2>2, <2>3, TotalIs
<1> DEFINE a == RunSuite(g)
<1>8. CASE a.report
  <2>1. a = [report |-> TRUE, all |-> Counts(s, "all"), by |-> <<Counts(s, F), Counts(s, T)>>]
    BY <1>8 DEF RunSuite, s
  <2>2. /\ a.all.total = n /\ a.all.passed = Cardinality(all)
        /\ a.by[1].passed = Cardinality(well(F)) /\ a.by[2].passed = Cardinality(well(T))
        /\ a.by[1].total = Cardinality(at(F)) /\ a.by[2].total = Cardinality(at(T))
    BY <1>2, <1>4, <2>1 DEF all
  <2> HIDE DEF a
  <2>3. Total([i \in 1..2 |-> a.by[i].passed]) = Cardinality(well(F)) + Cardinality(well(T))
    <3> DEFINE q == [i \in 1..2 |-> a.by[i].passed]
    <3>1. q = [i \in 1..2 |-> IF i = 1 THEN Cardinality(well(F)) ELSE Cardinality(well(T))]
      BY <2>2
    <3>2. Cardinality(well(F)) \in Nat /\ Cardinality(well(T)) \in Nat
      BY <1>4, <1>5
    <3> HIDE DEF q
    <3>3. Total(q) = Cardinality(well(F)) + Cardinality(well(T))
      BY <1>7, <3>1, <3>2
    <3>4. QED BY <3>3 DEF q
  <2>4. Total([i \in 1..2 |-> a.by[i].total]) = Cardinality(at(F)) + Cardinality(at(T))
    <3> DEFINE q == [i \in 1..2 |-> a.by[i].total]
    <3>1. q = [i \in 1..2 |-> IF i = 1 THEN Cardinality(at(F)) ELSE Cardinality(at(T))]
      BY <2>2
    <3>2. Cardinality(at(F)) \in Nat /\ Cardinality(at(T)) \in Nat
      BY <1>4, <1>5
    <3> HIDE DEF q
    <3>3. Total(q) = Cardinality(at(F)) + Cardinality(at(T))
      BY <1>7, <3>1, <3>2
    <3>4. QED BY <3>3 DEF q
  <2>5. SoundSuite(g, a)
    BY <1>6, <2>2, <2>3, <2>4 DEF SoundSuite, n, s
  <2>6. QED BY <2>5 DEF a
<1>9. CASE ~a.report
  BY <1>9 DEF SoundSuite
<1>10. QED BY <1>8, <1>9

-----------------------------------------------------------------------------
\* A survey asks nobody who does not match, and as many as were wanted if there are,
\* whoever the people are: Sample keeps what SoundSample promises.
THEOREM SampleIsSound ==
  ASSUME NEW P, NEW Sex, NEW Wanted,
         NEW g \in [people : Seq(P), sex : Sex, min : Int, max : Int, any : SUBSET Wanted,
                    size : Nat, shuffled : BOOLEAN]
  PROVE  SoundSample(g, Sample(g))
<1> DEFINE S(h) == {x \in {h.people[i] : i \in DOMAIN h.people} : Matches(x, h)}
           fit(h) == Kept(h.people, S(h))
           order == IF g.shuffled THEN Reverse(fit(g)) ELSE fit(g)
           a == Sample(g)
           h == [g EXCEPT !.any = {}]
<1>1. ASSUME NEW z PROVE Sample(z).of = Len(fit(z))
  BY DEF Sample, Where
<1>2. a = [people |-> SubSeq(order, 1, Min({g.size, Len(fit(g))})), of |-> Len(fit(g))]
  BY DEF Sample, Where
<1>3. fit(g) \in Seq(P) /\ ToSet(fit(g)) = ToSet(g.people) \cap S(g)
  BY KeptIs
<1>4. order \in Seq(P) /\ Len(order) = Len(fit(g)) /\ ToSet(order) = ToSet(fit(g))
  BY <1>3, Backwards
<1>5. \A x \in ToSet(order) : Matches(x, g)
  BY <1>3, <1>4
<1> HIDE DEF order
<1>6. /\ a.people \in Seq(P) /\ Len(a.people) = IF g.size <= Len(order) THEN g.size ELSE Len(order)
      /\ \A i \in 1..Len(a.people) : a.people[i] = order[i] /\ i \in 1..Len(order)
  <2> HIDE DEF a
  <2> DEFINE p == a.people
             k == g.size
  <2>1. p = FirstOf(order, k) /\ k \in Nat
    BY <1>2, <1>4 DEF FirstOf
  <2> HIDE DEF p, k
  <2>2. /\ p \in Seq(P) /\ Len(p) = IF k <= Len(order) THEN k ELSE Len(order)
        /\ \A i \in 1..Len(p) : p[i] = order[i] /\ i \in 1..Len(order)
    BY <1>4, <2>1, FirstFew
  <2>3. QED BY <2>2 DEF p, k
<1>7. a.of = Len(order) /\ Len(order) \in Nat
  BY <1>2, <1>4
<1>8. \A p \in Elements(a.people) : Matches(p, g)
  <2> HIDE DEF a
  <2>1. DOMAIN a.people = 1..Len(a.people) /\ DOMAIN order = 1..Len(order)
    BY <1>4, <1>6
  <2>2. QED BY <1>5, <1>6, <2>1 DEF Elements, ToSet
<1>9. Sample(h).of >= a.of
  <2>1. h.people = g.people /\ h.sex = g.sex /\ h.min = g.min /\ h.max = g.max /\ h.any = {}
    OBVIOUS
  <2> HIDE DEF h
  <2>2. \A p : Matches(p, g) => Matches(p, h)
    BY <2>1 DEF Matches
  <2>3. DOMAIN g.people = 1..Len(g.people)
    OBVIOUS
  <2>4. \A i \in 1..Len(g.people) : g.people[i] \in S(g) => g.people[i] \in S(h)
    BY <2>1, <2>2, <2>3
  <2>5. Len(fit(h)) = Len(Kept(g.people, S(h)))
    BY <2>1
  <2>6. Sample(h).of = Len(fit(h)) /\ a.of = Len(fit(g))
    BY <1>1
  <2> HIDE DEF S, a
  <2>7. Len(Kept(g.people, S(g))) <= Len(Kept(g.people, S(h)))
    BY <2>4, KeptGrows
  <2>8. Len(Kept(g.people, S(g))) \in Nat /\ Len(Kept(g.people, S(h))) \in Nat
    BY KeptIs
  <2>9. QED BY <2>5, <2>6, <2>7, <2>8
<1>10. Len(a.people) < g.size => Len(a.people) = a.of
  BY <1>6, <1>7
<1>11. QED BY <1>8, <1>9, <1>10 DEF SoundSample

-----------------------------------------------------------------------------
\* windows: any adapters, with drivers of the versions of the two lengths or of none.
Short == <<"1", ".", "5">>
Long == <<"1", "5", ".", "5", "1", "8", "6">>
Shown == <<"5", "5", "1", ".", "8", "6">>
AnyAdapter(V) == [vendor : V, version : {<<>>, Short, Long}]
AnyWindows(V) ==
  [pv : [Elements(RegistryKeys) -> {"absent", "0.0.0.0", "120"}],
   vcredist : [installed : Int, version : BOOLEAN], adapters : Seq(AnyAdapter(V))]

\* What users know a driver by, of the versions of the two lengths.
LEMMA VersionsAreShown == UserVisible(Short) = Short /\ UserVisible(Long) = Shown
<1> DEFINE C == {"1", "5", "8", "6", "."}
           S(raw) == {x \in {raw[i] : i \in DOMAIN raw} : x # "."}
           D == {"1", "5", "8", "6"}
<1>2. UserVisible(Short) = Short
  <2> DEFINE raw == Short
  <2>1. Len(Where(raw, LAMBDA x : x # ".")) <= 3
    <3>1. raw \in Seq(C) /\ Len(raw) = 3
      BY DEF Short
    <3>2. Len(Kept(raw, S(raw))) <= 3
      <4> HIDE DEF C, S
      <4> DEFINE P == {i \in 1..Len(raw) : raw[i] \in S(raw)}
      <4>1. Len(Kept(raw, S(raw))) = Cardinality(P)
        BY <3>1, KeptCounts
      <4>2. P \in SUBSET (1..3) /\ 3 \in Nat
        BY <3>1
      <4> HIDE DEF P
      <4>3. QED BY <4>1, <4>2, PlacesAreFinite
    <3>3. QED BY <3>2 DEF Where
  <2>2. Len(Where(raw, LAMBDA x : x # ".")) \in Nat
    <3>1. raw \in Seq(C)
      BY DEF Short
    <3>2. Kept(raw, S(raw)) \in Seq(C)
      BY <3>1, KeptIs
    <3>3. Len(Kept(raw, S(raw))) \in Nat
      BY <3>2
    <3>4. QED BY <3>3 DEF Where
  <2>3. Len(Where(raw, LAMBDA x : x # ".")) < 5
    BY <2>1, <2>2
  <2>4. QED BY <2>3, Zenon DEF UserVisible
<1>3. UserVisible(Long) = Shown
  <2> DEFINE raw == Long
             T == {"1", "5", "8", "6"}
             digits == <<"1", "5", "5", "1", "8", "6">>
  <2>1. S(raw) = T
    BY DEF Long
  <2>2. Kept(raw, T) = digits
    <3> DEFINE r0 == <<>>
               r1 == <<"1">>
               r2 == <<"1", "5">>
               r3 == <<"1", "5", ".">>
               r4 == <<"1", "5", ".", "5">>
               r5 == <<"1", "5", ".", "5", "1">>
               r6 == <<"1", "5", ".", "5", "1", "8">>
               r7 == <<"1", "5", ".", "5", "1", "8", "6">>
               k0 == <<>>
               k1 == <<"1">>
               k2 == <<"1", "5">>
               k3 == <<"1", "5", "5">>
               k4 == <<"1", "5", "5", "1">>
               k5 == <<"1", "5", "5", "1", "8">>
               k6 == <<"1", "5", "5", "1", "8", "6">>
    <3>1. Kept(r0, T) = k0
      <4> HIDE DEF T
      <4>1. QED BY KeptOfAppend
    <3>2. r1 = Append(r0, "1") /\ r0 \in Seq(C) /\ "1" \in C /\ "1" \in T /\ k1 = Append(k0, "1")
      OBVIOUS
    <3>3. r2 = Append(r1, "5") /\ r1 \in Seq(C) /\ "5" \in C /\ "5" \in T /\ k2 = Append(k1, "5")
      OBVIOUS
    <3>4. r3 = Append(r2, ".") /\ r2 \in Seq(C) /\ "." \in C /\ "." \notin T
      OBVIOUS
    <3>5. r4 = Append(r3, "5") /\ r3 \in Seq(C) /\ "5" \in C /\ "5" \in T /\ k3 = Append(k2, "5")
      OBVIOUS
    <3>6. r5 = Append(r4, "1") /\ r4 \in Seq(C) /\ "1" \in C /\ "1" \in T /\ k4 = Append(k3, "1")
      OBVIOUS
    <3>7. r6 = Append(r5, "8") /\ r5 \in Seq(C) /\ "8" \in C /\ "8" \in T /\ k5 = Append(k4, "8")
      OBVIOUS
    <3>8. r7 = Append(r6, "6") /\ r6 \in Seq(C) /\ "6" \in C /\ "6" \in T /\ k6 = Append(k5, "6")
      OBVIOUS
    <3> HIDE DEF C, T, r0, r1, r2, r3, r4, r5, r6, r7, k0, k1, k2, k3, k4, k5, k6
    <3>9. Kept(r1, T) = k1
      BY <3>1, <3>2, KeepsOne
    <3>10. Kept(r2, T) = k2
      BY <3>9, <3>3, KeepsOne
    <3>11. Kept(r3, T) = k2
      BY <3>10, <3>4, DropsOne
    <3>12. Kept(r4, T) = k3
      BY <3>11, <3>5, KeepsOne
    <3>13. Kept(r5, T) = k4
      BY <3>12, <3>6, KeepsOne
    <3>14. Kept(r6, T) = k5
      BY <3>13, <3>7, KeepsOne
    <3>15. Kept(r7, T) = k6
      BY <3>14, <3>8, KeepsOne
    <3>16. QED BY <3>15 DEF Long, r7, k6
  <2>3. digits \in Seq(D) /\ Len(digits) = 6
    OBVIOUS
  <2>4. UserVisible(raw) = SubSeq(digits, 6 - 4, 6 - 2) \o <<".">> \o SubSeq(digits, 6 - 1, 6)
    <3>1. Where(raw, LAMBDA x : x # ".") = digits
      BY <2>1, <2>2 DEF Where
    <3> HIDE DEF digits
    <3>2. ~(Len(digits) < 5)
      BY <2>3
    <3>3. UserVisible(raw) = SubSeq(digits, Len(digits) - 4, Len(digits) - 2) \o <<".">>
                               \o SubSeq(digits, Len(digits) - 1, Len(digits))
      BY <3>1, <3>2, Zenon DEF UserVisible
    <3>4. QED BY <2>3, <3>3
  <2>5. SubSeq(digits, 2, 4) = <<"5", "5", "1">>
    <3> DEFINE t == SubSeq(digits, 2, 4)
               u == <<"5", "5", "1">>
    <3>1. digits[2] = "5" /\ digits[3] = "5" /\ digits[4] = "1" /\ \A i \in 2..4 : digits[i] \in D
      OBVIOUS
    <3>2. u \in Seq(D) /\ Len(u) = 3 /\ u[1] = "5" /\ u[2] = "5" /\ u[3] = "1"
      OBVIOUS
    <3> HIDE DEF digits, D, u
    <3>3. t \in Seq(D) /\ Len(t) = 3 /\ \A i \in 1..3 : t[i] = digits[2 + i - 1]
      BY <3>1, SubSeqProperties
    <3> HIDE DEF t
    <3>4. \A i \in 1..3 : t[i] = u[i]
      BY <3>1, <3>2, <3>3
    <3>5. t = u
      BY <3>2, <3>3, <3>4, SeqEqual
    <3>6. QED BY <3>5 DEF t, u
  <2>6. SubSeq(digits, 5, 6) = <<"8", "6">>
    <3> DEFINE t == SubSeq(digits, 5, 6)
               u == <<"8", "6">>
    <3>1. digits[5] = "8" /\ digits[6] = "6" /\ \A i \in 5..6 : digits[i] \in D
      OBVIOUS
    <3>2. u \in Seq(D) /\ Len(u) = 2 /\ u[1] = "8" /\ u[2] = "6"
      OBVIOUS
    <3> HIDE DEF digits, D, u
    <3>3. t \in Seq(D) /\ Len(t) = 2 /\ \A i \in 1..2 : t[i] = digits[5 + i - 1]
      BY <3>1, SubSeqProperties
    <3> HIDE DEF t
    <3>4. \A i \in 1..2 : t[i] = u[i]
      BY <3>1, <3>2, <3>3
    <3>5. t = u
      BY <3>2, <3>3, <3>4, SeqEqual
    <3>6. QED BY <3>5 DEF t, u
  <2>7. <<"5", "5", "1">> \o <<".">> \o <<"8", "6">> = Shown
    <3>1. <<"5", "5", "1">> \o <<".">> = <<"5", "5", "1", ".">>
      <4> DEFINE p == <<"5", "5", "1">>
                 q == <<".">>
                 r == <<"5", "5", "1", ".">>
                 X == {"1", "5", "8", "6", "."}
      <4>1. p \in Seq(X) /\ q \in Seq(X) /\ r \in Seq(X) /\ Len(r) = Len(p) + Len(q)
        OBVIOUS
      <4>2. (\A i \in 1..Len(p) : r[i] = p[i]) /\ (\A i \in 1..Len(q) : r[Len(p) + i] = q[i])
        OBVIOUS
      <4> HIDE DEF p, q, r, X
      <4>3. p \o q = r
        BY <4>1, <4>2, JoinedIs
      <4>4. QED BY <4>3 DEF p, q, r
    <3>2. <<"5", "5", "1", ".">> \o <<"8", "6">> = <<"5", "5", "1", ".", "8", "6">>
      <4> DEFINE p == <<"5", "5", "1", ".">>
                 q == <<"8", "6">>
                 r == <<"5", "5", "1", ".", "8", "6">>
                 X == {"1", "5", "8", "6", "."}
      <4>1. p \in Seq(X) /\ q \in Seq(X) /\ r \in Seq(X) /\ Len(r) = Len(p) + Len(q)
        OBVIOUS
      <4>2. (\A i \in 1..Len(p) : r[i] = p[i]) /\ (\A i \in 1..Len(q) : r[Len(p) + i] = q[i])
        OBVIOUS
      <4> HIDE DEF p, q, r, X
      <4>3. p \o q = r
        BY <4>1, <4>2, JoinedIs
      <4>4. QED BY <4>3 DEF p, q, r
    <3>3. QED BY <3>1, <3>2, Zenon DEF Shown
  <2>8. QED BY <2>4, <2>5, <2>6, <2>7
<1>4. QED BY <1>2, <1>3

\* A component is told as there only if some place has a version of it that is one,
\* and the driver is one of an adapter of the vendor, told as users know it, whatever
\* adapters there are: the probe keeps what SoundWindows promises.
THEOREM WindowsIsSound ==
  ASSUME NEW V, NEW g \in AnyWindows(V)
  PROVE  SoundWindows(g, ProbeWindows(g))
<1> DEFINE a == ProbeWindows(g)
           K == {"wow", "machine", "user"}
           A == AnyAdapter(V)
           d == g.adapters
<1>1. /\ RegistryKeys \in Seq(K) /\ ToSet(RegistryKeys) = K /\ Elements(RegistryKeys) = K
      /\ {RegistryKeys[i] : i \in DOMAIN RegistryKeys} = K
  BY DEF RegistryKeys, Elements, ToSet
<1>2. /\ g.pv \in [K -> {"absent", "0.0.0.0", "120"}] /\ DOMAIN g.pv = K
      /\ g.vcredist.installed \in Int /\ g.vcredist.version \in BOOLEAN
      /\ d \in Seq(A) /\ DOMAIN d = 1..Len(d)
  BY <1>1 DEF AnyWindows
<1>3. a.webview2 = WebView2(g) /\ a.vcredist = VcRedist(g) /\ a.driver = Driver(g)
  BY DEF ProbeWindows
<1> HIDE DEF a, d
<1>4. /\ a.webview2 = "none" <=> \A p \in DOMAIN g.pv : g.pv[p] # "120"
      /\ a.webview2 # "none" => g.pv[a.webview2] = "120"
  <2> DEFINE S == {x \in K : g.pv[x] \notin {"absent", "0.0.0.0"}}
             real == Kept(RegistryKeys, S)
  <2>1. WebView2(g) = IF real = <<>> THEN "none" ELSE real[1]
    BY <1>1 DEF WebView2, Where
  <2>2. real \in Seq(K) /\ ToSet(real) = K \cap S
    BY <1>1, KeptIs
  <2>3. \A x \in K : x \in S <=> g.pv[x] = "120"
    BY <1>2
  <2>4. "none" \notin K
    OBVIOUS
  <2> HIDE DEF real, S, K
  <2>5. CASE real = <<>>
    <3>1. ToSet(real) = {}
      BY <2>5 DEF ToSet
    <3>2. a.webview2 = "none"
      BY <1>3, <2>1, <2>5
    <3>3. QED BY <1>2, <2>2, <2>3, <3>1, <3>2
  <2>6. CASE real # <<>>
    <3>1. real[1] \in ToSet(real) /\ real[1] \in K
      <4>1. 1 \in 1..Len(real) /\ DOMAIN real = 1..Len(real)
        BY <2>2, <2>6, EmptySeq
      <4>2. QED BY <2>2, <4>1 DEF ToSet
    <3>2. a.webview2 = real[1]
      BY <1>3, <2>1, <2>6
    <3>3. QED BY <1>2, <2>2, <2>3, <2>4, <3>1, <3>2
  <2>7. QED BY <2>5, <2>6
<1>5. a.vcredist => g.vcredist.version /\ g.vcredist.installed \notin {Nil, 0}
  <2>1. a.vcredist <=> g.vcredist.installed = 1 /\ g.vcredist.version
    BY <1>3, Zenon DEF VcRedist
  <2>2. 1 \notin {Nil, 0}
    BY DEF Nil
  <2>3. QED BY <2>1, <2>2, Zenon
<1> DEFINE known == {x.version : x \in {y \in Elements(d) : y.vendor = "nvidia"}} \ {<<>>}
<1>6. /\ a.driver = <<>> <=> known = {}
      /\ a.driver # <<>> => a.driver \in {v \in known : Len(v) < 6} \cup
             (IF \E v \in known : Len(v) >= 6 THEN {Shown} ELSE {})
  <2> DEFINE S == {x \in Elements(d) : x.vendor = "nvidia" /\ x.version # <<>>}
             fit == Kept(d, S)
  <2>1. Driver(g) = IF fit = <<>> THEN <<>> ELSE UserVisible(fit[1].version)
    BY DEF Driver, Where, Elements, d
  <2>2. fit \in Seq(A) /\ ToSet(fit) = ToSet(d) \cap S /\ ToSet(d) = Elements(d)
    <3>1. ToSet(d) = Elements(d)
      BY DEF ToSet, Elements
    <3> HIDE DEF S, A
    <3>2. QED BY <1>2, <3>1, KeptIs
  <2>3. known = {x.version : x \in S}
    OBVIOUS
  <2> HIDE DEF fit
  <2>4. CASE fit = <<>>
    <3>1. ToSet(fit) = {}
      BY <2>4 DEF ToSet
    <3>2. S = {}
      BY <2>2, <3>1
    <3> HIDE DEF S, known
    <3>3. known = {} /\ a.driver = <<>>
      BY <1>3, <2>1, <2>3, <2>4, <3>2
    <3>4. QED BY <3>3
  <2>5. CASE fit # <<>>
    <3> DEFINE v == fit[1].version
    <3>1. fit[1] \in S /\ fit[1] \in A
      <4>1. 1 \in 1..Len(fit) /\ DOMAIN fit = 1..Len(fit)
        BY <2>2, <2>5, EmptySeq
      <4>2. fit[1] \in ToSet(fit) /\ fit[1] \in A
        BY <2>2, <4>1 DEF ToSet
      <4>3. QED BY <2>2, <4>2
    <3>2. v \in known /\ v \in {Short, Long}
      <4>1. v # <<>> /\ v \in {<<>>, Short, Long}
        BY <3>1 DEF AnyAdapter
      <4> HIDE DEF S, known
      <4>2. v \in known
        BY <2>3, <3>1
      <4>3. QED BY <4>1, <4>2
    <3>3. a.driver = UserVisible(v)
      BY <1>3, <2>1, <2>5
    <3>4. Len(Short) = 3 /\ Len(Long) = 7 /\ Short # <<>> /\ Shown # <<>>
      BY DEF Short, Long, Shown
    <3> HIDE DEF v, known
    <3>5. CASE v = Short
      <4>1. a.driver = Short /\ Short \in {w \in known : Len(w) < 6}
        <5>1. a.driver = Short
          BY <3>3, <3>5, VersionsAreShown
        <5>2. Short \in known /\ Len(Short) < 6
          BY <3>2, <3>4, <3>5
        <5>3. QED BY <5>1, <5>2
      <4>2. known # {} /\ a.driver # <<>>
        BY <3>4, <4>1
      <4>3. QED BY <4>1, <4>2, Zenon
    <3>6. CASE v = Long
      <4>1. a.driver = Shown /\ Long \in known /\ Len(Long) >= 6
        BY <3>2, <3>3, <3>4, <3>6, VersionsAreShown
      <4>2. \E w \in known : Len(w) >= 6
        BY <4>1
      <4>3. a.driver \in {w \in known : Len(w) < 6} \cup (IF \E w \in known : Len(w) >= 6 THEN {Shown} ELSE {})
        BY <4>1, <4>2, Zenon
      <4>4. known # {} /\ a.driver # <<>>
        BY <3>4, <4>1
      <4>5. QED BY <4>3, <4>4, Zenon
    <3>7. QED BY <3>2, <3>5, <3>6
  <2>6. QED BY <2>4, <2>5
<1>7. QED BY <1>4, <1>5, <1>6 DEF SoundWindows, Shown, d, a

-----------------------------------------------------------------------------
\* quota: contexts of any messages, with a budget of any size or none.
AnyMessage == [request : BOOLEAN, total : Nat \cup {Nil}, prompt : Nat, words : Nat]
AnyQuotable == [messages : Seq(AnyMessage), budget : Nat \cup {Nil}]

\* What an estimate says is a number of tokens.
LEMMA EstimateIsNat ==
  ASSUME NEW m \in AnyMessage
  PROVE  Estimate(m) \in Nat
  BY DEF Estimate, AnyMessage, Nil

Verdicts == {"blocked", "modified", "passed"}
QuotaState == [used : Nat, said : Seq(Verdicts)]
QuotaStep(g, s, m) ==
  LET projected == s.used + Estimate(m)
      over == g.budget # Nil /\ projected > g.budget
  IN IF over /\ m.request THEN [s EXCEPT !.said = Append(@, "blocked")]
     ELSE [used |-> projected, said |-> Append(s.said, IF over THEN "modified" ELSE "passed")]

\* A message adds one verdict to those before.
LEMMA QuotaStepIs ==
  ASSUME NEW g \in AnyQuotable, NEW s \in QuotaState, NEW m \in AnyMessage, NEW t, t = QuotaStep(g, s, m)
  PROVE  /\ t \in QuotaState /\ Len(t.said) = Len(s.said) + 1
         /\ \A k \in 1..Len(s.said) : t.said[k] = s.said[k]
         /\ LET v == t.said[Len(s.said) + 1]
                e == Estimate(m)
            IN /\ t.used = IF v = "blocked" THEN s.used ELSE s.used + e
               /\ v = IF g.budget # Nil /\ s.used + e > g.budget
                      THEN IF m.request THEN "blocked" ELSE "modified" ELSE "passed"
<1> DEFINE e == Estimate(m)
           over == g.budget # Nil /\ s.used + e > g.budget
           v == IF over THEN IF m.request THEN "blocked" ELSE "modified" ELSE "passed"
           q == s.said
<1>1. e \in Nat /\ s.used \in Nat /\ q \in Seq(Verdicts) /\ m.request \in BOOLEAN
  BY EstimateIsNat DEF QuotaState, AnyMessage
<1>2. t = [used |-> IF v = "blocked" THEN s.used ELSE s.used + e, said |-> Append(q, v)]
  BY <1>1 DEF QuotaStep, QuotaState
<1>3. v \in Verdicts
  BY DEF Verdicts
<1>4. t.used = (IF v = "blocked" THEN s.used ELSE s.used + e) /\ t.said = Append(q, v)
  BY <1>2
<1>5. t \in QuotaState
  BY <1>1, <1>2, <1>3 DEF QuotaState
<1> HIDE DEF e, q, v
<1>6. Len(Append(q, v)) = Len(q) + 1 /\ Append(q, v)[Len(q) + 1] = v
      /\ \A k \in 1..Len(q) : Append(q, v)[k] = q[k]
  BY <1>1, <1>3
<1>7. t.said[Len(s.said) + 1] = v
  BY <1>4, <1>6 DEF q
<1>8. QED BY <1>4, <1>5, <1>6, <1>7 DEF q, v, e

\* Quota goes from message to message.
LEMMA QuotaRuns ==
  ASSUME NEW g \in AnyQuotable
  PROVE  \E f : /\ f \in [0..Len(g.messages) -> QuotaState] /\ f[0] = [used |-> 0, said |-> <<>>]
                /\ \A i \in 1..Len(g.messages) : f[i] = QuotaStep(g, f[i-1], g.messages[i])
                /\ Quota(g) = f[Len(g.messages)]
<1> DEFINE n == Len(g.messages)
           T == QuotaState
           a == [used |-> 0, said |-> <<>>]
           step == [i \in 1..n |-> [t \in T |-> QuotaStep(g, t, g.messages[i])]]
           body(j) == [u \in SUBSET (1..n) |->
                         IF u = {} THEN a ELSE QuotaStep(g, j[u \ {Max(u)}], g.messages[Max(u)])]
<1>1. n \in Nat /\ DOMAIN g.messages = 1..n
  BY DEF AnyQuotable
<1>2. a \in T /\ \A i \in 1..n, t \in T : QuotaStep(g, t, g.messages[i]) \in T
  <2>1. a \in T
    BY DEF QuotaState
  <2>2. \A i \in 1..n : g.messages[i] \in AnyMessage
    BY DEF AnyQuotable
  <2>3. QED BY <2>1, <2>2, QuotaStepIs
<1>3. Quota(g) = (CHOOSE j : j = body(j))[1..n]
  BY <1>1 DEF Quota, QuotaStep, FoldLeft, MapThenFoldSet
<1>4. AreSteps(step, n, T) /\ \A i \in 1..n, t \in T : step[i][t] = QuotaStep(g, t, g.messages[i])
  BY <1>2 DEF AreSteps
<1> HIDE DEF step, n, T, a
<1>5. \E j : j = body(j)
  <2>1. PICK it : it \in [SUBSET (1..n) -> T] /\ IsFold(it, n, T, a, step)
    BY <1>1, <1>2, <1>4, FoldExists, Zenon
  <2>2. \A u \in SUBSET (1..n) : it[u] = body(it)[u]
    BY <1>1, <1>4, <2>1 DEF IsFold
  <2> HIDE DEF body
  <2>3. it = body(it)
    BY <2>1, <2>2, Zenon DEF body
  <2>4. QED BY <2>3, Zenon
<1>6. PICK j : j = body(j) /\ Quota(g) = j[1..n]
  BY <1>3, <1>5
<1>7. \A u \in SUBSET (1..n) : j[u] = IF u = {} THEN a ELSE QuotaStep(g, j[u \ {Max(u)}], g.messages[Max(u)])
  BY <1>6
<1>8. j[{}] = a /\ \A i \in 1..n : j[1..i] = QuotaStep(g, j[1..(i-1)], g.messages[i])
  BY <1>1, <1>7, PrefixIs
<1>9. \A i \in 1..n : j[1..(i-1)] \in T => j[1..i] = step[i][j[1..(i-1)]]
  BY <1>4, <1>8
<1>10. PICK f : TakesSteps(f, n, T, a, step) /\ f[n] = j[1..n]
  BY <1>1, <1>2, <1>4, <1>8, <1>9, FoldTakesSteps
<1>11. f \in [0..n -> T] /\ f[0] = a /\ \A i \in 1..n : f[i] = QuotaStep(g, f[i-1], g.messages[i])
  BY <1>1, <1>4, <1>10, StepsAreTaken
<1>12. QED BY <1>6, <1>10, <1>11 DEF n, T, a

\* What was let through is what was counted; no request goes over the budget, and
\* once a response has, every request after it is refused, whatever the context is:
\* the token quota keeps what SoundQuota promises.
THEOREM QuotaIsSound ==
  ASSUME NEW g \in AnyQuotable
  PROVE  SoundQuota(g, Quota(g))
<1> DEFINE n == Len(g.messages)
           m(i) == g.messages[i]
           a == Quota(g)
<1>1. PICK f : /\ f \in [0..n -> QuotaState] /\ f[0] = [used |-> 0, said |-> <<>>]
               /\ \A i \in 1..n : f[i] = QuotaStep(g, f[i-1], m(i))
               /\ a = f[n]
  BY QuotaRuns
<1>2. n \in Nat /\ DOMAIN g.messages = 1..n /\ (\A i \in 1..n : m(i) \in AnyMessage)
      /\ g.budget \in Nat \cup {Nil}
  BY DEF AnyQuotable
<1>3. \A i \in 1..n : m(i).request \in BOOLEAN /\ Estimate(m(i)) \in Nat
  <2>1. \A i \in 1..n : m(i).request \in BOOLEAN
    BY <1>2 DEF AnyMessage
  <2> HIDE DEF m, n
  <2>2. QED BY <1>2, <2>1, EstimateIsNat
<1> DEFINE u(i) == f[i].used
           e(i) == Estimate(m(i))
           over(i) == g.budget # Nil /\ u(i-1) + e(i) > g.budget
           v(i) == IF over(i) THEN IF m(i).request THEN "blocked" ELSE "modified" ELSE "passed"
           D == {i \in 0..n : /\ Len(f[i].said) = i
                              /\ \A k \in 1..i : f[i].said[k] = v(k)}
<1> HIDE DEF n, m, a, u, e, v
<1>4. ASSUME NEW i \in 0..n PROVE f[i] \in QuotaState /\ u(i) \in Nat /\ f[i].said \in Seq(Verdicts)
  BY <1>1 DEF QuotaState, u
<1>5. ASSUME NEW i \in 1..n
      PROVE  /\ Len(f[i].said) = Len(f[i-1].said) + 1
             /\ \A k \in 1..Len(f[i-1].said) : f[i].said[k] = f[i-1].said[k]
             /\ f[i].said[Len(f[i-1].said) + 1] = v(i)
             /\ u(i) = IF v(i) = "blocked" THEN u(i-1) ELSE u(i-1) + e(i)
  <2> DEFINE s == f[i-1]
             t == f[i]
             c == m(i)
  <2>1. i - 1 \in 0..n
    BY <1>2
  <2>2. s \in QuotaState /\ c \in AnyMessage /\ t = QuotaStep(g, s, c)
    BY <1>1, <1>2, <1>4, <2>1
  <2> HIDE DEF s, t, c
  <2>3. /\ Len(t.said) = Len(s.said) + 1
        /\ \A k \in 1..Len(s.said) : t.said[k] = s.said[k]
        /\ t.used = IF t.said[Len(s.said) + 1] = "blocked" THEN s.used ELSE s.used + Estimate(c)
        /\ t.said[Len(s.said) + 1] = IF g.budget # Nil /\ s.used + Estimate(c) > g.budget
                                     THEN IF c.request THEN "blocked" ELSE "modified" ELSE "passed"
    BY <2>2, QuotaStepIs
  <2>4. QED BY <2>3 DEF s, t, c, u, e, v
<1>6. 0 \in D
  <2>1. Len(f[0].said) = 0 /\ 0 \in 0..n
    BY <1>1, <1>2
  <2>2. QED BY <2>1
<1>7. ASSUME NEW i \in 1..n, i - 1 \in D PROVE i \in D
  <2>1. Len(f[i-1].said) = i - 1 /\ i \in 0..n /\ i - 1 + 1 = i /\ \A k \in 1..i : k # i => k \in 1..(i-1)
    BY <1>7
  <2>2. Len(f[i].said) = i /\ f[i].said[i] = v(i) /\ \A k \in 1..(i-1) : f[i].said[k] = f[i-1].said[k]
    BY <1>5, <2>1
  <2>3. \A k \in 1..(i-1) : f[i].said[k] = v(k)
    BY <1>7, <2>2
  <2>4. \A k \in 1..i : f[i].said[k] = v(k)
    BY <2>1, <2>2, <2>3
  <2>5. QED BY <2>1, <2>2, <2>4
<1>8. \A i \in 0..n : i \in D
  <2> HIDE DEF D
  <2>1. 0..n \subseteq D
    BY <1>2, <1>6, <1>7, Induction
  <2>2. QED BY <2>1
<1>9. a.used = u(n) /\ Len(a.said) = n /\ \A k \in 1..n : a.said[k] = v(k)
  <2>1. n \in 0..n
    BY <1>2
  <2>2. n \in D
    BY <1>8, <2>1
  <2>3. QED BY <1>1, <2>2 DEF u
<1> HIDE DEF D
<1> DEFINE cost(k) == Total([i \in 1..k |-> IF a.said[i] = "blocked" THEN 0 ELSE Estimate(g.messages[i])])
<1>10. ASSUME NEW k \in 0..n PROVE cost(k) = u(k)
  <2> DEFINE q == [i \in 1..k |-> IF a.said[i] = "blocked" THEN 0 ELSE Estimate(g.messages[i])]
             h == [i \in 0..k |-> u(i)]
  <2>1. \A i \in 1..k : i \in 1..n /\ i \in 0..k /\ i - 1 \in 0..k /\ i - 1 \in 0..n
    BY <1>2
  <2>2. \A i \in 1..k : q[i] = (IF v(i) = "blocked" THEN 0 ELSE e(i)) /\ q[i] \in Nat
    BY <1>3, <1>9, <2>1 DEF e, m
  <2>3. q \in Seq(Nat) /\ Len(q) = k
    BY <2>2
  <2> HIDE DEF q
  <2>4. h[0] = 0 /\ h[k] = u(k) /\ \A i \in 1..k : h[i] = u(i) /\ h[i-1] = u(i-1)
    <3>1. u(0) = 0
      BY <1>1 DEF u
    <3>2. 0 \in 0..k /\ k \in 0..k
      OBVIOUS
    <3>3. QED BY <2>1, <3>1, <3>2
  <2> HIDE DEF h
  <2>5. \A i \in 1..k : u(i-1) \in Nat /\ u(i) = IF v(i) = "blocked" THEN u(i-1) ELSE u(i-1) + e(i)
    BY <1>4, <1>5, <2>1
  <2>6. \A i \in 1..k : h[i] = h[i-1] + q[i]
    <3>1. \A i \in 1..k : e(i) \in Nat
      BY <1>3, <2>1 DEF e
    <3>2. QED BY <2>2, <2>4, <2>5, <3>1
  <2>7. SumsUp(h, q)
    BY <2>3, <2>4, <2>6 DEF SumsUp
  <2>8. Total(q) = h[k]
    BY <2>3, <2>7, TotalIs
  <2>9. QED BY <2>4, <2>8 DEF q
<1>11. ASSUME NEW k \in 1..n PROVE cost(k) = u(k) /\ u(k-1) \in Nat /\ e(k) \in Nat /\ u(k) \in Nat
                                  /\ u(k) = IF v(k) = "blocked" THEN u(k-1) ELSE u(k-1) + e(k)
  <2>1. k \in 0..n /\ k - 1 \in 0..n
    BY <1>2
  <2>2. QED BY <1>3, <1>4, <1>5, <1>10, <2>1 DEF e
<1>12. ASSUME NEW i \in 0..n PROVE \A k \in i..n : u(i) <= u(k)
  <2> DEFINE E == {k \in 0..n : k >= i => u(i) <= u(k)}
  <2>1. 0 \in E
    <3>1. u(0) \in Nat /\ 0 \in 0..n
      BY <1>2, <1>4
    <3>2. 0 >= i => i = 0
      OBVIOUS
    <3>3. QED BY <3>1, <3>2
  <2>2. ASSUME NEW k \in 1..n, k - 1 \in E PROVE k \in E
    <3>1. u(k-1) <= u(k) /\ u(k) \in Nat /\ u(k-1) \in Nat /\ u(i) \in Nat /\ k \in 0..n
      <4>1. u(k) \in Nat /\ u(k-1) \in Nat /\ e(k) \in Nat /\ (u(k) = u(k-1) \/ u(k) = u(k-1) + e(k))
        BY <1>11
      <4>2. u(i) \in Nat /\ k \in 0..n
        BY <1>2, <1>4
      <4>3. QED BY <4>1, <4>2
    <3>2. k >= i => k = i \/ k - 1 >= i
      OBVIOUS
    <3>3. QED BY <2>2, <3>1, <3>2
  <2> HIDE DEF E
  <2>3. 0..n \subseteq E
    BY <1>2, <2>1, <2>2, Induction
  <2>4. \A k \in i..n : k \in 0..n /\ k >= i
    BY <1>2
  <2>5. QED BY <2>3, <2>4 DEF E
<1>13. a.used = cost(n)
  <2>1. n \in 0..n
    BY <1>2
  <2>2. QED BY <1>9, <1>10, <2>1
<1>14. ASSUME NEW k \in 1..n, g.budget # Nil
       PROVE  /\ m(k).request /\ a.said[k] = "passed" => cost(k) <= g.budget
              /\ ~m(k).request => (a.said[k] = "modified" <=> cost(k) > g.budget)
              /\ cost(k) > g.budget =>
                   \A i \in 1..n : i > k /\ m(i).request => a.said[i] = "blocked"
  <2>1. g.budget \in Nat /\ a.said[k] = v(k) /\ cost(k) = u(k) /\ m(k).request \in BOOLEAN
    BY <1>2, <1>3, <1>9, <1>11, <1>14
  <2> HIDE DEF cost
  <2>2. m(k).request /\ a.said[k] = "passed" => cost(k) <= g.budget
    BY <1>11, <1>14, <2>1 DEF v
  <2>3. ~m(k).request => (a.said[k] = "modified" <=> cost(k) > g.budget)
    BY <1>11, <1>14, <2>1 DEF v
  <2>4. ASSUME cost(k) > g.budget, NEW i \in 1..n, i > k, m(i).request
        PROVE  a.said[i] = "blocked"
    <3>1. k \in 0..n /\ i - 1 \in k..n
      BY <1>2, <2>4
    <3>2. u(k) <= u(i-1)
      BY <1>12, <3>1
    <3>3. u(i-1) \in Nat /\ e(i) \in Nat /\ u(k) \in Nat /\ a.said[i] = v(i)
      BY <1>9, <1>11
    <3>4. over(i)
      BY <1>14, <2>1, <2>4, <3>2, <3>3, SMTT(30)
    <3>5. QED BY <2>4, <3>3, <3>4 DEF v
  <2>5. QED BY <2>2, <2>3, <2>4
<1>15. QED
  BY <1>2, <1>13, <1>14, Zenon DEF SoundQuota, a, n, m

-----------------------------------------------------------------------------
\* report: surveys of any questions, for a model of any limit.
PackState == [groups : Seq(Seq(Nat)), now : Seq(Nat)]
PackStep(g, s, t) ==
  IF s.now # <<>> /\ Total(s.now) + t > Usable(g)
  THEN [groups |-> Append(s.groups, s.now), now |-> <<t>>]
  ELSE [s EXCEPT !.now = Append(@, t)]
AllPacked(s) == Append(s.groups, s.now)

\* Pack goes from question to question.
LEMMA PackRuns ==
  ASSUME NEW g, g.tokens \in Seq(Nat)
  PROVE  \E f : /\ f \in [0..Len(g.tokens) -> PackState] /\ f[0] = [groups |-> <<>>, now |-> <<>>]
                /\ \A i \in 1..Len(g.tokens) : f[i] = PackStep(g, f[i-1], g.tokens[i])
                /\ Pack(g) = LET end == f[Len(g.tokens)] groups == IF end.now = <<>> /\ end.groups # <<>> THEN end.groups ELSE Append(end.groups, end.now) IN [groups |-> groups, synthesis |-> Len(groups) > 1]
<1> DEFINE n == Len(g.tokens)
           T == PackState
           a == [groups |-> <<>>, now |-> <<>>]
           step == [i \in 1..n |-> [t \in T |-> PackStep(g, t, g.tokens[i])]]
           body(j) == [u \in SUBSET (1..n) |->
                         IF u = {} THEN a ELSE PackStep(g, j[u \ {Max(u)}], g.tokens[Max(u)])]
<1>1. n \in Nat /\ DOMAIN g.tokens = 1..n
  OBVIOUS
<1>2. a \in T /\ \A i \in 1..n, t \in T : PackStep(g, t, g.tokens[i]) \in T
  <2>1. a \in T
    BY DEF PackState
  <2>2. \A i \in 1..n : g.tokens[i] \in Nat
    OBVIOUS
  <2>3. ASSUME NEW x \in Nat, NEW t \in T PROVE PackStep(g, t, x) \in T
    <3>1. t.groups \in Seq(Seq(Nat)) /\ t.now \in Seq(Nat) /\ <<x>> \in Seq(Nat)
      BY DEF PackState
    <3>2. Append(t.groups, t.now) \in Seq(Seq(Nat)) /\ Append(t.now, x) \in Seq(Nat)
      BY <3>1
    <3>3. QED BY <3>1, <3>2 DEF PackStep, PackState
  <2> HIDE DEF T, n
  <2>4. QED BY <2>1, <2>2, <2>3
<1>3. Pack(g) = LET end == (CHOOSE j : j = body(j))[1..n] groups == IF end.now = <<>> /\ end.groups # <<>> THEN end.groups ELSE Append(end.groups, end.now) IN [groups |-> groups, synthesis |-> Len(groups) > 1]
  BY <1>1 DEF Pack, PackStep, FoldLeft, MapThenFoldSet
<1>4. AreSteps(step, n, T) /\ \A i \in 1..n, t \in T : step[i][t] = PackStep(g, t, g.tokens[i])
  BY <1>2 DEF AreSteps
<1> HIDE DEF step, n, T, a
<1>5. \E j : j = body(j)
  <2>1. PICK it : it \in [SUBSET (1..n) -> T] /\ IsFold(it, n, T, a, step)
    BY <1>1, <1>2, <1>4, FoldExists, Zenon
  <2>2. \A u \in SUBSET (1..n) : it[u] = body(it)[u]
    BY <1>4, <2>1, Zenon DEF IsFold
  <2> HIDE DEF body
  <2>3. it = body(it)
    BY <2>1, <2>2, Zenon DEF body
  <2>4. QED BY <2>3, Zenon
<1>6. PICK j : j = body(j) /\ Pack(g) = LET end == j[1..n] groups == IF end.now = <<>> /\ end.groups # <<>> THEN end.groups ELSE Append(end.groups, end.now) IN [groups |-> groups, synthesis |-> Len(groups) > 1]
  BY <1>3, <1>5, Zenon
<1>7. \A u \in SUBSET (1..n) : j[u] = IF u = {} THEN a ELSE PackStep(g, j[u \ {Max(u)}], g.tokens[Max(u)])
  BY <1>6
<1>8. j[{}] = a /\ \A i \in 1..n : j[1..i] = PackStep(g, j[1..(i-1)], g.tokens[i])
  BY <1>1, <1>7, PrefixIs
<1>9. \A i \in 1..n : j[1..(i-1)] \in T => j[1..i] = step[i][j[1..(i-1)]]
  BY <1>4, <1>8
<1>10. PICK f : TakesSteps(f, n, T, a, step) /\ f[n] = j[1..n]
  BY <1>1, <1>2, <1>4, <1>8, <1>9, FoldTakesSteps, SMTT(30)
<1>11. f \in [0..n -> T] /\ f[0] = a /\ \A i \in 1..n : f[i] = PackStep(g, f[i-1], g.tokens[i])
  <2>1. f \in [0..n -> T] /\ f[0] = a /\ \A i \in 1..n : f[i] = step[i][f[i-1]]
    BY <1>10 DEF TakesSteps
  <2>2. \A i \in 1..n : i - 1 \in 0..n
    BY <1>1
  <2>3. \A i \in 1..n : f[i-1] \in T
    BY <2>1, <2>2
  <2>4. QED BY <1>4, <2>1, <2>3, Zenon
<1>12. QED BY <1>6, <1>10, <1>11 DEF n, T, a

\* How far the questions are packed.
PackedUpTo(g, s, i) ==
  /\ FlattenSeq(AllPacked(s)) = SubSeq(g.tokens, 1, i)
  /\ WellPacked(AllPacked(s), Usable(g))
  /\ s.now = <<>> => s.groups = <<>>

\* One more question is packed.
LEMMA PackStepPacks ==
  ASSUME NEW g, g.tokens \in Seq(Nat), Usable(g) \in Nat, NEW i \in 1..Len(g.tokens), NEW s \in PackState,
         PackedUpTo(g, s, i - 1)
  PROVE  PackedUpTo(g, PackStep(g, s, g.tokens[i]), i)
<1> DEFINE x == g.tokens[i]
           p == s.groups
           w == s.now
           u == Usable(g)
           t == PackStep(g, s, x)
           pre == SubSeq(g.tokens, 1, i - 1)
<1>1. p \in Seq(Seq(Nat)) /\ w \in Seq(Nat) /\ x \in Nat /\ u \in Nat
  BY DEF PackState
<1>2. FlattenSeq(Append(p, w)) = pre /\ WellPacked(Append(p, w), u) /\ (w = <<>> => p = <<>>)
  BY DEF PackedUpTo, AllPacked
<1>3. SubSeq(g.tokens, 1, i) = pre \o <<x>>
  <2>1. 1 \in 1..Len(g.tokens) /\ i \in 1..Len(g.tokens)
    OBVIOUS
  <2> DEFINE one == 1
  <2>2. one \in 1..Len(g.tokens) /\ i \in one..Len(g.tokens)
    BY <2>1
  <2> HIDE DEF one
  <2>3. SubSeq(g.tokens, one, i) = SubSeq(g.tokens, one, i - 1) \o <<g.tokens[i]>>
    BY <2>2, SubSeqRecursiveSecond
  <2>4. QED BY <2>3 DEF one
<1>4. t = IF w # <<>> /\ Total(w) + x > u THEN [groups |-> Append(p, w), now |-> <<x>>]
          ELSE [groups |-> p, now |-> Append(w, x)]
  <2>1. s = [groups |-> p, now |-> w]
    BY DEF PackState
  <2> DEFINE v == Append(w, x)
  <2>2. s.now = w
    OBVIOUS
  <2> HIDE DEF v, p, w, x
  <2>3. [s EXCEPT !.now = v] = [groups |-> p, now |-> v]
    BY <2>1
  <2>4. [s EXCEPT !.now = Append(@, x)] = [groups |-> p, now |-> Append(w, x)]
    BY <2>3 DEF v, w
  <2>5. QED BY <2>4, Zenon DEF PackStep, t, p, w, u
<1> HIDE DEF x, p, w, u, t, pre
<1>5. CASE w # <<>> /\ Total(w) + x > u
  <2> DEFINE q == Append(p, w)
             one == <<x>>
  <2>1. AllPacked(t) = Append(q, one) /\ t.now = one /\ t.now # <<>>
    BY <1>4, <1>5 DEF AllPacked
  <2>2. q \in Seq(Seq(Nat)) /\ Len(q) >= 1 /\ q[Len(q)] = w /\ one \in Seq(Nat)
    BY <1>1
  <2>3. WellPacked(q, u) /\ FlattenSeq(q) = pre
    BY <1>2
  <2> HIDE DEF q
  <2>4. WellPacked(Append(q, one), u)
    BY <1>1, <1>5, <2>2, <2>3, PackedCloses
  <2> HIDE DEF one
  <2>5. FlattenSeq(Append(q, one)) = FlattenSeq(q) \o one
    BY <2>2, FlattenOfAppend
  <2>6. QED BY <1>3, <2>1, <2>3, <2>4, <2>5 DEF PackedUpTo, one, u, t, x
<1>6. CASE ~(w # <<>> /\ Total(w) + x > u)
  <2> DEFINE v == Append(w, x)
  <2>1. AllPacked(t) = Append(p, v) /\ t.now = v /\ v # <<>>
    <3>1. AllPacked(t) = Append(p, v) /\ t.now = v
      BY <1>4, <1>6 DEF AllPacked
    <3>2. v # <<>>
      <4>1. Len(v) = Len(w) + 1 /\ Len(w) \in Nat
        BY <1>1
      <4> HIDE DEF v
      <4>2. QED BY <4>1, EmptySeq
    <3>3. QED BY <3>1, <3>2
  <2>2. IF w = <<>> THEN p = <<>> ELSE Total(w) + x <= u
    <3>1. Total(w) \in Nat
      BY <1>1, TotalIsNat
    <3>2. QED BY <1>1, <1>2, <1>6, <3>1
  <2>3. WellPacked(Append(p, v), u)
    BY <1>1, <1>2, <2>2, PackedGrows
  <2>4. v = w \o <<x>> /\ v \in Seq(Nat) /\ <<x>> \in Seq(Nat)
    BY <1>1, AppendIsConcat
  <2> DEFINE F == FlattenSeq(p)
             one == <<x>>
  <2>5. FlattenSeq(Append(p, v)) = F \o v /\ FlattenSeq(Append(p, w)) = F \o w /\ F \in Seq(Nat)
    <3> HIDE DEF v
    <3>1. FlattenSeq(Append(p, v)) = FlattenSeq(p) \o v
      BY <1>1, <2>4, FlattenOfAppend
    <3>2. FlattenSeq(Append(p, w)) = FlattenSeq(p) \o w /\ FlattenSeq(p) \in Seq(Nat)
      BY <1>1, FlattenOfAppend
    <3>3. QED BY <3>1, <3>2
  <2> HIDE DEF F
  <2>6. F \o (w \o one) = (F \o w) \o one
    <3>1. one \in Seq(Nat)
      BY <2>4
    <3> HIDE DEF one
    <3>2. QED BY <1>1, <2>5, <3>1, NatsJoin
  <2> HIDE DEF v
  <2>7. FlattenSeq(Append(p, v)) = pre \o one
    BY <1>2, <2>4, <2>5, <2>6 DEF one
  <2>8. QED BY <1>3, <2>1, <2>3, <2>7 DEF PackedUpTo, one, u, t, x
<1>7. QED BY <1>5, <1>6

\* Every question is in one prompt, in the order of the survey; only a question too
\* large by itself makes a prompt too large; no two prompts could have been one,
\* whatever the questions and the limit are: Pack keeps what SoundPlan promises.
THEOREM PlanIsSound ==
  ASSUME NEW g, g.tokens \in Seq(Nat), g.limit \in Nat
  PROVE  SoundPlan(g, Pack(g))
<1> DEFINE n == Len(g.tokens)
<1>1. PICK f : /\ f \in [0..n -> PackState] /\ f[0] = [groups |-> <<>>, now |-> <<>>]
               /\ \A i \in 1..n : f[i] = PackStep(g, f[i-1], g.tokens[i])
               /\ Pack(g) = LET end == f[n]
                                groups == IF end.now = <<>> /\ end.groups # <<>> THEN end.groups
                                          ELSE Append(end.groups, end.now)
                            IN [groups |-> groups, synthesis |-> Len(groups) > 1]
  BY PackRuns
<1>2. n \in Nat
  OBVIOUS
<1>3. Usable(g) \in Nat
  BY DEF Usable
<1> DEFINE D == {i \in 0..n : PackedUpTo(g, f[i], i)}
<1>4. 0 \in D
  <2> DEFINE e == <<>>
             q == <<e>>
  <2>1. AllPacked(f[0]) = q /\ f[0].groups = <<>>
    BY <1>1 DEF AllPacked
  <2>2. e \in Seq(Nat) /\ Len(q) = 1 /\ q[1] = e /\ q = Append(<<>>, e)
    OBVIOUS
  <2>3. WellPacked(q, Usable(g))
    <3>1. Total(e) = 0
      BY TotalOfNone
    <3> HIDE DEF e, q
    <3>2. QED BY <1>3, <2>2, <3>1 DEF WellPacked
  <2>4. FlattenSeq(q) = <<>>
    <3> DEFINE none == <<>>
    <3>1. none \in Seq(Seq(Nat)) /\ q = Append(none, e)
      OBVIOUS
    <3> HIDE DEF none, e
    <3>2. FlattenSeq(Append(none, e)) = FlattenSeq(none) \o e
      BY <2>2, <3>1, FlattenOfAppend
    <3>3. FlattenSeq(none) \o e = <<>> \o <<>>
      BY FlattenOfNone DEF none, e
    <3>4. <<>> \o <<>> = <<>>
      OBVIOUS
    <3>5. QED BY <3>1, <3>2, <3>3, <3>4
  <2>5. SubSeq(g.tokens, 1, 0) = <<>>
    BY SubSeqEmpty
  <2>6. 0 \in 0..n
    BY <1>2
  <2>7. QED BY <2>1, <2>3, <2>4, <2>5, <2>6 DEF PackedUpTo
<1>5. ASSUME NEW i \in 1..n, i - 1 \in D PROVE i \in D
  <2> DEFINE s == f[i-1]
  <2>0. i - 1 \in 0..n /\ i \in 0..n
    BY <1>2
  <2>1. s \in PackState /\ f[i] = PackStep(g, s, g.tokens[i]) /\ PackedUpTo(g, s, i - 1) /\ i \in 0..n
    BY <1>1, <1>5, <2>0
  <2> HIDE DEF s
  <2>2. PackedUpTo(g, PackStep(g, s, g.tokens[i]), i)
    BY <1>3, <2>1, PackStepPacks
  <2>3. QED BY <2>1, <2>2
<1>6. n \in D
  <2> HIDE DEF D
  <2>1. 0..n \subseteq D
    BY <1>2, <1>4, <1>5, Induction
  <2>2. QED BY <1>2, <2>1
<1>7. Pack(g) = [groups |-> AllPacked(f[n]), synthesis |-> Len(AllPacked(f[n])) > 1]
  <2>1. f[n].now = <<>> => f[n].groups = <<>>
    BY <1>6 DEF PackedUpTo
  <2>2. QED BY <1>1, <2>1 DEF AllPacked
<1>8. FlattenSeq(AllPacked(f[n])) = g.tokens /\ WellPacked(AllPacked(f[n]), Usable(g))
  <2>1. SubSeq(g.tokens, 1, n) = g.tokens
    BY SubSeqFull
  <2>2. QED BY <1>6, <2>1 DEF PackedUpTo
<1>9. DOMAIN AllPacked(f[n]) = 1..Len(AllPacked(f[n]))
  <2>1. f[n] \in PackState
    BY <1>1, <1>2
  <2>2. AllPacked(f[n]) \in Seq(Seq(Nat))
    BY <2>1 DEF AllPacked, PackState
  <2>3. QED BY <2>2
<1> DEFINE q == AllPacked(f[n])
           a == [groups |-> q, synthesis |-> Len(q) > 1]
<1>10. a.groups = q /\ a.synthesis = (Len(q) > 1) /\ Pack(g) = a
  BY <1>7
<1> HIDE DEF q, a
<1>11. FlattenSeq(q) = g.tokens /\ WellPacked(q, Usable(g)) /\ DOMAIN q = 1..Len(q)
  BY <1>8, <1>9 DEF q
<1>12. SoundPlan(g, a)
  BY <1>10, <1>11 DEF SoundPlan, WellPacked
<1>13. QED BY <1>10, <1>12

-----------------------------------------------------------------------------
\* detect: manifests of any rules, on any system; a version is any number.
Versions == Nat \cup {Nil}
AnyRule(How, On) ==
  [how : How, on : On, says : {"default", "running", "installed"},
   finds : {"hit", "miss", "error"}, version : Versions]
Findings == {"running", "installed", "not-installed"}
DetectState == [status : Findings, by : Nat, version : Versions]
DetectStep(g, s, i) ==
  LET o == Outcome(g.rules[i], g.platform)
  IN IF s.status = "running" \/ o \notin {"running", "installed"} THEN s
     ELSE IF o = "running" THEN [status |-> o, by |-> i, version |-> g.rules[i].version]
     ELSE [status |-> o, by |-> IF s.by = 0 THEN i ELSE s.by,
           version |-> IF s.version = Nil THEN g.rules[i].version ELSE s.version]

\* Detection goes from rule to rule.
LEMMA DetectRuns ==
  ASSUME NEW How, NEW On, NEW g, g.rules \in Seq(AnyRule(How, On))
  PROVE  \E f : /\ f \in [0..Len(g.rules) -> DetectState] /\ f[0] = [status |-> "not-installed", by |-> 0, version |-> Nil]
                /\ \A i \in 1..Len(g.rules) : f[i] = DetectStep(g, f[i-1], i)
                /\ Detect_(g) = f[Len(g.rules)]
<1> DEFINE n == Len(g.rules)
           T == DetectState
           a == [status |-> "not-installed", by |-> 0, version |-> Nil]
           step == [i \in 1..n |-> [t \in T |-> DetectStep(g, t, i)]]
           body(j) == [u \in SUBSET (1..n) |->
                         IF u = {} THEN a ELSE DetectStep(g, j[u \ {Max(u)}], [i \in DOMAIN g.rules |-> i][Max(u)])]
<1>1. n \in Nat /\ DOMAIN g.rules = 1..n
  OBVIOUS
<1>2. a \in T /\ \A i \in 1..n, t \in T : DetectStep(g, t, i) \in T
  <2>1. a \in T
    BY DEF DetectState, Findings, Versions
  <2>2. \A i \in 1..n : g.rules[i].version \in Versions /\ i \in Nat
    <3>1. \A i \in 1..n : g.rules[i] \in AnyRule(How, On)
      OBVIOUS
    <3>2. QED BY <1>1, <3>1 DEF AnyRule
  <2> HIDE DEF n
  <2>3. ASSUME NEW i \in 1..n, NEW t \in T PROVE DetectStep(g, t, i) \in T
    <3>1. t.by \in Nat /\ t.version \in Versions /\ t.status \in Findings
      BY DEF DetectState
    <3> DEFINE o == Outcome(g.rules[i], g.platform)
    <3> HIDE DEF o
    <3>2. o \in {"running", "installed"} => o \in Findings
      BY DEF Findings
    <3>3. QED BY <2>2, <3>1, <3>2 DEF DetectStep, DetectState, o
  <2> HIDE DEF T
  <2>4. QED BY <2>1, <2>3
<1>3. Detect_(g) = (CHOOSE j : j = body(j))[1..n]
  BY <1>1 DEF Detect_, DetectStep, FoldLeft, MapThenFoldSet
<1>4. AreSteps(step, n, T) /\ \A i \in 1..n, t \in T : step[i][t] = DetectStep(g, t, i)
  BY <1>2 DEF AreSteps
<1> HIDE DEF step, n, T, a
<1>5. \E j : j = body(j)
  <2>1. PICK it : it \in [SUBSET (1..n) -> T] /\ IsFold(it, n, T, a, step)
    BY <1>1, <1>2, <1>4, FoldExists, Zenon
  <2>2. \A u \in SUBSET (1..n) : it[u] = body(it)[u]
    BY <1>1, <1>4, <2>1 DEF IsFold
  <2> HIDE DEF body
  <2>3. it = body(it)
    BY <2>1, <2>2, Zenon DEF body
  <2>4. QED BY <2>3, Zenon
<1>6. PICK j : j = body(j) /\ Detect_(g) = j[1..n]
  BY <1>3, <1>5
<1>7. \A u \in SUBSET (1..n) : j[u] = IF u = {} THEN a ELSE DetectStep(g, j[u \ {Max(u)}], [i \in DOMAIN g.rules |-> i][Max(u)])
  BY <1>6
<1>8. j[{}] = a /\ \A i \in 1..n : j[1..i] = DetectStep(g, j[1..(i-1)], i)
  <2>1. ASSUME NEW i \in 1..n PROVE j[1..i] = DetectStep(g, j[1..(i-1)], i)
    <3>1. 1..i \in SUBSET (1..n) /\ 1..i # {} /\ Max(1..i) = i /\ (1..i) \ {i} = 1..(i-1)
      BY <1>1, PrefixIs
    <3>2. [k \in DOMAIN g.rules |-> k][Max(1..i)] = i
      BY <1>1, <3>1
    <3>3. QED BY <1>7, <3>1, <3>2
  <2>2. QED BY <1>7, <2>1
<1>9. \A i \in 1..n : j[1..(i-1)] \in T => j[1..i] = step[i][j[1..(i-1)]]
  BY <1>4, <1>8
<1>10. PICK f : TakesSteps(f, n, T, a, step) /\ f[n] = j[1..n]
  BY <1>1, <1>2, <1>4, <1>8, <1>9, FoldTakesSteps
<1>11. f \in [0..n -> T] /\ f[0] = a /\ \A i \in 1..n : f[i] = DetectStep(g, f[i-1], i)
  BY <1>1, <1>4, <1>10, StepsAreTaken
<1>12. QED BY <1>6, <1>10, <1>11 DEF n, T, a

\* What is known after some rules.
DetectedUpTo(g, s, i) ==
  LET o(k) == Outcome(g.rules[k], g.platform)
  IN /\ s.status = IF \E k \in 1..i : o(k) = "running" THEN "running"
                   ELSE IF \E k \in 1..i : o(k) = "installed" THEN "installed" ELSE "not-installed"
     /\ s.version = Nil \/ \E k \in 1..i : o(k) = s.status /\ g.rules[k].version = s.version
     /\ s.status = "installed" /\ s.version = Nil =>
          \A k \in 1..i : o(k) = "installed" => g.rules[k].version = Nil
     /\ s.status = "not-installed" => s.version = Nil

\* One more rule.
LEMMA DetectStepDetects ==
  ASSUME NEW g, NEW n \in Nat, NEW i \in 1..n, NEW s, DetectedUpTo(g, s, i - 1)
  PROVE  DetectedUpTo(g, DetectStep(g, s, i), i)
<1> DEFINE o(k) == Outcome(g.rules[k], g.platform)
           v(k) == g.rules[k].version
           t == DetectStep(g, s, i)
<1>1. /\ s.status = IF \E k \in 1..(i-1) : o(k) = "running" THEN "running"
                    ELSE IF \E k \in 1..(i-1) : o(k) = "installed" THEN "installed" ELSE "not-installed"
      /\ s.version = Nil \/ \E k \in 1..(i-1) : o(k) = s.status /\ v(k) = s.version
      /\ s.status = "installed" /\ s.version = Nil =>
           \A k \in 1..(i-1) : o(k) = "installed" => v(k) = Nil
      /\ s.status = "not-installed" => s.version = Nil
  BY DEF DetectedUpTo
<1>2. t = IF s.status = "running" \/ o(i) \notin {"running", "installed"} THEN s
          ELSE IF o(i) = "running" THEN [status |-> o(i), by |-> i, version |-> v(i)]
          ELSE [status |-> o(i), by |-> IF s.by = 0 THEN i ELSE s.by,
                version |-> IF s.version = Nil THEN v(i) ELSE s.version]
  BY DEF DetectStep
<1>3. /\ \A k \in 1..(i-1) : k \in 1..i
      /\ \A k \in 1..i : k \in 1..(i-1) \/ k = i
      /\ i \in 1..i
  OBVIOUS
<1> HIDE DEF o, v, t
<1>4. /\ t.status = IF \E k \in 1..i : o(k) = "running" THEN "running"
                    ELSE IF \E k \in 1..i : o(k) = "installed" THEN "installed" ELSE "not-installed"
      /\ t.version = Nil \/ \E k \in 1..i : o(k) = t.status /\ v(k) = t.version
      /\ t.status = "installed" /\ t.version = Nil =>
           \A k \in 1..i : o(k) = "installed" => v(k) = Nil
      /\ t.status = "not-installed" => t.version = Nil
  <2>1. CASE s.status = "running" \/ o(i) \notin {"running", "installed"}
    <3>1. t = s
      BY <1>2, <2>1
    <3>2. QED BY <1>1, <1>3, <2>1, <3>1
  <2>2. CASE s.status # "running" /\ o(i) = "running"
    <3>1. t.status = "running" /\ t.version = v(i)
      BY <1>2, <2>2
    <3>2. QED BY <1>3, <2>2, <3>1
  <2>3. CASE s.status # "running" /\ o(i) = "installed"
    <3>1. t.status = "installed" /\ t.version = IF s.version = Nil THEN v(i) ELSE s.version
      BY <1>2, <2>3
    <3>2. \A k \in 1..i : o(k) # "running"
      BY <1>1, <1>3, <2>3
    <3>3. CASE s.version = Nil
      BY <1>1, <1>3, <2>3, <3>1, <3>2, <3>3
    <3>4. CASE s.version # Nil
      <4>1. s.status = "installed"
        BY <1>1, <2>3, <3>4
      <4>2. QED BY <1>1, <1>3, <2>3, <3>1, <3>2, <3>4, <4>1
    <3>5. QED BY <3>3, <3>4
  <2>4. QED BY <2>1, <2>2, <2>3
<1>5. QED BY <1>4 DEF DetectedUpTo, o, v, t

\* What detection finds after the last rule.
LEMMA DetectedAtTheEnd ==
  ASSUME NEW How, NEW On, NEW g, g.rules \in Seq(AnyRule(How, On))
  PROVE  DetectedUpTo(g, Detect_(g), Len(g.rules))
<1> DEFINE n == Len(g.rules)
<1>1. PICK f : /\ f \in [0..n -> DetectState] /\ f[0] = [status |-> "not-installed", by |-> 0, version |-> Nil]
               /\ \A i \in 1..n : f[i] = DetectStep(g, f[i-1], i)
               /\ Detect_(g) = f[n]
  BY DetectRuns
<1>2. n \in Nat
  OBVIOUS
<1> DEFINE D == {i \in 0..n : DetectedUpTo(g, f[i], i)}
<1>3. 0 \in D
  <2>1. \A k \in 1..0 : FALSE
    OBVIOUS
  <2>2. f[0].status = "not-installed" /\ f[0].version = Nil /\ 0 \in 0..n
    BY <1>1, <1>2
  <2>3. QED BY <2>1, <2>2 DEF DetectedUpTo
<1> HIDE DEF n
<1>4. ASSUME NEW i \in 1..n, i - 1 \in D PROVE i \in D
  <2>1. f[i] = DetectStep(g, f[i-1], i) /\ DetectedUpTo(g, f[i-1], i - 1) /\ i \in 0..n
    BY <1>1, <1>2, <1>4
  <2>2. DetectedUpTo(g, DetectStep(g, f[i-1], i), i)
    BY <1>2, <2>1, DetectStepDetects
  <2>3. QED BY <2>1, <2>2
<1> HIDE DEF D
<1>5. 0..n \subseteq D
  BY <1>2, <1>3, <1>4, Induction
<1>6. DetectedUpTo(g, f[n], n)
  BY <1>2, <1>5 DEF D
<1>7. QED BY <1>1, <1>6 DEF n

\* A rule of another system or one that fails changes nothing, and neither does the
\* order of rules what is found of a program that runs, whatever the manifest says:
\* detection keeps what SoundDetection promises.
THEOREM DetectionIsSound ==
  ASSUME NEW How, NEW On, NEW Platform, NEW g \in [rules : Seq(AnyRule(How, On)), platform : Platform]
  PROVE  SoundDetection(g, Detect_(g))
<1> DEFINE n == Len(g.rules)
           o(k) == Outcome(g.rules[k], g.platform)
           a == Detect_(g)
           h == [g EXCEPT !.rules = Reverse(@)]
           b == Detect_(h)
           R == AnyRule(How, On)
<1>1. g.rules \in Seq(R) /\ n \in Nat /\ DOMAIN g.rules = 1..n
  OBVIOUS
<1>2. h.rules = Reverse(g.rules) /\ h.platform = g.platform
  OBVIOUS
<1>3. Reverse(g.rules) \in Seq(R) /\ Len(Reverse(g.rules)) = n /\ ToSet(Reverse(g.rules)) = ToSet(g.rules)
  <2> HIDE DEF R
  <2>1. QED BY <1>1, Backwards
<1>4. DetectedUpTo(g, a, n)
  BY <1>1, DetectedAtTheEnd
<1>5. DetectedUpTo(h, b, n)
  <2> HIDE DEF h, n
  <2>1. h.rules \in Seq(AnyRule(How, On)) /\ Len(h.rules) = n
    BY <1>2, <1>3
  <2>2. DetectedUpTo(h, Detect_(h), Len(h.rules))
    BY <2>1, DetectedAtTheEnd
  <2>3. QED BY <2>1, <2>2
<1> HIDE DEF a, b, h, n
<1>6. \A x : (\E k \in 1..n : o(k) = x) <=> (\E k \in 1..n : Outcome(h.rules[k], h.platform) = x)
  <2> DEFINE r == Reverse(g.rules)
  <2>1. DOMAIN r = 1..n
    <3> HIDE DEF R
    <3>1. QED BY <1>3
  <2> HIDE DEF r
  <2>2. (\A k \in 1..n : \E m \in 1..n : r[m] = g.rules[k]) /\ (\A k \in 1..n : \E m \in 1..n : g.rules[m] = r[k])
    <3>1. ToSet(r) = ToSet(g.rules)
      BY <1>3 DEF r
    <3>2. QED BY <1>1, <2>1, <3>1 DEF ToSet
  <2>3. \A k \in 1..n : Outcome(h.rules[k], h.platform) = Outcome(r[k], g.platform)
    BY <1>2 DEF r
  <2>4. QED BY <2>2, <2>3
<1>7. a.status = b.status
  BY <1>4, <1>5, <1>6 DEF DetectedUpTo
<1> DEFINE said == {Outcome(g.rules[i], g.platform) : i \in DOMAIN g.rules}
           known == {r \in Elements(g.rules) : Outcome(r, g.platform) = a.status}
<1>8. /\ a.status = IF "running" \in said THEN "running"
                    ELSE IF "installed" \in said THEN "installed" ELSE "not-installed"
      /\ a.version = Nil \/ \E k \in 1..n : o(k) = a.status /\ g.rules[k].version = a.version
      /\ a.status = "installed" /\ a.version = Nil =>
           \A k \in 1..n : o(k) = "installed" => g.rules[k].version = Nil
  <2>1. \A x : x \in said <=> \E k \in 1..n : o(k) = x
    BY <1>1
  <2> HIDE DEF said
  <2>2. QED BY <1>4, <2>1 DEF DetectedUpTo
<1>9. \A r : r \in known <=> \E k \in 1..n : g.rules[k] = r /\ o(k) = a.status
  BY <1>1 DEF Elements
<1> HIDE DEF said, known
<1>10. a.version \in {r.version : r \in known} \cup {Nil}
  BY <1>8, <1>9
<1>11. a.status = "installed" /\ a.version = Nil => \A r \in known : r.version = Nil
  BY <1>8, <1>9
<1>12. a.status = (IF "running" \in said THEN "running" ELSE IF "installed" \in said THEN "installed" ELSE "not-installed")
       /\ a.status = Detect_(h).status
  BY <1>7, <1>8 DEF b
<1>13. SoundDetection(g, a)
  BY <1>10, <1>11, <1>12, Zenon DEF SoundDetection, said, known, h
<1>14. QED BY <1>13 DEF a

-----------------------------------------------------------------------------
\* The log grows from write to write.
LEMMA LogRuns ==
  ASSUME NEW w, w \in Seq(Writes)
  PROVE  \E f : /\ f \in [0..Len(w) -> LogState] /\ f[0] = [lines |-> <<>>, open |-> <<>>]
                /\ \A i \in 1..Len(w) : f[i] = LogStep(w, f[i-1], i)
                /\ LogLines(w) = LET end == f[Len(w)] IN IF end.open = <<>> THEN end.lines ELSE Append(end.lines, end.open)
<1> DEFINE n == Len(w)
           T == LogState
           a == [lines |-> <<>>, open |-> <<>>]
           step == [i \in 1..n |-> [t \in T |-> LogStep(w, t, i)]]
           body(j) == [u \in SUBSET (1..n) |->
                         IF u = {} THEN a ELSE LogStep(w, j[u \ {Max(u)}], [i \in DOMAIN w |-> i][Max(u)])]
<1>1. n \in Nat /\ DOMAIN w = 1..n
  OBVIOUS
<1>2. a \in T /\ \A i \in 1..n, t \in T : LogStep(w, t, i) \in T
  <2>1. a \in T
    BY DEF LogState
  <2> HIDE DEF n
  <2>2. ASSUME NEW i \in 1..n, NEW t \in T PROVE LogStep(w, t, i) \in T
    <3> DEFINE x == [n |-> i, cut |-> w[i] = "cut"]
               line == Append(t.open, x)
    <3>1. t.lines \in Seq(Seq(Written)) /\ t.open \in Seq(Written) /\ x \in Written
      BY <1>1 DEF LogState, Written
    <3> HIDE DEF x
    <3>2. line \in Seq(Written)
      BY <3>1
    <3> HIDE DEF line
    <3>3. Append(t.lines, line) \in Seq(Seq(Written)) /\ <<>> \in Seq(Written)
      BY <3>1, <3>2
    <3>4. LogStep(w, t, i) = IF w[i] = "whole" THEN [lines |-> Append(t.lines, line), open |-> <<>>]
                             ELSE [t EXCEPT !.open = line]
      BY DEF LogStep, line, x
    <3>5. [t EXCEPT !.open = line] \in LogState
      BY <3>2 DEF LogState
    <3>6. [lines |-> Append(t.lines, line), open |-> <<>>] \in LogState
      BY <3>3 DEF LogState
    <3> HIDE DEF LogState
    <3>7. QED BY <3>4, <3>5, <3>6
  <2> HIDE DEF T
  <2>3. QED BY <2>1, <2>2
<1>3. LogLines(w) = LET end == (CHOOSE j : j = body(j))[1..n] IN IF end.open = <<>> THEN end.lines ELSE Append(end.lines, end.open)
  <2> DEFINE end == FoldLeft(LAMBDA s, i : LogStep(w, s, i), a, [i \in DOMAIN w |-> i])
  <2>1. LogLines(w) = IF end.open = <<>> THEN end.lines ELSE Append(end.lines, end.open)
    BY Zenon DEF LogLines, LogStep
  <2>2. end = (CHOOSE j : j = body(j))[1..n]
    BY <1>1 DEF FoldLeft, MapThenFoldSet
  <2>3. QED BY <2>1, <2>2, Zenon
<1>4. AreSteps(step, n, T) /\ \A i \in 1..n, t \in T : step[i][t] = LogStep(w, t, i)
  BY <1>2 DEF AreSteps
<1> HIDE DEF step, n, T, a
<1>5. \E j : j = body(j)
  <2>1. PICK it : it \in [SUBSET (1..n) -> T] /\ IsFold(it, n, T, a, step)
    BY <1>1, <1>2, <1>4, FoldExists, Zenon
  <2>2. \A u \in SUBSET (1..n) : it[u] = body(it)[u]
    BY <1>1, <1>4, <2>1 DEF IsFold
  <2> HIDE DEF body
  <2>3. it = body(it)
    BY <2>1, <2>2, Zenon DEF body
  <2>4. QED BY <2>3, Zenon
<1>6. PICK j : j = body(j) /\ LogLines(w) = LET end == j[1..n] IN IF end.open = <<>> THEN end.lines ELSE Append(end.lines, end.open)
  BY <1>3, <1>5
<1>7. \A u \in SUBSET (1..n) : j[u] = IF u = {} THEN a ELSE LogStep(w, j[u \ {Max(u)}], [i \in DOMAIN w |-> i][Max(u)])
  BY <1>6
<1>8. j[{}] = a /\ \A i \in 1..n : j[1..i] = LogStep(w, j[1..(i-1)], i)
  <2>1. ASSUME NEW i \in 1..n PROVE j[1..i] = LogStep(w, j[1..(i-1)], i)
    <3>1. 1..i \in SUBSET (1..n) /\ 1..i # {} /\ Max(1..i) = i /\ (1..i) \ {i} = 1..(i-1)
      BY <1>1, PrefixIs
    <3>2. [k \in DOMAIN w |-> k][Max(1..i)] = i
      BY <1>1, <3>1
    <3>3. QED BY <1>7, <3>1, <3>2
  <2>2. QED BY <1>7, <2>1
<1>9. \A i \in 1..n : j[1..(i-1)] \in T => j[1..i] = step[i][j[1..(i-1)]]
  BY <1>4, <1>8
<1>10. PICK f : TakesSteps(f, n, T, a, step) /\ f[n] = j[1..n]
  BY <1>1, <1>2, <1>4, <1>8, <1>9, FoldTakesSteps
<1>11. f \in [0..n -> T] /\ f[0] = a /\ \A i \in 1..n : f[i] = LogStep(w, f[i-1], i)
  BY <1>1, <1>4, <1>10, StepsAreTaken
<1>12. QED BY <1>6, <1>10, <1>11 DEF n, T, a

\* The lines of a log: in the order of the writes they begin with, and with a line of
\* its own for each write that could be written whole.
LEMMA LogLinesTell ==
  ASSUME NEW w \in Seq(Writes)
  PROVE  /\ LogLines(w) \in Seq(Seq(Written)) /\ Ordered(LogLines(w))
         /\ \A k \in 1..Len(LogLines(w)) : Tells(w, LogLines(w)[k], Len(w))
         /\ \A m \in 1..Len(w) : Alone(w, m) =>
              \E k \in 1..Len(LogLines(w)) : Len(LogLines(w)[k]) = 1 /\ LogLines(w)[k][1].n = m
<1> DEFINE n == Len(w)
<1>1. PICK f : /\ f \in [0..n -> LogState] /\ f[0] = [lines |-> <<>>, open |-> <<>>]
               /\ \A i \in 1..n : f[i] = LogStep(w, f[i-1], i)
               /\ LogLines(w) = LET end == f[n] IN IF end.open = <<>> THEN end.lines ELSE Append(end.lines, end.open)
  BY LogRuns
<1>2. n \in Nat
  OBVIOUS
<1> DEFINE D == {i \in 0..n : LoggedUpTo(w, f[i], i)}
<1>3. 0 \in D
  <2>1. f[0].lines = <<>> /\ f[0].open = <<>> /\ Len(<<>>) = 0 /\ 0 \in 0..n
    BY <1>1, <1>2
  <2>2. QED BY <2>1 DEF LoggedUpTo, Ordered
<1> HIDE DEF n
<1>4. ASSUME NEW i \in 1..n, i - 1 \in D PROVE i \in D
  <2>1. i \in 0..n /\ i - 1 \in 0..n
    BY <1>2
  <2>2. f[i] = LogStep(w, f[i-1], i) /\ LoggedUpTo(w, f[i-1], i - 1) /\ f[i-1] \in LogState
    BY <1>1, <1>4, <2>1
  <2>3. LoggedUpTo(w, LogStep(w, f[i-1], i), i)
    BY <2>2, LogStepLogs DEF n
  <2>4. QED BY <2>1, <2>2, <2>3
<1> HIDE DEF D
<1>5. 0..n \subseteq D
  BY <1>2, <1>3, <1>4, Induction
<1> DEFINE s == f[n]
           p == s.lines
           q == s.open
           l == LogLines(w)
<1>6. LoggedUpTo(w, s, n) /\ s \in LogState
  <2>1. n \in D /\ n \in 0..n
    BY <1>2, <1>5
  <2>2. QED BY <1>1, <2>1 DEF D
<1>7. p \in Seq(Seq(Written)) /\ q \in Seq(Written)
  BY <1>6 DEF LogState
<1>8. l = IF q = <<>> THEN p ELSE Append(p, q)
  BY <1>1
<1>9. /\ \A k \in 1..Len(p) : Tells(w, p[k], n)
      /\ Ordered(p)
      /\ q # <<>> => Tells(w, q, n) /\ \A k \in 1..Len(p) : p[k][1].n < q[1].n
      /\ \A m \in 1..n : Alone(w, m) => \E k \in 1..Len(p) : Len(p[k]) = 1 /\ p[k][1].n = m
  BY <1>6 DEF LoggedUpTo
<1> HIDE DEF s, p, q, l
<1>10. CASE q = <<>>
  BY <1>7, <1>8, <1>9, <1>10 DEF l, n
<1>11. CASE q # <<>>
  <2> DEFINE r == Append(p, q)
  <2>1. /\ r \in Seq(Seq(Written)) /\ Len(r) = Len(p) + 1 /\ r[Len(p) + 1] = q
        /\ (\A k \in 1..Len(p) : r[k] = p[k]) /\ Ordered(r)
    BY <1>7, <1>9, <1>11, LinesGrow
  <2>2. Len(p) \in Nat /\ l = r
    BY <1>7, <1>8, <1>11
  <2> HIDE DEF r
  <2>3. \A k \in 1..Len(r) : Tells(w, r[k], n)
    <3>1. ASSUME NEW k \in 1..Len(r) PROVE Tells(w, r[k], n)
      <4>1. k \in 1..Len(p) \/ k = Len(p) + 1
        BY <2>1, <2>2
      <4>2. QED BY <1>9, <1>11, <2>1, <4>1
    <3>2. QED BY <3>1
  <2>4. \A k \in 1..Len(p) : k \in 1..Len(r)
    BY <2>1, <2>2
  <2>5. \A m \in 1..n : Alone(w, m) => \E k \in 1..Len(r) : Len(r[k]) = 1 /\ r[k][1].n = m
    <3>1. ASSUME NEW m \in 1..n, Alone(w, m) PROVE \E k \in 1..Len(r) : Len(r[k]) = 1 /\ r[k][1].n = m
      <4>1. PICK k \in 1..Len(p) : Len(p[k]) = 1 /\ p[k][1].n = m
        BY <1>9, <3>1
      <4>2. QED BY <2>1, <2>4, <4>1
    <3>2. QED BY <3>1
  <2>6. QED BY <2>1, <2>2, <2>3, <2>5 DEF l, n
<1>12. QED BY <1>10, <1>11

\* The latest repairs are told, newest first, each as it was; one is missing only if
\* its own line or the one before was cut off, however many were written and are
\* asked for: History keeps what SoundHistory promises.
THEOREM HistoryIsSound ==
  ASSUME NEW g, g.writes \in Seq(Writes), g.limit \in Nat
  PROVE  SoundHistory(g, History(g))
<1> DEFINE w == g.writes
           L == LogLines(w)
           S == {x \in {L[i] : i \in DOMAIN L} : Len(x) = 1 /\ ~x[1].cut}
           R == Kept(L, S)
           X == Seq(Written)
           m == Len(R)
           N == Len(L)
           a == History(g)
           lim == g.limit
<1>1. /\ L \in Seq(X) /\ Ordered(L)
      /\ \A k \in 1..N : Tells(w, L[k], Len(w))
      /\ \A j \in 1..Len(w) : Alone(w, j) => \E k \in 1..N : Len(L[k]) = 1 /\ L[k][1].n = j
  BY LogLinesTell
<1>2. a = [i \in 1..Min({lim, m}) |-> Reverse(R)[i][1].n]
  BY Zenon DEF History, Where
<1>3. DOMAIN w = 1..Len(w)
  OBVIOUS
<1> HIDE DEF w, L, X
<1>4. DOMAIN L = 1..N /\ N \in Nat
  BY <1>1
<1>5. \A k \in 1..N : L[k] \in S <=> Len(L[k]) = 1 /\ ~L[k][1].cut
  BY <1>4
<1> HIDE DEF S
<1>6. R \in Seq(X) /\ m \in Nat
  <2>1. R \in Seq(X)
    BY <1>1, KeptIs
  <2>2. QED BY <2>1
<1>7. PICK p : IsSelection(p, R, L, N, S)
  BY <1>1, KeptSelects
<1>8. /\ p \in [1..m -> 1..N] /\ \A i \in 1..m : R[i] = L[p[i]] /\ L[p[i]] \in S /\ p[i] \in 1..N
      /\ \A i, j \in 1..m : i < j => p[i] < p[j]
      /\ \A k \in 1..N : L[k] \in S => \E i \in 1..m : p[i] = k
  BY <1>7 DEF IsSelection
<1> DEFINE c == Min({lim, m})
<1>9. c \in Nat /\ c = IF lim <= m THEN lim ELSE m
  <2>1. lim \in Int /\ m \in Int
    BY <1>6
  <2> HIDE DEF m, lim
  <2>2. c = IF lim <= m THEN lim ELSE m
    BY <2>1, OfTwo
  <2>3. lim \in Nat /\ m \in Nat
    BY <1>6 DEF lim
  <2>4. QED BY <2>2, <2>3
<1>10. \A i \in 1..m : Reverse(R)[i] = R[m - i + 1]
  BY <1>6, Backwards
<1> HIDE DEF a, R, m, N, c, lim
<1> DEFINE first(k) == L[k][1].n
           back(i) == p[m - i + 1]
<1>11. DOMAIN a = 1..c /\ \A i \in 1..c : i \in 1..m /\ m - i + 1 \in 1..m /\ a[i] = first(back(i))
  <2>1. DOMAIN a = 1..c /\ \A i \in 1..c : a[i] = Reverse(R)[i][1].n
    BY <1>2 DEF c
  <2>2. \A i \in 1..c : i \in 1..m /\ m - i + 1 \in 1..m
    BY <1>6, <1>9 DEF lim
  <2>3. QED BY <1>8, <1>10, <2>1, <2>2
<1>12. \A k, j \in 1..N : k < j => first(k) < first(j)
  BY <1>1 DEF Ordered, N
<1>13. ASSUME NEW i \in 1..m, NEW j \in 1..m, i < j
       PROVE  first(back(i)) > first(back(j)) /\ back(i) \in 1..N
  <2>1. m - i + 1 \in 1..m /\ m - j + 1 \in 1..m /\ m - j + 1 < m - i + 1
    BY <1>6, <1>13
  <2>2. back(j) < back(i) /\ back(i) \in 1..N /\ back(j) \in 1..N
    BY <1>8, <2>1
  <2> HIDE DEF back
  <2>3. first(back(j)) < first(back(i))
    BY <1>12, <2>2
  <2>4. first(back(j)) \in Nat /\ first(back(i)) \in Nat
    BY <1>1, <2>2, SMTT(30) DEF Tells
  <2> HIDE DEF first
  <2>5. first(back(i)) > first(back(j))
    BY <2>3, <2>4
  <2>6. QED BY <2>2, <2>5
<1>14. \A i, j \in DOMAIN a : i < j => a[i] > a[j]
  <2> HIDE DEF first, back
  <2>1. QED BY <1>11, <1>13
<1>15. \A i \in DOMAIN a : w[a[i]] # "cut"
  <2>1. ASSUME NEW i \in 1..c PROVE w[a[i]] # "cut"
    <3>1. m - i + 1 \in 1..m /\ a[i] = first(back(i))
      BY <1>11
    <3>2. back(i) \in 1..N /\ L[back(i)] \in S
      BY <1>8, <3>1
    <3>3. Tells(w, L[back(i)], Len(w)) /\ ~L[back(i)][1].cut
      BY <1>1, <1>5, <3>2
    <3>4. QED BY <3>1, <3>3 DEF Tells
  <2>2. QED BY <1>11, <2>1
<1>16. ASSUME NEW j \in 1..Len(w), Alone(w, j)
       PROVE  j \in Elements(a) \/ (Len(a) = lim /\ \A i \in DOMAIN a : a[i] > j)
  <2>1. PICK k \in 1..N : Len(L[k]) = 1 /\ first(k) = j
    BY <1>1, <1>16
  <2>2. L[k] \in S
    <3>1. Tells(w, L[k], Len(w)) /\ w[j] = "whole"
      BY <1>1, <1>16 DEF Alone
    <3>2. ~L[k][1].cut
      BY <2>1, <3>1 DEF Tells
    <3>3. QED BY <1>5, <2>1, <3>2
  <2>3. PICK q \in 1..m : p[q] = k
    BY <1>8, <2>2
  <2> DEFINE i == m - q + 1
  <2>4. i \in 1..m /\ m - i + 1 = q
    BY <1>6
  <2> HIDE DEF i
  <2>5. first(back(i)) = j
    BY <2>1, <2>3, <2>4
  <2> HIDE DEF first, back
  <2>6. CASE i \in 1..c
    <3>1. a[i] = j /\ i \in DOMAIN a
      BY <1>11, <2>5, <2>6
    <3>2. QED BY <3>1 DEF Elements
  <2>7. CASE i \notin 1..c
    <3>1. c = lim /\ \A k2 \in 1..c : k2 < i
      BY <1>6, <1>9, <2>4, <2>7 DEF lim
    <3>2. Len(a) = c
      BY <1>9, <1>11, <1>2 DEF c
    <3>3. \A k2 \in 1..c : a[k2] > j
      BY <1>11, <1>13, <2>4, <2>5, <3>1
    <3>4. QED BY <1>11, <3>1, <3>2, <3>3
  <2>8. QED BY <2>6, <2>7
<1>17. SoundHistory(g, a)
  BY <1>3, <1>14, <1>15, <1>16 DEF SoundHistory, Alone, w, lim
<1>18. QED BY <1>17 DEF a

-----------------------------------------------------------------------------
\* hub: repositories of any words, and any answer of the hub.
RegisteredAs(W) == UNION {[D -> Seq(W)] : D \in SUBSET Seq(W \cup {"-"})}

\* The id of a repository is made of its words, and as long.
LEMMA IdOfIs ==
  ASSUME NEW W, NEW r \in Seq(W)
  PROVE  /\ IdOf(r) \in Seq(W \cup {"-"}) /\ Len(IdOf(r)) = Len(r)
         /\ \A i \in 1..Len(r) : IdOf(r)[i] = IF r[i] = "/" THEN "-" ELSE r[i]
<1>1. Len(r) \in Nat /\ DOMAIN r = 1..Len(r) /\ \A i \in 1..Len(r) : r[i] \in W
  OBVIOUS
<1>2. IdOf(r) = [i \in 1..Len(r) |-> IF r[i] = "/" THEN "-" ELSE r[i]]
  BY <1>1 DEF IdOf
<1> DEFINE V == W \cup {"-"}
<1>3. \A i \in 1..Len(r) : (IF r[i] = "/" THEN "-" ELSE r[i]) \in V
  BY <1>1
<1> HIDE DEF V
<1>4. [i \in 1..Len(r) |-> IF r[i] = "/" THEN "-" ELSE r[i]] \in Seq(V)
  BY <1>1, <1>3
<1>5. QED BY <1>1, <1>2, <1>4 DEF V

\* Repositories of one id differ only in the signs between their words.
LEMMA SameIdSameWords ==
  ASSUME NEW W, NEW r \in Seq(W), NEW q \in Seq(W), IdOf(r) = IdOf(q)
  PROVE  Where(r, LAMBDA t : t \notin {"/", "-"}) = Where(q, LAMBDA t : t \notin {"/", "-"})
<1> DEFINE S(s) == {x \in {s[i] : i \in DOMAIN s} : x \notin {"/", "-"}}
<1>1. Len(r) = Len(q) /\ DOMAIN r = 1..Len(r) /\ DOMAIN q = 1..Len(q)
  <2>1. Len(IdOf(r)) = Len(r) /\ Len(IdOf(q)) = Len(q)
    BY IdOfIs
  <2>2. QED BY <2>1
<1>2. \A i \in 1..Len(r) : (IF r[i] = "/" THEN "-" ELSE r[i]) = (IF q[i] = "/" THEN "-" ELSE q[i])
  <2>1. \A i \in 1..Len(r) : IdOf(r)[i] = IF r[i] = "/" THEN "-" ELSE r[i]
    BY IdOfIs
  <2>2. \A i \in 1..Len(q) : IdOf(q)[i] = IF q[i] = "/" THEN "-" ELSE q[i]
    BY IdOfIs
  <2>3. QED BY <1>1, <2>1, <2>2
<1>3. /\ \A i \in 1..Len(r) : r[i] \in S(r) <=> r[i] \notin {"/", "-"}
      /\ \A i \in 1..Len(q) : q[i] \in S(q) <=> q[i] \notin {"/", "-"}
  BY <1>1
<1>4. \A i \in 1..Len(r) : (r[i] \in S(r) <=> q[i] \in S(q)) /\ (r[i] \in S(r) => r[i] = q[i])
  BY <1>1, <1>2, <1>3
<1> HIDE DEF S
<1>5. Kept(r, S(r)) = Kept(q, S(q))
  BY <1>1, <1>4, KeptSame
<1>6. QED BY <1>5 DEF S, Where

\* Registration goes from hit to hit.
LEMMA RegisterRuns ==
  ASSUME NEW W, NEW Private, NEW hits \in Seq([repo : Seq(W), private : Private])
  PROVE  \E f : /\ f \in [0..Len(hits) -> RegisteredAs(W)] /\ f[0] = <<>>
                /\ \A i \in 1..Len(hits) : f[i] = With(f[i-1], IdOf(hits[i].repo), hits[i].repo)
                /\ RegisterAll(hits) = f[Len(hits)]
<1> DEFINE n == Len(hits)
           T == RegisteredAs(W)
           a == <<>>
           step == [i \in 1..n |-> [t \in T |-> With(t, IdOf(hits[i].repo), hits[i].repo)]]
           body(j) == [u \in SUBSET (1..n) |->
                         IF u = {} THEN a ELSE With(j[u \ {Max(u)}], IdOf(hits[Max(u)].repo), hits[Max(u)].repo)]
<1>1. n \in Nat /\ DOMAIN hits = 1..n
  OBVIOUS
<1>2. a \in T /\ \A i \in 1..n, t \in T : With(t, IdOf(hits[i].repo), hits[i].repo) \in T
  <2>1. a \in T
    <3>1. a \in [{} -> Seq(W)]
      OBVIOUS
    <3>2. {} \in SUBSET Seq(W \cup {"-"})
      OBVIOUS
    <3>3. QED BY <3>1, <3>2 DEF RegisteredAs
  <2>2. ASSUME NEW i \in 1..n, NEW t \in T PROVE With(t, IdOf(hits[i].repo), hits[i].repo) \in T
    <3> DEFINE r == hits[i].repo
               k == IdOf(r)
               K == Seq(W \cup {"-"})
               V == Seq(W)
    <3>1. r \in V
      <4> DEFINE H == [repo : Seq(W), private : Private]
      <4>1. hits \in Seq(H) /\ i \in 1..Len(hits)
        OBVIOUS
      <4>2. \A h \in H : h.repo \in Seq(W)
        OBVIOUS
      <4> HIDE DEF H, n
      <4>3. hits[i] \in H
        BY <4>1
      <4>4. QED BY <4>2, <4>3
    <3>2. k \in K
      <4> HIDE DEF r
      <4>1. QED BY <3>1, IdOfIs
    <3> HIDE DEF r, k, K, V
    <3>3. PICK D \in SUBSET K : t \in [D -> V]
      BY DEF RegisteredAs, K, V
    <3>4. With(t, k, r) \in [D \cup {k} -> V] /\ D \cup {k} \in SUBSET K
      BY <3>1, <3>2, <3>3 DEF With
    <3>5. With(t, k, r) \in RegisteredAs(W)
      BY <3>4 DEF RegisteredAs, K, V
    <3>6. QED BY <3>5 DEF k, r
  <2>3. QED BY <2>1, <2>2
<1>3. RegisterAll(hits) = (CHOOSE j : j = body(j))[1..n]
  BY <1>1 DEF RegisterAll, With, FoldLeft, MapThenFoldSet
<1>4. AreSteps(step, n, T) /\ \A i \in 1..n, t \in T : step[i][t] = With(t, IdOf(hits[i].repo), hits[i].repo)
  BY <1>2 DEF AreSteps
<1> HIDE DEF step, n, T, a
<1>5. \E j : j = body(j)
  <2>1. PICK it : it \in [SUBSET (1..n) -> T] /\ IsFold(it, n, T, a, step)
    BY <1>1, <1>2, <1>4, FoldExists, Zenon
  <2>2. \A u \in SUBSET (1..n) : it[u] = body(it)[u]
    BY <1>1, <1>4, <2>1 DEF IsFold
  <2> HIDE DEF body
  <2>3. it = body(it)
    BY <2>1, <2>2, Zenon DEF body
  <2>4. QED BY <2>3, Zenon
<1>6. PICK j : j = body(j) /\ RegisterAll(hits) = j[1..n]
  BY <1>3, <1>5
<1>7. \A u \in SUBSET (1..n) : j[u] = IF u = {} THEN a ELSE With(j[u \ {Max(u)}], IdOf(hits[Max(u)].repo), hits[Max(u)].repo)
  BY <1>6
<1>8. j[{}] = a /\ \A i \in 1..n : j[1..i] = With(j[1..(i-1)], IdOf(hits[i].repo), hits[i].repo)
  <2>1. \A i \in 1..n : /\ 1..i \in SUBSET (1..n) /\ 1..i # {} /\ Max(1..i) = i
                        /\ (1..i) \ {i} = 1..(i-1)
    BY <1>1, PrefixIs
  <2>2. QED BY <1>7, <2>1
<1>9. \A i \in 1..n : j[1..(i-1)] \in T => j[1..i] = step[i][j[1..(i-1)]]
  BY <1>4, <1>8
<1>10. PICK f : TakesSteps(f, n, T, a, step) /\ f[n] = j[1..n]
  BY <1>1, <1>2, <1>4, <1>8, <1>9, FoldTakesSteps
<1>11. f \in [0..n -> T] /\ f[0] = a /\ \A i \in 1..n : f[i] = With(f[i-1], IdOf(hits[i].repo), hits[i].repo)
  <2>1. f \in [0..n -> T] /\ f[0] = a /\ \A i \in 1..n : f[i] = step[i][f[i-1]] /\ f[i-1] \in T
    BY <1>1, <1>10, StepsAreTaken
  <2>2. QED BY <1>4, <2>1
<1>12. QED BY <1>6, <1>10, <1>11 DEF n, T, a

\* A hit is there, or one of its id that came later.
StillThere(hits, k) ==
  \E j \in k..Len(hits) : /\ IdOf(hits[j].repo) = IdOf(hits[k].repo)
                          /\ IdOf(hits[k].repo) \in DOMAIN RegisterAll(hits)
                          /\ RegisterAll(hits)[IdOf(hits[k].repo)] = hits[j].repo

\* What was registered is there, or what replaced it.
LEMMA RegisteredIsThere ==
  ASSUME NEW W, NEW Private, NEW hits \in Seq([repo : Seq(W), private : Private]), NEW k \in 1..Len(hits)
  PROVE  StillThere(hits, k)
<1> DEFINE n == Len(hits)
           r(i) == hits[i].repo
           id(i) == IdOf(r(i))
<1>1. PICK f : /\ f[0] = <<>> /\ \A i \in 1..n : f[i] = With(f[i-1], id(i), r(i))
               /\ RegisterAll(hits) = f[n]
  BY RegisterRuns
<1>2. n \in Nat /\ k \in 1..n
  OBVIOUS
<1> HIDE DEF n, r, id
<1> DEFINE is(i) == \E j \in k..i : id(j) = id(k) /\ id(k) \in DOMAIN f[i] /\ f[i][id(k)] = r(j)
           D == {i \in 0..n : i >= k => is(i)}
<1>3. 0 \in D
  BY <1>2
<1>4. ASSUME NEW i \in 1..n, i - 1 \in D PROVE i \in D
  <2>1. f[i] = With(f[i-1], id(i), r(i)) /\ i \in 0..n /\ (i > k => is(i - 1))
    BY <1>1, <1>2, <1>4
  <2>2. DOMAIN f[i] = DOMAIN f[i-1] \cup {id(i)} /\ f[i][id(i)] = r(i)
        /\ \A x \in DOMAIN f[i-1] : x # id(i) => f[i][x] = f[i-1][x]
    BY <2>1 DEF With
  <2>3. CASE i >= k /\ id(i) = id(k)
    <3>1. i \in k..i
      BY <1>2, <2>3
    <3>2. QED BY <2>1, <2>2, <2>3, <3>1
  <2>4. CASE i >= k /\ id(i) # id(k)
    <3>1. i > k
      BY <1>2, <2>4
    <3>2. PICK j \in k..(i-1) : id(j) = id(k) /\ id(k) \in DOMAIN f[i-1] /\ f[i-1][id(k)] = r(j)
      BY <2>1, <3>1
    <3>3. j \in k..i
      BY <1>2
    <3>4. is(i)
      BY <2>2, <2>4, <3>2, <3>3
    <3>5. QED BY <2>1, <3>4
  <2>5. CASE ~(i >= k)
    BY <2>1, <2>5
  <2>6. QED BY <2>3, <2>4, <2>5
<1> HIDE DEF D
<1>5. 0..n \subseteq D
  BY <1>2, <1>3, <1>4, Induction
<1>6. n \in 0..n /\ n >= k
  BY <1>2
<1>7. is(n)
  BY <1>5, <1>6 DEF D
<1>8. QED BY <1>1, <1>7 DEF StillThere, n, id, r

\* Nothing private is found; what was registered is there, unless a repository whose
\* name differs only in where its owner ends was registered later, whatever the
\* repositories are: the search and the registration keep what SoundHub promises.
THEOREM HubIsSound ==
  ASSUME NEW W, NEW Private, NEW Status,
         NEW g \in [blank : BOOLEAN, status : Status, hits : Seq([repo : Seq(W), private : Private])]
  PROVE  SoundHub(g, SearchAndRegister(g))
<1>0. g.blank \in BOOLEAN /\ g.hits \in Seq([repo : Seq(W), private : Private])
  OBVIOUS
<1> USE <1>0
<1> DEFINE H == [repo : Seq(W), private : Private]
           public == {h \in {g.hits[i] : i \in DOMAIN g.hits} : h.private # "yes"}
           a == SearchAndRegister(g)
           hits == IF g.blank \/ g.status # "ok" THEN <<>> ELSE Kept(g.hits, public)
<1>1. a.hits = hits /\ a.models = RegisterAll(hits)
  <2>1. SearchHub(g).hits = hits
    BY DEF SearchHub, Where
  <2> HIDE DEF hits
  <2>2. QED BY <2>1 DEF SearchAndRegister
<1>2. hits \in Seq(H) /\ \A i \in 1..Len(hits) : hits[i].private # "yes" /\ ~g.blank /\ g.status = "ok"
  <2>1. CASE g.blank \/ g.status # "ok"
    <3>1. hits = <<>>
      BY <2>1
    <3> HIDE DEF hits
    <3>2. QED BY <3>1
  <2>2. CASE ~(g.blank \/ g.status # "ok")
    <3>1. hits = Kept(g.hits, public)
      BY <2>2
    <3> HIDE DEF hits, H
    <3>2. g.hits \in Seq(H)
      BY DEF H
    <3>3. hits \in Seq(H) /\ ToSet(hits) = ToSet(g.hits) \cap public
      BY <3>1, <3>2, KeptIs
    <3>4. \A i \in 1..Len(hits) : hits[i] \in public
      <4>1. DOMAIN hits = 1..Len(hits)
        BY <3>3
      <4> HIDE DEF public
      <4>2. QED BY <3>3, <4>1 DEF ToSet
    <3>5. QED BY <2>2, <3>3, <3>4
  <2>3. QED BY <2>1, <2>2
<1>3. DOMAIN hits = 1..Len(hits) /\ Len(hits) \in Nat
  <2> HIDE DEF hits
  <2>1. QED BY <1>2
<1> HIDE DEF hits, a
<1>4. ASSUME NEW k \in 1..Len(hits)
      PROVE  \/ \E d \in DOMAIN a.models : a.models[d] = a.hits[k].repo
             \/ \E j \in DOMAIN a.hits :
                  /\ k < j /\ a.hits[j].repo # a.hits[k].repo
                  /\ Where(a.hits[j].repo, LAMBDA t : t \notin {"/", "-"})
                       = Where(a.hits[k].repo, LAMBDA t : t \notin {"/", "-"})
  <2> DEFINE r(i) == hits[i].repo
  <2>1. \A i \in 1..Len(hits) : r(i) \in Seq(W)
    <3>1. \A h \in H : h.repo \in Seq(W)
      OBVIOUS
    <3> HIDE DEF H
    <3>2. \A i \in 1..Len(hits) : hits[i] \in H
      BY <1>2
    <3>3. QED BY <3>1, <3>2
  <2>2. PICK j \in k..Len(hits) : /\ IdOf(r(j)) = IdOf(r(k))
                                  /\ IdOf(r(k)) \in DOMAIN a.models /\ a.models[IdOf(r(k))] = r(j)
    <3>1. hits \in Seq([repo : Seq(W), private : Private])
      BY <1>2
    <3>2. StillThere(hits, k)
      BY <3>1, RegisteredIsThere
    <3>3. QED BY <1>1, <3>2 DEF StillThere
  <2>3. j \in 1..Len(hits) /\ (j = k \/ k < j)
    BY <1>3
  <2> HIDE DEF r
  <2>4. CASE r(j) = r(k)
    BY <1>1, <2>2, <2>4 DEF r
  <2>5. CASE r(j) # r(k)
    <3>1. Where(r(j), LAMBDA t : t \notin {"/", "-"}) = Where(r(k), LAMBDA t : t \notin {"/", "-"})
      BY <2>1, <2>2, <2>3, SameIdSameWords
    <3>2. k < j
      BY <2>3, <2>5
    <3>3. QED BY <1>1, <1>3, <2>3, <2>5, <3>1, <3>2 DEF r
  <2>6. QED BY <2>4, <2>5
<1>5. SoundHub(g, a)
  BY <1>1, <1>2, <1>3, <1>4 DEF SoundHub
<1>6. QED BY <1>5 DEF a

-----------------------------------------------------------------------------
\* sections: answers of any lines.
Outs == UNION {[D -> SUBSET Nat] : D \in SUBSET Headers}
SectionState == [kind : Headers \cup {"none"}, buf : SUBSET Nat, out : Outs]
SectionStep(lines, s, i) ==
  CASE lines[i] \in Headers -> [Flush(s) EXCEPT !.kind = lines[i]]
    [] lines[i] = "text" -> [s EXCEPT !.buf = @ \cup {i}]
    [] OTHER -> s

\* What a section ends with.
LEMMA FlushIs ==
  ASSUME NEW s \in SectionState
  PROVE  /\ Flush(s) \in SectionState /\ Flush(s).buf = {} /\ Flush(s).kind = s.kind
         /\ Flush(s).out = IF s.kind \in {"none", "unknown"} \/ s.buf = {} THEN s.out
                           ELSE With(s.out, s.kind, s.buf)
<1>1. s.kind \in Headers \cup {"none"} /\ s.buf \in SUBSET Nat /\ s.out \in Outs
  BY DEF SectionState
<1>2. s = [kind |-> s.kind, buf |-> s.buf, out |-> s.out]
  BY DEF SectionState
<1>3. CASE s.kind \in {"none", "unknown"} \/ s.buf = {}
  <2>1. Flush(s) = [s EXCEPT !.buf = {}]
    BY <1>3, Zenon DEF Flush
  <2>2. Flush(s) \in SectionState /\ Flush(s).buf = {} /\ Flush(s).kind = s.kind /\ Flush(s).out = s.out
    BY <1>1, <1>2, <2>1 DEF SectionState
  <2>3. QED BY <1>3, <2>2
<1>4. CASE ~(s.kind \in {"none", "unknown"} \/ s.buf = {})
  <2> DEFINE o == With(s.out, s.kind, s.buf)
  <2>1. Flush(s) = [s EXCEPT !.buf = {}, !.out = o]
    BY <1>4, Zenon DEF Flush
  <2>2. o \in Outs
    <3>1. PICK D \in SUBSET Headers : s.out \in [D -> SUBSET Nat]
      BY <1>1 DEF Outs
    <3>2. s.kind \in Headers
      BY <1>1, <1>4
    <3>3. o \in [D \cup {s.kind} -> SUBSET Nat] /\ D \cup {s.kind} \in SUBSET Headers
      BY <1>1, <3>1, <3>2 DEF With
    <3> HIDE DEF o
    <3>4. QED BY <3>3 DEF Outs
  <2> HIDE DEF o
  <2>3. Flush(s) \in SectionState /\ Flush(s).buf = {} /\ Flush(s).kind = s.kind /\ Flush(s).out = o
    BY <1>1, <1>2, <2>1, <2>2 DEF SectionState
  <2>4. QED BY <1>4, <2>3 DEF o
<1>5. QED BY <1>3, <1>4

\* What a line does.
LEMMA SectionStepIs ==
  ASSUME NEW lines, NEW i \in Nat, NEW s \in SectionState
  PROVE  /\ SectionStep(lines, s, i) \in SectionState
         /\ lines[i] \in Headers => /\ SectionStep(lines, s, i).kind = lines[i]
                                    /\ SectionStep(lines, s, i).buf = {}
                                    /\ SectionStep(lines, s, i).out = Flush(s).out
         /\ lines[i] \notin Headers =>
              /\ SectionStep(lines, s, i).kind = s.kind
              /\ SectionStep(lines, s, i).buf = s.buf \cup {k \in {i} : lines[k] = "text"}
              /\ SectionStep(lines, s, i).out = s.out
<1> DEFINE t == SectionStep(lines, s, i)
<1>1. CASE lines[i] \in Headers
  <2> DEFINE u == Flush(s)
  <2>1. t = [u EXCEPT !.kind = lines[i]]
    BY <1>1 DEF SectionStep, Headers
  <2>2. u \in SectionState /\ u.buf = {}
    BY FlushIs
  <2> HIDE DEF t, u
  <2>3. t \in SectionState /\ t.kind = lines[i] /\ t.buf = {} /\ t.out = u.out
    <3>1. u = [kind |-> u.kind, buf |-> {}, out |-> u.out] /\ u.out \in Outs
      BY <2>2 DEF SectionState
    <3>2. QED BY <1>1, <2>1, <3>1 DEF SectionState
  <2>4. QED BY <1>1, <2>3 DEF t, u
<1>2. CASE lines[i] = "text"
  <2>1. t = [s EXCEPT !.buf = @ \cup {i}] /\ lines[i] \notin Headers
    BY <1>2 DEF SectionStep, Headers
  <2> HIDE DEF t
  <2>2. t \in SectionState /\ t.kind = s.kind /\ t.buf = s.buf \cup {i} /\ t.out = s.out
    BY <2>1 DEF SectionState
  <2>3. {k \in {i} : lines[k] = "text"} = {i}
    BY <1>2
  <2>4. QED BY <2>1, <2>2, <2>3 DEF t
<1>3. CASE lines[i] \notin Headers /\ lines[i] # "text"
  <2>1. t = s
    BY <1>3 DEF SectionStep
  <2>2. {k \in {i} : lines[k] = "text"} = {}
    BY <1>3
  <2> HIDE DEF t
  <2>3. QED BY <1>3, <2>1, <2>2 DEF t
<1>4. QED BY <1>1, <1>2, <1>3

\* The reading goes from line to line.
LEMMA SectionsRun ==
  ASSUME NEW L, NEW lines \in Seq(L)
  PROVE  \E f : /\ f \in [0..Len(lines) -> SectionState] /\ f[0] = [kind |-> "none", buf |-> {}, out |-> <<>>]
                /\ \A i \in 1..Len(lines) : f[i] = SectionStep(lines, f[i-1], i)
                /\ Sections(lines) = Flush(f[Len(lines)]).out
<1> DEFINE n == Len(lines)
           T == SectionState
           a == [kind |-> "none", buf |-> {}, out |-> <<>>]
           step == [i \in 1..n |-> [t \in T |-> SectionStep(lines, t, i)]]
           body(j) == [u \in SUBSET (1..n) |->
                         IF u = {} THEN a ELSE SectionStep(lines, j[u \ {Max(u)}], [i \in DOMAIN lines |-> i][Max(u)])]
<1>1. n \in Nat /\ DOMAIN lines = 1..n
  OBVIOUS
<1>2. a \in T /\ \A i \in 1..n, t \in T : SectionStep(lines, t, i) \in T
  <2>1. a \in T
    <3> DEFINE e == <<>>
    <3>1. e \in [{} -> SUBSET Nat] /\ {} \in SUBSET Headers
      OBVIOUS
    <3> HIDE DEF e
    <3>2. e \in Outs
      BY <3>1 DEF Outs
    <3>3. QED BY <3>2 DEF SectionState, e
  <2>2. \A i \in 1..n : i \in Nat
    BY <1>1
  <2> HIDE DEF n
  <2>3. QED BY <2>1, <2>2, SectionStepIs
<1>3. Sections(lines) = Flush((CHOOSE j : j = body(j))[1..n]).out
  <2> DEFINE end == FoldLeft(LAMBDA s, i : SectionStep(lines, s, i), a, [i \in DOMAIN lines |-> i])
  <2>1. Sections(lines) = Flush(end).out
    BY Zenon DEF Sections, SectionStep
  <2>2. end = (CHOOSE j : j = body(j))[1..n]
    BY <1>1 DEF FoldLeft, MapThenFoldSet
  <2>3. QED BY <2>1, <2>2, Zenon
<1>4. AreSteps(step, n, T) /\ \A i \in 1..n, t \in T : step[i][t] = SectionStep(lines, t, i)
  BY <1>2 DEF AreSteps
<1> HIDE DEF step, n, T, a
<1>5. \E j : j = body(j)
  <2>1. PICK it : it \in [SUBSET (1..n) -> T] /\ IsFold(it, n, T, a, step)
    BY <1>1, <1>2, <1>4, FoldExists, Zenon
  <2>2. \A u \in SUBSET (1..n) : it[u] = body(it)[u]
    BY <1>1, <1>4, <2>1 DEF IsFold
  <2> HIDE DEF body
  <2>3. it = body(it)
    BY <2>1, <2>2, Zenon DEF body
  <2>4. QED BY <2>3, Zenon
<1>6. PICK j : j = body(j) /\ Sections(lines) = Flush(j[1..n]).out
  BY <1>3, <1>5
<1>7. \A u \in SUBSET (1..n) : j[u] = IF u = {} THEN a ELSE SectionStep(lines, j[u \ {Max(u)}], [i \in DOMAIN lines |-> i][Max(u)])
  BY <1>6
<1>8. j[{}] = a /\ \A i \in 1..n : j[1..i] = SectionStep(lines, j[1..(i-1)], i)
  <2>1. ASSUME NEW i \in 1..n PROVE j[1..i] = SectionStep(lines, j[1..(i-1)], i)
    <3>1. 1..i \in SUBSET (1..n) /\ 1..i # {} /\ Max(1..i) = i /\ (1..i) \ {i} = 1..(i-1)
      BY <1>1, PrefixIs
    <3>2. [k \in DOMAIN lines |-> k][Max(1..i)] = i
      BY <1>1, <3>1
    <3>3. QED BY <1>7, <3>1, <3>2
  <2>2. QED BY <1>7, <2>1
<1>9. \A i \in 1..n : j[1..(i-1)] \in T => j[1..i] = step[i][j[1..(i-1)]]
  BY <1>4, <1>8
<1>10. PICK f : TakesSteps(f, n, T, a, step) /\ f[n] = j[1..n]
  BY <1>1, <1>2, <1>4, <1>8, <1>9, FoldTakesSteps
<1>11. f \in [0..n -> T] /\ f[0] = a /\ \A i \in 1..n : f[i] = SectionStep(lines, f[i-1], i)
  BY <1>1, <1>4, <1>10, StepsAreTaken
<1>12. QED BY <1>6, <1>10, <1>11 DEF n, T, a

\* The texts under a header, and the headers of a kind that have some.
Under(lines, h) ==
  {i \in DOMAIN lines : /\ h < i /\ lines[i] = "text"
                        /\ \A j \in h + 1..i : lines[j] \notin Headers}
HeadsOf(lines, k) == {h \in DOMAIN lines : lines[h] = k /\ Under(lines, h) # {}}

\* What is read of a kind says what stands under the last of its headers before a line.
Says(lines, o, k, q) ==
  LET H == {h \in HeadsOf(lines, k) : h < q}
  IN IF H = {} THEN k \notin DOMAIN o ELSE k \in DOMAIN o /\ o[k] = Under(lines, Max(H))
Kinds == {"paper", "blog"}

\* How far an answer is read: the header at c is the last one.
ReadUpTo(lines, s, i, c) ==
  /\ \A j \in c + 1..i : lines[j] \notin Headers
  /\ c = 0 => s.kind = "none"
  /\ c > 0 => lines[c] \in Headers /\ s.kind = lines[c]
  /\ s.buf = {m \in c + 1..i : lines[m] = "text"}
  /\ \A k \in Kinds : Says(lines, s.out, k, c)

\* What is read before a header, or at the end, once its section has ended.
LEMMA FlushSays ==
  ASSUME NEW L, NEW lines \in Seq(L), NEW i \in 0..Len(lines), NEW c \in 0..i,
         NEW s \in SectionState, ReadUpTo(lines, s, i, c),
         i = Len(lines) \/ lines[i + 1] \in Headers, NEW k \in Kinds
  PROVE  Says(lines, Flush(s).out, k, i + 1)
<1> DEFINE n == Len(lines)
           H(q) == {h \in HeadsOf(lines, k) : h < q}
           o == Flush(s).out
<1>1. n \in Nat /\ DOMAIN lines = 1..n /\ c \in Nat /\ i \in 0..n /\ c \in 0..i
  OBVIOUS
<1>2. /\ \A j \in c + 1..i : lines[j] \notin Headers
      /\ c = 0 => s.kind = "none"
      /\ c > 0 => lines[c] \in Headers /\ s.kind = lines[c]
      /\ s.buf = {m \in c + 1..i : lines[m] = "text"}
      /\ Says(lines, s.out, k, c)
  BY DEF ReadUpTo
<1>3. o = IF s.kind \in {"none", "unknown"} \/ s.buf = {} THEN s.out ELSE With(s.out, s.kind, s.buf)
  BY FlushIs
<1>4. k \in Headers /\ k # "none" /\ k # "unknown"
  BY DEF Kinds, Headers
<1> HIDE DEF n, o
<1>5. ASSUME c > 0 PROVE Under(lines, c) = s.buf
  <2>1. \A m \in 1..n : (c < m /\ \A j \in c + 1..m : lines[j] \notin Headers) <=> m \in c + 1..i
    <3>1. ASSUME NEW m \in 1..n, c < m, \A j \in c + 1..m : lines[j] \notin Headers
          PROVE  m \in c + 1..i
      <4>1. CASE i = n
        BY <1>1, <3>1, <4>1
      <4>2. CASE i # n
        <5>1. lines[i + 1] \in Headers
          BY <4>2 DEF n
        <5>2. i + 1 \notin c + 1..m
          BY <3>1, <5>1
        <5>3. QED BY <1>1, <3>1, <5>2
      <4>3. QED BY <4>1, <4>2
    <3>2. ASSUME NEW m \in 1..n, m \in c + 1..i
          PROVE  c < m /\ \A j \in c + 1..m : lines[j] \notin Headers
      <4>1. c < m /\ \A j \in c + 1..m : j \in c + 1..i
        BY <1>1, <3>2
      <4>2. QED BY <1>2, <4>1
    <3>3. QED BY <3>1, <3>2
  <2>2. \A m \in c + 1..i : m \in 1..n
    BY <1>1
  <2>3. QED BY <1>1, <1>2, <2>1, <2>2 DEF Under
<1>6. \A h \in HeadsOf(lines, k) : h \in 1..n /\ lines[h] = k
  BY <1>1 DEF HeadsOf
<1>7. \A h \in HeadsOf(lines, k) : h < i + 1 <=> h < c \/ h = c
  <2>1. ASSUME NEW h \in HeadsOf(lines, k) PROVE h < i + 1 <=> h < c \/ h = c
    <3>1. h \notin c + 1..i /\ h \in 1..n
      BY <1>2, <1>4, <1>6
    <3>2. QED BY <1>1, <3>1
  <2>2. QED BY <2>1
<1>8. CASE c \in HeadsOf(lines, k)
  <2>1. c > 0 /\ lines[c] = k /\ Under(lines, c) # {}
    BY <1>1, <1>8 DEF HeadsOf
  <2>2. s.kind = k /\ s.buf = Under(lines, c)
    BY <1>2, <1>5, <2>1
  <2>3. k \in DOMAIN o /\ o[k] = Under(lines, c)
    BY <1>3, <1>4, <2>1, <2>2 DEF With
  <2>4. H(i + 1) \in SUBSET (1..c) /\ c \in H(i + 1)
    <3>1. \A h \in HeadsOf(lines, k) : h < i + 1 => h \in 1..c
      BY <1>1, <1>6, <1>7
    <3>2. c < i + 1
      BY <1>1
    <3>3. QED BY <1>8, <3>1, <3>2
  <2> HIDE DEF H
  <2>5. Max(H(i + 1)) = c
    BY <1>1, <2>4, GreatestIsAdded
  <2>6. QED BY <2>3, <2>4, <2>5 DEF Says, H, o
<1>9. CASE c \notin HeadsOf(lines, k)
  <2>1. H(i + 1) = H(c)
    BY <1>7, <1>9
  <2>2. (k \in DOMAIN o <=> k \in DOMAIN s.out) /\ (k \in DOMAIN s.out => o[k] = s.out[k])
    <3>1. CASE s.kind \in {"none", "unknown"} \/ s.buf = {}
      BY <1>3, <3>1
    <3>2. CASE ~(s.kind \in {"none", "unknown"} \/ s.buf = {})
      <4>1. c > 0 /\ s.kind = lines[c] /\ Under(lines, c) # {}
        BY <1>1, <1>2, <1>5, <3>2
      <4>2. s.kind # k
        BY <1>1, <1>9, <4>1 DEF HeadsOf
      <4>3. o = With(s.out, s.kind, s.buf)
        BY <1>3, <3>2
      <4>4. k \in DOMAIN s.out => o[k] = s.out[k]
        BY <4>2, <4>3 DEF With
      <4>5. k \in DOMAIN o <=> k \in DOMAIN s.out
        BY <4>2, <4>3 DEF With
      <4>6. QED BY <4>4, <4>5
    <3>3. QED BY <3>1, <3>2
  <2>3. QED
    <3>1. Says(lines, s.out, k, c)
      BY <1>2
    <3> HIDE DEF o
    <3>2. Says(lines, o, k, i + 1)
      BY <2>1, <2>2, <3>1 DEF Says
    <3>3. QED BY <3>2 DEF o
<1>10. QED BY <1>8, <1>9

\* One more line.
LEMMA SectionStepReads ==
  ASSUME NEW L, NEW lines \in Seq(L), NEW i \in 1..Len(lines), NEW c \in 0..(i-1),
         NEW s \in SectionState, ReadUpTo(lines, s, i - 1, c)
  PROVE  \E d \in 0..i : ReadUpTo(lines, SectionStep(lines, s, i), i, d)
<1> DEFINE t == SectionStep(lines, s, i)
<1>1. i \in Nat /\ i >= 1 /\ c \in Nat /\ c \in 0..i /\ c <= i - 1 /\ i \in 0..i /\ i - 1 + 1 = i
      /\ i - 1 \in 0..Len(lines)
  OBVIOUS
<1>2. /\ \A j \in c + 1..(i-1) : lines[j] \notin Headers
      /\ c = 0 => s.kind = "none"
      /\ c > 0 => lines[c] \in Headers /\ s.kind = lines[c]
      /\ s.buf = {m \in c + 1..(i-1) : lines[m] = "text"}
      /\ \A k \in Kinds : Says(lines, s.out, k, c)
  BY DEF ReadUpTo
<1>3. /\ lines[i] \in Headers => t.kind = lines[i] /\ t.buf = {} /\ t.out = Flush(s).out
      /\ lines[i] \notin Headers =>
           t.kind = s.kind /\ t.buf = s.buf \cup {k \in {i} : lines[k] = "text"} /\ t.out = s.out
  BY <1>1, SectionStepIs
<1> HIDE DEF t
<1>4. CASE lines[i] \in Headers
  <2>1. ASSUME NEW k \in Kinds PROVE Says(lines, t.out, k, i)
    <3> DEFINE m == i - 1
    <3>1. m \in 0..Len(lines) /\ c \in 0..m /\ ReadUpTo(lines, s, m, c) /\ m + 1 = i
          /\ (m = Len(lines) \/ lines[m + 1] \in Headers)
      BY <1>1, <1>4
    <3> HIDE DEF m
    <3>2. Says(lines, Flush(s).out, k, m + 1)
      BY <3>1, FlushSays
    <3>3. QED BY <1>3, <1>4, <3>1, <3>2
  <2>2. \A j \in i + 1..i : FALSE
    BY <1>1
  <2>3. ReadUpTo(lines, t, i, i)
    BY <1>1, <1>3, <1>4, <2>1, <2>2 DEF ReadUpTo
  <2>4. QED BY <1>1, <2>3 DEF t
<1>5. CASE lines[i] \notin Headers
  <2>1. \A j \in c + 1..i : j \in c + 1..(i-1) \/ j = i
    BY <1>1
  <2>2. \A j \in c + 1..(i-1) : j \in c + 1..i
    BY <1>1
  <2>3. i \in c + 1..i
    BY <1>1
  <2>4. t.buf = {m \in c + 1..i : lines[m] = "text"}
    BY <1>2, <1>3, <1>5, <2>1, <2>2, <2>3
  <2>5. \A j \in c + 1..i : lines[j] \notin Headers
    BY <1>2, <1>5, <2>1
  <2>6. ReadUpTo(lines, t, i, c)
    BY <1>2, <1>3, <1>5, <2>4, <2>5 DEF ReadUpTo
  <2>7. QED BY <1>1, <2>6 DEF t
<1>6. QED BY <1>4, <1>5

\* A kind has what stands under the last of its headers that has anything under it,
\* all of it, and nothing that stands under another, whatever the answer of the model
\* is: the reading keeps what SoundSections promises.
THEOREM SectionsAreSound ==
  ASSUME NEW L, NEW lines \in Seq(L)
  PROVE  SoundSections(lines, Sections(lines))
<1> DEFINE n == Len(lines)
<1>1. PICK f : /\ f \in [0..n -> SectionState] /\ f[0] = [kind |-> "none", buf |-> {}, out |-> <<>>]
               /\ \A i \in 1..n : f[i] = SectionStep(lines, f[i-1], i)
               /\ Sections(lines) = Flush(f[n]).out
  BY SectionsRun
<1>2. n \in Nat /\ DOMAIN lines = 1..n
  OBVIOUS
<1> DEFINE D == {i \in 0..n : \E c \in 0..i : ReadUpTo(lines, f[i], i, c)}
<1> HIDE DEF n
<1>3. 0 \in D
  <2> DEFINE s == f[0]
  <2>1. s.kind = "none" /\ s.buf = {} /\ s.out = <<>>
    BY <1>1
  <2>2. \A k \in Kinds : Says(lines, s.out, k, 0)
    <3>1. ASSUME NEW k \in Kinds PROVE Says(lines, s.out, k, 0)
      <4>1. {h \in HeadsOf(lines, k) : h < 0} = {}
        BY <1>2 DEF HeadsOf
      <4>2. k \notin DOMAIN s.out
        BY <2>1
      <4>3. QED BY <4>1, <4>2 DEF Says
    <3>2. QED BY <3>1
  <2> HIDE DEF s
  <2>3. (\A j \in 0 + 1..0 : FALSE) /\ 0 \in 0..0 /\ 0 \in 0..n
    BY <1>2
  <2>4. ReadUpTo(lines, s, 0, 0)
    BY <2>1, <2>2, <2>3 DEF ReadUpTo
  <2>5. QED BY <2>3, <2>4 DEF s
<1>4. ASSUME NEW i \in 1..n, i - 1 \in D PROVE i \in D
  <2>1. i \in 0..n /\ i - 1 \in 0..n
    BY <1>2
  <2>2. PICK c \in 0..(i-1) : ReadUpTo(lines, f[i-1], i - 1, c)
    BY <1>4
  <2>3. f[i-1] \in SectionState /\ f[i] = SectionStep(lines, f[i-1], i)
    BY <1>1, <2>1
  <2>4. \E d \in 0..i : ReadUpTo(lines, SectionStep(lines, f[i-1], i), i, d)
    BY <2>2, <2>3, SectionStepReads DEF n
  <2>5. QED BY <2>1, <2>3, <2>4
<1> HIDE DEF D
<1>5. 0..n \subseteq D
  BY <1>2, <1>3, <1>4, Induction
<1>6. PICK c \in 0..n : ReadUpTo(lines, f[n], n, c)
  BY <1>2, <1>5 DEF D
<1>7. \A k \in Kinds : Says(lines, Flush(f[n]).out, k, n + 1)
  <2>1. f[n] \in SectionState /\ n \in 0..n /\ n = Len(lines)
    BY <1>1, <1>2 DEF n
  <2>2. QED BY <1>6, <2>1, FlushSays
<1> DEFINE a == Sections(lines)
<1>8. \A k \in Kinds : IF HeadsOf(lines, k) = {} THEN k \notin DOMAIN a
                       ELSE k \in DOMAIN a /\ a[k] = Under(lines, Max(HeadsOf(lines, k)))
  <2>1. ASSUME NEW k \in Kinds PROVE {h \in HeadsOf(lines, k) : h < n + 1} = HeadsOf(lines, k)
    BY <1>2 DEF HeadsOf
  <2> HIDE DEF a
  <2>2. \A k \in Kinds : Says(lines, a, k, n + 1)
    BY <1>1, <1>7 DEF a
  <2>3. QED BY <2>1, <2>2 DEF Says
<1> HIDE DEF a
<1>9. SoundSections(lines, a)
  BY <1>8 DEF SoundSections, HeadsOf, Under, Kinds
<1>10. QED BY <1>9 DEF a

-----------------------------------------------------------------------------
\* remote: any models of any endpoints, with any names.
AnyEndpoint(A, N) == [answer : A, models : Seq(Seq(N))]
WordsOf(N) == N \cup {"remote", "::"} \cup {EndpointIds[k] : k \in Nat}

\* What the page makes of an id is the endpoint and the model it was made from.
LEMMA ChosenIs ==
  ASSUME NEW N, NEW k \in Nat, NEW m \in Seq(N)
  PROVE  LET id == <<"remote", "::", EndpointIds[k], "::">> \o m
         IN id \in Seq(WordsOf(N)) /\ Chosen(id) = [endpoint |-> EndpointIds[k], model |-> m]
<1> DEFINE e == EndpointIds[k]
           W == WordsOf(N)
           h == <<"remote", "::", e, "::">>
           id == h \o m
<1>1. e \in W /\ "remote" \in W /\ "::" \in W /\ N \subseteq W
  BY DEF WordsOf
<1> HIDE DEF e, W
<1>2. h \in Seq(W) /\ Len(h) = 4 /\ h[3] = e
  BY <1>1
<1>3. m \in Seq(W) /\ Len(m) \in Nat
  BY <1>1
<1> HIDE DEF h
<1>4. id \in Seq(W) /\ Len(id) = 4 + Len(m) /\ \A i \in 1..Len(id) : id[i] = IF i <= 4 THEN h[i] ELSE m[i - 4]
  <2>1. /\ id \in Seq(W) /\ Len(id) = Len(h) + Len(m)
        /\ \A i \in 1..Len(id) : id[i] = IF i <= Len(h) THEN h[i] ELSE m[i - Len(h)]
    BY <1>2, <1>3, JoinHolds
  <2> HIDE DEF id
  <2>2. QED BY <1>2, <2>1
<1> HIDE DEF id
<1>5. id[3] = e
  BY <1>2, <1>3, <1>4
<1>6. SubSeq(id, 5, Len(id)) = m
  <2> DEFINE t == SubSeq(id, 5, Len(id))
  <2>1. \A i \in 5..Len(id) : id[i] \in W
    BY <1>4
  <2>2. t \in Seq(W) /\ Len(t) = Len(m) /\ \A i \in 1..Len(m) : t[i] = id[5 + i - 1]
    BY <1>3, <1>4, <2>1, SubSeqProperties
  <2> HIDE DEF t
  <2>3. \A i \in 1..Len(m) : 5 + i - 1 \in 1..Len(id) /\ ~(5 + i - 1 <= 4) /\ 5 + i - 1 - 4 = i
    BY <1>3, <1>4
  <2>4. \A i \in 1..Len(m) : t[i] = m[i]
    BY <1>4, <2>2, <2>3
  <2>5. t = m
    BY <1>3, <2>2, <2>4, SeqEqual
  <2>6. QED BY <2>5 DEF t
<1>7. Chosen(id) = [endpoint |-> e, model |-> m]
  BY <1>5, <1>6, Zenon DEF Chosen
<1>8. QED BY <1>4, <1>7 DEF id, h, e, W

\* Every model of every endpoint that answers can be chosen, whatever its name and
\* whatever the other endpoints do: the list keeps what SoundRemote promises.
THEOREM RemoteIsSound ==
  ASSUME NEW A, NEW N, NEW p \in Seq(AnyEndpoint(A, N))
  PROVE  SoundRemote(p, ListRemote(p))
<1> DEFINE n == Len(p)
           W == WordsOf(N)
           M(k) == FetchModels(p[k])
           part(k) == [i \in DOMAIN M(k) |-> <<"remote", "::", EndpointIds[k], "::">> \o M(k)[i]]
           parts == [k \in 1..n |-> part(k)]
           a == ListRemote(p)
<1>1. n \in Nat /\ DOMAIN p = 1..n /\ \A k \in 1..n : k \in Nat
  OBVIOUS
<1>2. a = FlattenSeq(parts)
  BY <1>1 DEF ListRemote
<1>3. \A k \in 1..n : /\ p[k].models \in Seq(Seq(N)) /\ M(k) \in Seq(Seq(N))
                      /\ M(k) = IF p[k].answer = "ok" THEN p[k].models ELSE <<>>
  <2> DEFINE S == Seq(Seq(N))
  <2>1. \A k \in 1..n : p[k].models \in S
    <3> DEFINE E == AnyEndpoint(A, N)
    <3>1. \A x \in E : x.models \in S
      BY DEF AnyEndpoint
    <3>2. p \in Seq(E)
      OBVIOUS
    <3> HIDE DEF E, S
    <3>3. QED BY <3>1, <3>2
  <2>2. \A k \in 1..n : M(k) = IF p[k].answer = "ok" THEN p[k].models ELSE <<>>
    BY DEF FetchModels
  <2>3. <<>> \in S
    OBVIOUS
  <2> HIDE DEF S, M
  <2>4. \A k \in 1..n : M(k) \in S
    BY <2>1, <2>2, <2>3
  <2>5. QED BY <2>1, <2>2, <2>4 DEF S
<1> HIDE DEF n, M, a
<1>4. ASSUME NEW k \in 1..n, NEW i \in 1..Len(M(k))
      PROVE  part(k)[i] \in Seq(W) /\ Chosen(part(k)[i]) = [endpoint |-> EndpointIds[k], model |-> M(k)[i]]
  <2>1. M(k)[i] \in Seq(N) /\ i \in DOMAIN M(k) /\ k \in Nat
    BY <1>1, <1>3
  <2>2. part(k)[i] = <<"remote", "::", EndpointIds[k], "::">> \o M(k)[i]
    BY <2>1
  <2> HIDE DEF W, part
  <2>3. QED BY <2>1, <2>2, ChosenIs DEF W
<1>5. ASSUME NEW k \in 1..n PROVE part(k) \in Seq(Seq(W)) /\ Len(part(k)) = Len(M(k))
  <2>1. DOMAIN M(k) = 1..Len(M(k)) /\ Len(M(k)) \in Nat
    BY <1>3
  <2>2. \A i \in 1..Len(M(k)) : part(k)[i] \in Seq(W)
    BY <1>4
  <2> DEFINE y == part(k)
             l == Len(M(k))
             Z == Seq(W)
  <2>3. DOMAIN y = 1..l /\ y = [i \in 1..l |-> y[i]]
    BY <2>1
  <2> HIDE DEF y, l, Z
  <2>4. y \in [1..l -> Z]
    BY <2>2, <2>3 DEF y, l, Z
  <2>5. y \in Seq(Z) /\ Len(y) = l
    BY <2>1, <2>3, <2>4 DEF l
  <2>6. QED BY <2>5 DEF y, l, Z
<1> DEFINE Z == Seq(W)
<1>6. parts \in Seq(Seq(Z)) /\ Len(parts) = n /\ \A k \in 1..n : parts[k] = part(k)
  <2> HIDE DEF part
  <2> DEFINE ZZ == Seq(Z)
  <2>1. \A k \in 1..n : part(k) \in ZZ
    BY <1>5
  <2> HIDE DEF ZZ
  <2>2. parts \in Seq(ZZ) /\ Len(parts) = n /\ \A k \in 1..n : parts[k] = part(k)
    BY <1>1, <2>1
  <2>3. QED BY <2>2 DEF ZZ
<1> HIDE DEF Z, parts
<1>7. /\ a \in Seq(Z) /\ ToSet(a) = UNION {ToSet(parts[k]) : k \in 1..n}
      /\ Len(a) = Total([k \in 1..n |-> Len(parts[k])])
  BY <1>2, <1>6, FlattenHolds
<1>8. Len(a) = Total([k \in 1..n |-> IF p[k].answer = "ok" THEN Len(p[k].models) ELSE 0])
  <2>1. ASSUME NEW k \in 1..n PROVE Len(parts[k]) = IF p[k].answer = "ok" THEN Len(p[k].models) ELSE 0
    <3>1. Len(parts[k]) = Len(M(k))
      BY <1>5, <1>6
    <3>2. Len(<<>>) = 0
      OBVIOUS
    <3>3. QED BY <1>3, <3>1, <3>2
  <2>2. [k \in 1..n |-> Len(parts[k])] = [k \in 1..n |-> IF p[k].answer = "ok" THEN Len(p[k].models) ELSE 0]
    BY <2>1
  <2>3. QED BY <1>7, <2>2
<1> DEFINE Made == {Chosen(a[i]) : i \in DOMAIN a}
           Good == {k \in 1..n : p[k].answer = "ok"}
           ModelsAt(k) == {[endpoint |-> EndpointIds[k], model |-> m] : m \in Elements(p[k].models)}
<1>9. Made = {Chosen(x) : x \in ToSet(a)}
  BY DEF ToSet
<1>10. ASSUME NEW k \in 1..n
       PROVE  {Chosen(x) : x \in ToSet(parts[k])} = IF k \in Good THEN ModelsAt(k) ELSE {}
  <2>1. ToSet(parts[k]) = {part(k)[i] : i \in 1..Len(M(k))}
    <3>1. DOMAIN part(k) = 1..Len(M(k))
      BY <1>3
    <3> HIDE DEF part
    <3>2. QED BY <1>6, <3>1 DEF ToSet
  <2>2. {Chosen(x) : x \in ToSet(parts[k])} = {[endpoint |-> EndpointIds[k], model |-> M(k)[i]] : i \in 1..Len(M(k))}
    <3>1. \A i \in 1..Len(M(k)) : Chosen(part(k)[i]) = [endpoint |-> EndpointIds[k], model |-> M(k)[i]]
      BY <1>4
    <3> DEFINE c == part(k)
               I == 1..Len(M(k))
               d(i) == [endpoint |-> EndpointIds[k], model |-> M(k)[i]]
    <3>2. (\A i \in I : Chosen(c[i]) = d(i)) /\ ToSet(parts[k]) = {c[i] : i \in I}
      BY <2>1, <3>1
    <3> HIDE DEF c, I, d
    <3>3. {Chosen(x) : x \in {c[i] : i \in I}} = {d(i) : i \in I}
      BY <3>2
    <3>4. {Chosen(x) : x \in ToSet(parts[k])} = {d(i) : i \in I}
      BY <3>2, <3>3
    <3>5. QED BY <3>4 DEF d, I
  <2>3. Elements(p[k].models) = {p[k].models[i] : i \in 1..Len(p[k].models)}
    <3> DEFINE t == p[k].models
               Y == Seq(N)
    <3>1. t \in Seq(Y)
      BY <1>3
    <3> HIDE DEF t, Y
    <3>2. DOMAIN t = 1..Len(t)
      BY <3>1
    <3>3. Elements(t) = {t[i] : i \in 1..Len(t)}
      BY <3>2 DEF Elements
    <3>4. QED BY <3>3 DEF t
  <2>4. CASE k \in Good
    <3>1. M(k) = p[k].models
      BY <1>3, <2>4
    <3>2. QED BY <2>2, <2>3, <2>4, <3>1
  <2>5. CASE k \notin Good
    <3>1. 1..Len(M(k)) = {}
      BY <1>3, <2>5
    <3>2. QED BY <2>2, <2>5, <3>1
  <2>6. QED BY <2>4, <2>5
<1> HIDE DEF Made, Good, ModelsAt
<1>11. Made = UNION {ModelsAt(k) : k \in Good}
  <2>1. ASSUME NEW y \in Made PROVE y \in UNION {ModelsAt(k) : k \in Good}
    <3>1. PICK x \in ToSet(a) : y = Chosen(x)
      BY <1>9, <2>1
    <3>2. PICK k \in 1..n : x \in ToSet(parts[k])
      BY <1>7, <3>1
    <3>3. y \in {Chosen(z) : z \in ToSet(parts[k])}
      BY <3>1, <3>2
    <3>4. k \in Good /\ y \in ModelsAt(k)
      BY <1>10, <3>3
    <3>5. QED BY <3>4
  <2>2. ASSUME NEW k \in Good, NEW y \in ModelsAt(k) PROVE y \in Made
    <3>1. k \in 1..n
      BY DEF Good
    <3>2. y \in {Chosen(z) : z \in ToSet(parts[k])}
      BY <1>10, <2>2, <3>1
    <3>3. ToSet(parts[k]) \subseteq ToSet(a)
      BY <1>7, <3>1
    <3>4. QED BY <1>9, <3>2, <3>3
  <2>3. QED BY <2>1, <2>2
<1>12. QED
  BY <1>1, <1>8, <1>11, Zenon DEF SoundRemote, Made, Good, ModelsAt, n, a

-----------------------------------------------------------------------------
\* The page uses its tokens step by step.
LEMMA TokensRun ==
  ASSUME NEW K, NEW steps \in Seq(AnyTokenStep(K))
  PROVE  \E f : /\ f \in [0..Len(steps) -> TokenState] /\ f[0] = [ages |-> <<>>, said |-> <<>>]
                /\ \A i \in 1..Len(steps) : f[i] = TokenStep(f[i-1], steps[i])
                /\ UseTokens(steps) = f[Len(steps)]
<1> DEFINE n == Len(steps)
           T == TokenState
           a == [ages |-> <<>>, said |-> <<>>]
           step == [i \in 1..n |-> [t \in T |-> TokenStep(t, steps[i])]]
           body(j) == [u \in SUBSET (1..n) |->
                         IF u = {} THEN a ELSE TokenStep(j[u \ {Max(u)}], steps[Max(u)])]
<1>1. n \in Nat /\ DOMAIN steps = 1..n
  OBVIOUS
<1>2. a \in T /\ \A i \in 1..n, t \in T : TokenStep(t, steps[i]) \in T
  <2>1. a \in T
    BY DEF TokenState
  <2>2. \A i \in 1..n : steps[i] \in AnyTokenStep(K)
    OBVIOUS
  <2> HIDE DEF n
  <2>3. QED BY <2>1, <2>2, TokenStepIs
<1>3. UseTokens(steps) = (CHOOSE j : j = body(j))[1..n]
  BY <1>1 DEF UseTokens, TokenStep, FoldLeft, MapThenFoldSet
<1>4. AreSteps(step, n, T) /\ \A i \in 1..n, t \in T : step[i][t] = TokenStep(t, steps[i])
  BY <1>2 DEF AreSteps
<1> HIDE DEF step, n, T, a
<1>5. \E j : j = body(j)
  <2>1. PICK it : it \in [SUBSET (1..n) -> T] /\ IsFold(it, n, T, a, step)
    BY <1>1, <1>2, <1>4, FoldExists, Zenon
  <2>2. \A u \in SUBSET (1..n) : it[u] = body(it)[u]
    BY <1>1, <1>4, <2>1 DEF IsFold
  <2> HIDE DEF body
  <2>3. it = body(it)
    BY <2>1, <2>2, Zenon DEF body
  <2>4. QED BY <2>3, Zenon
<1>6. PICK j : j = body(j) /\ UseTokens(steps) = j[1..n]
  BY <1>3, <1>5
<1>7. \A u \in SUBSET (1..n) : j[u] = IF u = {} THEN a ELSE TokenStep(j[u \ {Max(u)}], steps[Max(u)])
  BY <1>6
<1>8. j[{}] = a /\ \A i \in 1..n : j[1..i] = TokenStep(j[1..(i-1)], steps[i])
  BY <1>1, <1>7, PrefixIs
<1>9. \A i \in 1..n : j[1..(i-1)] \in T => j[1..i] = step[i][j[1..(i-1)]]
  BY <1>4, <1>8
<1>10. PICK f : TakesSteps(f, n, T, a, step) /\ f[n] = j[1..n]
  BY <1>1, <1>2, <1>4, <1>8, <1>9, FoldTakesSteps
<1>11. f \in [0..n -> T] /\ f[0] = a /\ \A i \in 1..n : f[i] = TokenStep(f[i-1], steps[i])
  BY <1>1, <1>4, <1>10, StepsAreTaken
<1>12. QED BY <1>6, <1>10, <1>11 DEF n, T, a

\* A command is given a path only if it was picked before, not more than a day ago,
\* and then it is, whatever was picked, waited and used: the tokens keep what
\* SoundTokens promises.
THEOREM TokensAreSound ==
  ASSUME NEW K, NEW steps \in Seq(AnyTokenStep(K))
  PROVE  SoundTokens(steps, UseTokens(steps))
<1> DEFINE n == Len(steps)
           a == UseTokens(steps)
           P == {i \in 1..n : Picked(steps[i])}
           W == {i \in 1..n : steps[i].do = "wait"}
           U == {i \in 1..n : steps[i].do = "use"}
           c(p) == Cardinality(P \cap (1..p))
           w(p, q) == Cardinality(W \cap (p..q))
           v(p) == Cardinality(U \cap (1..p))
<1>1. PICK f : /\ f \in [0..n -> TokenState] /\ f[0] = [ages |-> <<>>, said |-> <<>>]
               /\ \A i \in 1..n : f[i] = TokenStep(f[i-1], steps[i])
               /\ a = f[n]
  BY TokensRun
<1>2. n \in Nat /\ DOMAIN steps = 1..n /\ \A i \in 1..n : steps[i] \in AnyTokenStep(K)
  OBVIOUS
<1> HIDE DEF n, a
<1>3. ASSUME NEW i \in 0..n PROVE f[i].ages \in Seq(Nat) /\ f[i].said \in Seq(Verdicts_)
  BY <1>1 DEF TokenState
<1>4. ASSUME NEW i \in 1..n
      PROVE  /\ i - 1 \in 0..n /\ i \in 0..n
             /\ f[i].ages = IF i \in W THEN [k \in DOMAIN f[i-1].ages |-> f[i-1].ages[k] + 12]
                            ELSE IF i \in P THEN Append(f[i-1].ages, 0) ELSE f[i-1].ages
             /\ f[i].said = IF i \in U THEN Append(f[i-1].said, VerdictOn(f[i-1].ages, steps[i].token))
                            ELSE f[i-1].said
  <2> DEFINE s == f[i-1]
             t == steps[i]
  <2>1. i - 1 \in 0..n /\ i \in 0..n
    BY <1>2
  <2>2. s \in TokenState /\ t \in AnyTokenStep(K) /\ f[i] = TokenStep(s, t)
    BY <1>1, <1>2, <2>1
  <2>3. (i \in W <=> t.do = "wait") /\ (i \in P <=> Picked(t)) /\ (i \in U <=> t.do = "use")
    OBVIOUS
  <2> HIDE DEF s, t, W, P, U
  <2>4. /\ f[i].ages = IF t.do = "wait" THEN [k \in DOMAIN s.ages |-> s.ages[k] + 12]
                       ELSE IF Picked(t) THEN Append(s.ages, 0) ELSE s.ages
        /\ f[i].said = IF t.do = "use" THEN Append(s.said, VerdictOn(s.ages, t.token)) ELSE s.said
    <3> DEFINE r == TokenStep(s, t)
    <3>1. /\ r.ages = IF t.do = "wait" THEN [k \in DOMAIN s.ages |-> s.ages[k] + 12]
                      ELSE IF Picked(t) THEN Append(s.ages, 0) ELSE s.ages
          /\ r.said = IF t.do = "use" THEN Append(s.said, VerdictOn(s.ages, t.token)) ELSE s.said
      BY <2>2, TokenStepIs
    <3>2. f[i] = r
      BY <2>2
    <3> HIDE DEF r
    <3>3. QED BY <3>1, <3>2
  <2>5. QED BY <2>1, <2>3, <2>4 DEF s, t
<1>5. \A i \in 1..n : ~(i \in P /\ i \in W) /\ ~(i \in U /\ i \in W) /\ ~(i \in U /\ i \in P)
  BY DEF Picked
<1> DEFINE D == {i \in 0..n : /\ Aged(P, W, f[i].ages, i)
                              /\ Len(f[i].said) = v(i)
                              /\ \A u \in U \cap (1..i) : /\ v(u) \in 1..v(i)
                                   /\ f[i].said[v(u)] = VerdictOn(f[u-1].ages, steps[u].token)}
<1> HIDE DEF P, W, U
<1>6. 0 \in D
  <2>1. 1..0 = {} /\ 0 \in 0..n /\ Len(<<>>) = 0 /\ U \cap (1..0) = {} /\ P \cap (1..0) = {}
    BY <1>2
  <2> DEFINE o == {}
  <2>2. Cardinality(o) = 0 /\ v(0) = Cardinality(o) /\ c(0) = Cardinality(o)
    BY <2>1, FS_EmptySet
  <2> HIDE DEF o
  <2>3. f[0].ages = <<>> /\ f[0].said = <<>>
    BY <1>1
  <2>4. Aged(P, W, f[0].ages, 0)
    <3>1. Len(f[0].ages) = 0 /\ Cardinality(P \cap (1..0)) = 0
      BY <2>1, <2>2, <2>3
    <3>2. P \cap (1..0) = {} /\ 1..Len(f[0].ages) = {}
      BY <2>1, <3>1
    <3>3. QED BY <3>1, <3>2 DEF Aged
  <2>5. Len(f[0].said) = v(0)
    BY <2>1, <2>2, <2>3
  <2>6. QED BY <2>1, <2>4, <2>5
<1>7. ASSUME NEW i \in 1..n, i - 1 \in D PROVE i \in D
  <2>1. i - 1 \in 0..n /\ i \in 0..n /\ i \in Nat /\ i >= 1 /\ 1..i = 1..(i-1) \cup {i} /\ i \notin 1..(i-1)
    BY <1>2
  <2>2. Aged(P, W, f[i].ages, i)
    <3> DEFINE old == f[i-1].ages
               new == f[i].ages
    <3>1. old \in Seq(Nat) /\ new \in Seq(Nat) /\ Aged(P, W, old, i - 1)
      BY <1>3, <1>7, <2>1
    <3>2. new = IF i \in W THEN [k \in DOMAIN old |-> old[k] + 12]
                ELSE IF i \in P THEN Append(old, 0) ELSE old
      BY <1>4
    <3>3. ~(i \in P /\ i \in W)
      BY <1>5
    <3> HIDE DEF old, new
    <3>4. Aged(P, W, new, i)
      BY <2>1, <3>1, <3>2, <3>3, AgedStep
    <3>5. QED BY <3>4 DEF new
  <2> DEFINE x == f[i-1].said
             y == f[i].said
             m == v(i - 1)
             z(u) == VerdictOn(f[u-1].ages, steps[u].token)
  <2>3. /\ x \in Seq(Verdicts_) /\ y \in Seq(Verdicts_) /\ Len(x) = m /\ m \in Nat
        /\ \A u \in U \cap (1..(i-1)) : v(u) \in 1..m /\ x[v(u)] = z(u)
        /\ y = IF i \in U THEN Append(x, z(i)) ELSE x
    <3>1. x \in Seq(Verdicts_) /\ y \in Seq(Verdicts_)
      BY <1>3, <2>1
    <3>2. Len(x) = m /\ \A u \in U \cap (1..(i-1)) : v(u) \in 1..m /\ x[v(u)] = z(u)
      BY <1>7, Zenon
    <3>3. y = IF i \in U THEN Append(x, z(i)) ELSE x
      BY <1>4
    <3> HIDE DEF x, y, z, m
    <3>4. m \in Nat
      BY <3>1, <3>2
    <3>5. QED BY <3>1, <3>2, <3>3, <3>4
  <2>4. v(i) = m + IF i \in U THEN 1 ELSE 0
    <3> DEFINE one == 1
    <3>1. one \in Nat /\ one <= i
      BY <2>1
    <3> HIDE DEF one
    <3>2. OneMorePlace(U, one, i)
      BY <2>1, <3>1, CountGrows
    <3>3. QED BY <3>2 DEF OneMorePlace, one
  <2> HIDE DEF x, y, m, z, v, D
  <2>5. Len(y) = v(i) /\ (\A k \in 1..m : y[k] = x[k]) /\ (i \in U => y[v(i)] = z(i))
    <3>1. CASE i \in U
      <4>1. y = Append(x, z(i)) /\ v(i) = m + 1
        BY <2>3, <2>4, <3>1
      <4>2. QED BY <2>3, <4>1
    <3>2. CASE i \notin U
      BY <2>3, <2>4, <3>2
    <3>3. QED BY <3>1, <3>2
  <2>6. ASSUME NEW u \in U \cap (1..i) PROVE v(u) \in 1..v(i) /\ y[v(u)] = z(u)
    <3>1. CASE u = i
      <4>1. i \in U /\ v(i) = m + 1
        BY <2>4, <3>1
      <4>2. QED BY <2>3, <2>5, <3>1, <4>1
    <3>2. CASE u # i
      <4>1. u \in U \cap (1..(i-1))
        BY <2>1, <3>2
      <4>2. v(u) \in 1..m /\ x[v(u)] = z(u)
        BY <2>3, <4>1
      <4>3. v(u) \in 1..v(i)
        BY <2>3, <2>4, <4>2
      <4>4. QED BY <2>5, <4>2, <4>3
    <3>3. QED BY <3>1, <3>2
  <2>7. QED BY <2>1, <2>2, <2>5, <2>6 DEF D, y, z
<1>8. ASSUME NEW i \in 0..n PROVE i \in D
  <2> HIDE DEF D
  <2>1. 0..n \subseteq D
    BY <1>2, <1>6, <1>7, Induction
  <2>2. QED BY <2>1
<1>9. ASSUME NEW u \in U
      PROVE a.said[v(u)] = "path" <=>
              \E p \in P \cap (1..u) : c(p) = steps[u].token /\ w(p, u) <= 2
  <2> DEFINE k == steps[u].token
             g == f[u-1].ages
             l == Len(g)
  <2>1. u \in 1..n /\ u - 1 \in 0..n /\ n \in 0..n /\ 1..u = 1..(u-1) \cup {u}
    BY <1>2 DEF U
  <2>2. a.said[v(u)] = VerdictOn(g, k)
    <3>1. n \in D
      BY <1>8, <2>1
    <3>2. u \in U \cap (1..n)
      BY <2>1
    <3>3. QED BY <1>1, <3>1, <3>2
  <2>3. u \notin P /\ u \notin W
    BY <1>5, <2>1
  <2>4. P \cap (1..u) = P \cap (1..(u-1)) /\ \A p \in P \cap (1..u) : W \cap (p..u) = W \cap (p..(u-1))
    <3>1. \A p \in P \cap (1..u) : p..u = p..(u-1) \cup {u}
      BY <2>1
    <3>2. QED BY <2>1, <2>3, <3>1
  <2>5. g \in Seq(Nat) /\ Aged(P, W, g, u - 1)
    BY <1>3, <1>8, <2>1
  <2> HIDE DEF g, k, c, w, D
  <2>6. /\ l \in Nat /\ DOMAIN g = 1..l
        /\ \A p \in P \cap (1..u) : c(p) \in 1..l /\ g[c(p)] = 12 * w(p, u)
        /\ \A m \in 1..l : \E p \in P \cap (1..u) : c(p) = m
    <3> DEFINE P1 == P \cap (1..(u-1))
    <3>1. /\ \A p \in P1 : c(p) \in 1..Len(g) /\ g[c(p)] = 12 * w(p, u - 1)
          /\ \A m \in 1..Len(g) : \E p \in P1 : c(p) = m
      BY <2>5, Zenon DEF Aged, c, w
    <3>2. \A p \in P \cap (1..u) : p \in P1 /\ w(p, u) = w(p, u - 1)
      BY <2>4 DEF w
    <3>3. \A p \in P1 : p \in P \cap (1..u)
      BY <2>4
    <3>4. l \in Nat /\ DOMAIN g = 1..l
      BY <2>5
    <3> HIDE DEF P1
    <3>5. QED BY <3>1, <3>2, <3>3, <3>4
  <2> HIDE DEF l
  <2>7. \A p \in P \cap (1..u) : w(p, u) \in Nat
    <3>1. ASSUME NEW p \in P \cap (1..u) PROVE w(p, u) \in Nat
      <4>1. p \in Nat /\ u \in Nat /\ p <= u
        BY <2>1
      <4>2. OneMorePlace(W, p, u)
        BY <4>1, CountGrows
      <4>3. QED BY <4>2 DEF OneMorePlace, w
    <3>2. QED BY <3>1
  <2>8. VerdictOn(g, k) = "path" <=> k \in 1..l /\ ~(g[k] > 24)
    BY <2>6 DEF VerdictOn
  <2>9. ASSUME k \in 1..l, ~(g[k] > 24) PROVE \E p \in P \cap (1..u) : c(p) = k /\ w(p, u) <= 2
    <3>1. PICK p \in P \cap (1..u) : c(p) = k
      BY <2>6, <2>9
    <3>2. g[k] = 12 * w(p, u) /\ w(p, u) \in Nat
      BY <2>6, <2>7, <3>1
    <3>3. w(p, u) <= 2
      BY <2>9, <3>2
    <3>4. QED BY <3>1, <3>3
  <2>10. ASSUME NEW p \in P \cap (1..u), c(p) = k, w(p, u) <= 2 PROVE k \in 1..l /\ ~(g[k] > 24)
    <3>1. k \in 1..l /\ g[k] = 12 * w(p, u) /\ w(p, u) \in Nat
      BY <2>6, <2>7, <2>10
    <3>2. QED BY <2>10, <3>1
  <2>11. QED BY <2>2, <2>8, <2>9, <2>10 DEF k
<1> DEFINE picks(q) == {i \in 1..q : steps[i].do = "pick" /\ steps[i].there /\ steps[i].kind # "other"}
           uses == {i \in DOMAIN steps : steps[i].do = "use"}
           pick(u) == {p \in picks(u) : Cardinality(picks(p)) = steps[u].token}
           said(u) == a.said[Cardinality({i \in uses : i <= u})]
<1> HIDE DEF D
<1>10. uses = U
  BY <1>2 DEF U
<1>11. ASSUME NEW u \in uses
       PROVE said(u) = "path" <=>
               \E p \in pick(u) : Cardinality({i \in p..u : steps[i].do = "wait"}) <= 2
  <2>1. u \in U /\ u \in 1..n
    BY <1>10 DEF U
  <2>2. {i \in uses : i <= u} = U \cap (1..u)
    BY <1>10, <2>1 DEF U
  <2> DEFINE Q(p) == {i \in p..u : steps[i].do = "wait"}
  <2>3. ASSUME NEW p \in 1..u PROVE picks(p) = P \cap (1..p)
    <3>1. \A i \in 1..p : i \in 1..n
      BY <1>2, <2>1
    <3>2. \A i \in 1..n : i \in P <=> (steps[i].do = "pick" /\ steps[i].there /\ steps[i].kind # "other")
      BY Zenon DEF P, Picked
    <3>3. \A i : i \in picks(p) <=> i \in 1..p /\ steps[i].do = "pick" /\ steps[i].there /\ steps[i].kind # "other"
      BY Zenon
    <3> HIDE DEF picks
    <3>4. \A i : i \in picks(p) <=> i \in P \cap (1..p)
      BY <3>1, <3>2, <3>3
    <3>5. QED BY <3>4
  <2>4. ASSUME NEW p \in 1..u PROVE Q(p) = W \cap (p..u)
    <3>1. \A i \in p..u : i \in 1..n
      BY <1>2, <2>1
    <3>2. \A i \in 1..n : i \in W <=> steps[i].do = "wait"
      BY Zenon DEF W
    <3>3. \A i : i \in Q(p) <=> i \in p..u /\ steps[i].do = "wait"
      BY Zenon
    <3> HIDE DEF Q
    <3>4. \A i : i \in Q(p) <=> i \in W \cap (p..u)
      BY <3>1, <3>2, <3>3
    <3>5. QED BY <3>4
  <2>5. said(u) = a.said[v(u)]
    BY <2>2
  <2>6. picks(u) = P \cap (1..u)
    BY <2>1, <2>3
  <2> HIDE DEF picks, said, uses
  <2>7. ASSUME NEW p \in P \cap (1..u)
        PROVE (p \in pick(u) <=> c(p) = steps[u].token)
              /\ Cardinality({i \in p..u : steps[i].do = "wait"}) = w(p, u)
    BY <2>3, <2>4, <2>6
  <2>8. \A p \in pick(u) : p \in P \cap (1..u)
    BY <2>6
  <2> HIDE DEF pick, c, w, v
  <2>9. QED BY <1>9, <2>1, <2>5, <2>7, <2>8
<1>12. QED BY <1>11, Zenon DEF SoundTokens, uses, said, pick, picks, a

-----------------------------------------------------------------------------
\* presets: any files in the two folders, of any categories.
GoodPreset(C) == [id : Nat \ {0}, cat : C, prefix : BOOLEAN, disclaimer : BOOLEAN]
AnyPreset(C) == GoodPreset(C) \cup {[id |-> 0]}
AnyFolder(C) == [there : {"missing", "gone", "here"}, files : Seq(AnyPreset(C))]
AnyPresetable(C) == [first : AnyFolder(C), second : AnyFolder(C), category : C \cup {"any"}]

\* A list of presets that can be shown.
Listed(C, q) ==
  /\ q \in Seq(GoodPreset(C))
  /\ \A i \in 1..Len(q) : ~Unfit(q[i])
  /\ \A i, j \in 1..Len(q) : i < j => q[i].id <= q[j].id
Loaded(C, l) == l = [ok |-> FALSE] \/ \E q : l = [ok |-> TRUE, list |-> q] /\ Listed(C, q)

\* A folder loads as such a list, or not at all.
LEMMA FolderLoads ==
  ASSUME NEW C, NEW d \in AnyFolder(C)
  PROVE  Loaded(C, LoadedFrom(d))
<1> DEFINE s == d.files
           n == Len(s)
           X == GoodPreset(C)
           W == {w \in X \X X : w[1].id < w[2].id}
           t == Sorted(s, LAMBDA p, q : p.id < q.id)
<1>1. s \in Seq(AnyPreset(C)) /\ d.there \in {"missing", "gone", "here"} /\ n \in Nat
  BY DEF AnyFolder
<1>2. CASE d.there = "missing"
  <2>1. LoadedFrom(d) = [ok |-> FALSE]
    BY <1>2 DEF LoadedFrom
  <2>2. QED BY <2>1 DEF Loaded
<1>3. CASE d.there = "gone"
  <2> DEFINE e == <<>>
  <2>1. LoadedFrom(d) = [ok |-> TRUE, list |-> e]
    BY <1>3 DEF LoadedFrom
  <2>2. Listed(C, e)
    <3>1. e \in Seq(X) /\ 1..Len(e) = {}
      OBVIOUS
    <3> HIDE DEF e, X
    <3>2. QED BY <3>1 DEF Listed, X
  <2> HIDE DEF e
  <2>3. QED BY <2>1, <2>2 DEF Loaded
<1>4. CASE d.there = "here" /\ \E i \in DOMAIN s : s[i].id = 0
  <2>1. LoadedFrom(d) = [ok |-> FALSE]
    BY <1>4, Zenon DEF LoadedFrom, LoadAll
  <2>2. QED BY <2>1 DEF Loaded
<1>5. CASE d.there = "here" /\ \E i \in DOMAIN s : Unfit(s[i])
  <2>1. LoadedFrom(d) = [ok |-> FALSE]
    BY <1>5, Zenon DEF LoadedFrom, LoadAll
  <2>2. QED BY <2>1 DEF Loaded
<1>6. CASE d.there = "here" /\ ~(\E i \in DOMAIN s : s[i].id = 0) /\ ~(\E i \in DOMAIN s : Unfit(s[i]))
  <2>1. LoadedFrom(d) = [ok |-> TRUE, list |-> t]
    <3>1. LoadedFrom(d) = LoadAll(s)
      BY <1>6 DEF LoadedFrom
    <3>2. QED BY <1>6, <3>1, Zenon DEF LoadAll
  <2>2. s \in Seq(X) /\ \A i \in 1..n : s[i] \in X /\ ~Unfit(s[i])
    <3> HIDE DEF s, X
    <3>1. \A i \in 1..n : s[i] \in AnyPreset(C) /\ i \in DOMAIN s
      BY <1>1
    <3>2. \A x \in AnyPreset(C) : x.id # 0 => x \in X
      BY DEF AnyPreset, X
    <3>3. \A i \in 1..n : s[i] \in X /\ ~Unfit(s[i])
      BY <1>6, <3>1, <3>2
    <3>4. s = [i \in 1..n |-> s[i]]
      BY <1>1
    <3>5. s \in Seq(X)
      BY <1>1, <3>3, <3>4
    <3>6. QED BY <3>3, <3>5
  <2>3. \A x \in X : x.id \in Nat
    BY DEF GoodPreset
  <2> HIDE DEF s, X
  <2>4. Weak(W, X)
    <3>1. \A x, y \in X : <<x, y>> \in W <=> x.id < y.id
      OBVIOUS
    <3> HIDE DEF W
    <3>2. ASSUME NEW x \in X, NEW y \in X PROVE ~(<<x, y>> \in W /\ <<y, x>> \in W)
      BY <2>3, <3>1
    <3>3. ASSUME NEW x \in X, NEW y \in X, NEW z \in X, <<x, z>> \in W
          PROVE  <<x, y>> \in W \/ <<y, z>> \in W
      BY <2>3, <3>1, <3>3
    <3>4. QED BY <3>2, <3>3 DEF Weak
  <2>5. t = Ranked(s, By(s, W))
    <3>1. DOMAIN s = 1..n
      BY <1>1
    <3>2. \A i, j \in DOMAIN s : <<s[i], s[j]>> \in W <=> s[i].id < s[j].id
      BY <2>2, <3>1
    <3>3. By(s, W) = {p \in (DOMAIN s) \X (DOMAIN s) : \/ s[p[1]].id < s[p[2]].id
                                                       \/ p[1] < p[2] /\ ~(s[p[2]].id < s[p[1]].id)}
      <4> HIDE DEF W
      <4>1. \A p \in (DOMAIN s) \X (DOMAIN s) :
               /\ <<s[p[1]], s[p[2]]>> \in W <=> s[p[1]].id < s[p[2]].id
               /\ <<s[p[2]], s[p[1]]>> \in W <=> s[p[2]].id < s[p[1]].id
        BY <3>2
      <4>2. QED BY <4>1 DEF By
    <3>4. QED BY <3>3 DEF Sorted
  <2> HIDE DEF t
  <2>6. PICK p : IsSort(t, s, W, p) /\ t \in Seq(X)
    BY <2>2, <2>4, <2>5, SortedIs
  <2>7. /\ Len(t) = n /\ p \in [1..n -> 1..n] /\ \A k \in 1..n : t[k] = s[p[k]]
        /\ \A i, j \in 1..n : <<t[i], t[j]>> \in W => i < j
    BY <2>6, Zenon DEF IsSort
  <2>8. \A i \in 1..n : t[i] \in X /\ ~Unfit(t[i])
    BY <2>2, <2>7
  <2>9. ASSUME NEW i \in 1..n, NEW j \in 1..n, i < j PROVE t[i].id <= t[j].id
    <3>1. ~(j < i) /\ t[i] \in X /\ t[j] \in X
      BY <2>8, <2>9
    <3>2. ~(<<t[j], t[i]>> \in W)
      BY <2>7, <3>1
    <3>3. ~(t[j].id < t[i].id)
      BY <3>1, <3>2
    <3>4. QED BY <2>3, <3>1, <3>3
  <2>10. Listed(C, t)
    BY <2>6, <2>7, <2>8, <2>9 DEF Listed, X
  <2>11. QED BY <2>1, <2>10 DEF Loaded
<1>7. QED BY <1>1, <1>2, <1>3, <1>4, <1>5, <1>6

\* What is shown of a list: what is of the category.
ShownOf(C, l, c) ==
  l.ok => /\ Listed(C, l.list)
          /\ \A i \in 1..Len(l.list) : c \in {"any", l.list[i].cat}

\* It is.
LEMMA CategoryIsShown ==
  ASSUME NEW C, NEW l, Loaded(C, l), NEW c
  PROVE  ShownOf(C, InCategory(l, c), c) /\ (InCategory(l, c).ok <=> l.ok)
<1>1. CASE l = [ok |-> FALSE]
  <2>1. ~l.ok
    BY <1>1
  <2>2. InCategory(l, c) = l
    BY <2>1 DEF InCategory
  <2>3. QED BY <2>1, <2>2 DEF ShownOf
<1>2. ASSUME NEW q, l = [ok |-> TRUE, list |-> q], Listed(C, q)
      PROVE  ShownOf(C, InCategory(l, c), c) /\ (InCategory(l, c).ok <=> l.ok)
  <2> DEFINE S == {x \in {q[i] : i \in DOMAIN q} : c \in {"any", x.cat}}
             k == Kept(q, S)
             X == GoodPreset(C)
             r == InCategory(l, c)
  <2>1. l.ok /\ l.list = q
    BY <1>2
  <2>2. r = [l EXCEPT !.list = k]
    BY <2>1 DEF InCategory, Where
  <2>3. q \in Seq(X) /\ (\A i \in 1..Len(q) : ~Unfit(q[i]))
        /\ (\A i, j \in 1..Len(q) : i < j => q[i].id <= q[j].id)
    BY <1>2, Zenon DEF Listed
  <2> HIDE DEF X, r
  <2>4. k \in Seq(X) /\ ToSet(k) = ToSet(q) \cap S
    BY <2>3, KeptIs
  <2>5. PICK g : Places(k, q, Len(q), g)
    BY <2>3, KeptInOrder
  <2> HIDE DEF k
  <2>6. r.ok /\ r.list = k
    BY <1>2, <2>2
  <2>7. DOMAIN k = 1..Len(k) /\ Len(k) \in Nat
    BY <2>4
  <2>8. \A i \in 1..Len(k) : k[i] \in S
    BY <2>4, <2>7 DEF ToSet
  <2>9. /\ \A i \in 1..Len(k) : g[i] \in 1..Len(q) /\ k[i] = q[g[i]]
        /\ \A i, j \in 1..Len(k) : i < j => g[i] < g[j]
    BY <2>5 DEF Places
  <2>10. Listed(C, k)
    <3>1. \A i \in 1..Len(k) : ~Unfit(k[i])
      BY <2>3, <2>9
    <3>2. \A i, j \in 1..Len(k) : i < j => k[i].id <= k[j].id
      BY <2>3, <2>9
    <3>3. QED BY <2>4, <3>1, <3>2 DEF Listed, X
  <2>11. QED BY <2>1, <2>6, <2>8, <2>10 DEF ShownOf, r
<1>3. l = [ok |-> FALSE] \/ \E q : l = [ok |-> TRUE, list |-> q] /\ Listed(C, q)
  BY Zenon DEF Loaded
<1>4. CASE \E q : l = [ok |-> TRUE, list |-> q] /\ Listed(C, q)
  <2>1. PICK q : l = [ok |-> TRUE, list |-> q] /\ Listed(C, q)
    BY <1>4
  <2>2. QED BY <1>2, <2>1
<1>5. QED BY <1>1, <1>3, <1>4

\* Whatever is shown is in order, of the category, under the name of its own, and
\* with the warning it needs, and two calls that succeed show the same, whatever the
\* folders hold at the two: the presets keep what SoundPresets promises.
THEOREM PresetsAreSound ==
  ASSUME NEW C, NEW g \in AnyPresetable(C)
  PROVE  SoundPresets(g, GetPresets(g))
<1> DEFINE c == g.category
           one == LoadedFrom(g.first)
           two == IF one.ok THEN one ELSE LoadedFrom(g.second)
           u == InCategory(one, c)
           v == InCategory(two, c)
           a == GetPresets(g)
<1>1. g.first \in AnyFolder(C) /\ g.second \in AnyFolder(C)
  BY DEF AnyPresetable
<1>2. Loaded(C, one) /\ Loaded(C, LoadedFrom(g.second))
  BY <1>1, FolderLoads
<1> HIDE DEF one
<1>3. Loaded(C, two)
  BY <1>2
<1>4. one.ok => two = one
  OBVIOUS
<1> HIDE DEF two
<1>5. ShownOf(C, u, c) /\ (u.ok <=> one.ok) /\ ShownOf(C, v, c)
  BY <1>2, <1>3, CategoryIsShown
<1>6. u.ok => v = u
  BY <1>4, <1>5
<1>7. a = <<u, v>>
  BY Zenon DEF GetPresets, one, two
<1> HIDE DEF u, v, a, c
<1>8. a[1] = u /\ a[2] = v /\ \A n \in 1..2 : n = 1 \/ n = 2
  BY <1>7
<1>9. ASSUME NEW l, ShownOf(C, l, c), l.ok
      PROVE  /\ \A i \in DOMAIN l.list :
                  l.list[i].prefix /\ (l.list[i].cat = "legal" => l.list[i].disclaimer) /\ c \in {"any", l.list[i].cat}
             /\ \A i \in 1..Len(l.list) - 1 : l.list[i].id <= l.list[i + 1].id
  <2> DEFINE q == l.list
             X == GoodPreset(C)
  <2>1. /\ q \in Seq(X) /\ (\A i \in 1..Len(q) : ~Unfit(q[i]))
        /\ (\A i, j \in 1..Len(q) : i < j => q[i].id <= q[j].id)
        /\ \A i \in 1..Len(q) : c \in {"any", q[i].cat}
    BY <1>9, Zenon DEF ShownOf, Listed
  <2> HIDE DEF q, X
  <2>2. DOMAIN q = 1..Len(q) /\ Len(q) \in Nat
    BY <2>1
  <2>3. \A i \in DOMAIN q : q[i].prefix /\ (q[i].cat = "legal" => q[i].disclaimer) /\ c \in {"any", q[i].cat}
    BY <2>1, <2>2, Zenon DEF Unfit
  <2>4. \A i \in 1..Len(q) - 1 : i \in 1..Len(q) /\ i + 1 \in 1..Len(q) /\ i < i + 1
    BY <2>2
  <2>5. \A i \in 1..Len(q) - 1 : q[i].id <= q[i + 1].id
    BY <2>1, <2>4
  <2>6. QED BY <2>3, <2>5 DEF q
<1>10. \A n \in 1..2 : a[n].ok =>
          /\ \A i \in DOMAIN a[n].list :
               LET p == a[n].list[i] IN
                 p.prefix /\ (p.cat = "legal" => p.disclaimer) /\ c \in {"any", p.cat}
          /\ \A i \in 1..Len(a[n].list) - 1 : a[n].list[i].id <= a[n].list[i + 1].id
  <2>1. \A n \in 1..2 : ShownOf(C, a[n], c)
    BY <1>5, <1>8
  <2>2. QED BY <1>9, <2>1
<1>11. a[1].ok => a[2] = a[1]
  BY <1>6, <1>8
<1>12. QED BY <1>10, <1>11, Zenon DEF SoundPresets, c, a

-----------------------------------------------------------------------------
\* crash: any files in the folder.  The tokens of the names the hook writes.
Tokens == {"crash-", "day", "T", "h", "m", "s", "sZ", "fZ", ":", ".", "-", "unknown-time", ".txt"}
Sizes == {1, 2000000}
AnyReport(N) == [name : Seq(N), size : Sizes, file : BOOLEAN, time : Nat]
AnyCrashable(N) == [dir : Seq(AnyReport(N)), limit : Nat]

\* The name of a report written at a whole second tells its time.
LEMMA WholeSecondsAreRead ==
  LET s == <<"day", "T", "h", ":", "m", ":", "sZ">>
  IN Safe(NameOf(s)) /\ Stamp(NameOf(s)) = IF "T" \in Elements(s) THEN s ELSE <<>>
<1> DEFINE s == <<"day", "T", "h", ":", "m", ":", "sZ">>
           l == <<"day", "T", "h", "-", "m", "-", "sZ">>
           n == <<"crash-", "day", "T", "h", "-", "m", "-", "sZ", ".txt">>
<1>1. [i \in DOMAIN s |-> IF s[i] \in {":", "."} THEN "-" ELSE s[i]] = l
  OBVIOUS
<1>2. <<"crash-">> \o <<"day", "T", "h", "-", "m", "-", "sZ">> = <<"crash-", "day", "T", "h", "-", "m", "-", "sZ">>
  <2> DEFINE p == <<"crash-">>
             q == <<"day", "T", "h", "-", "m", "-", "sZ">>
             r == <<"crash-", "day", "T", "h", "-", "m", "-", "sZ">>
  <2>1. p \in Seq(Tokens) /\ q \in Seq(Tokens) /\ r \in Seq(Tokens) /\ Len(r) = Len(p) + Len(q)
    BY DEF Tokens
  <2>2. (\A i \in 1..Len(p) : r[i] = p[i]) /\ (\A i \in 1..Len(q) : r[Len(p) + i] = q[i])
    OBVIOUS
  <2> HIDE DEF p, q, r
  <2>3. p \o q = r
    BY <2>1, <2>2, JoinedIs
  <2>4. QED BY <2>3 DEF p, q, r
<1>3. <<"crash-", "day", "T", "h", "-", "m", "-", "sZ">> \o <<".txt">> = <<"crash-", "day", "T", "h", "-", "m", "-", "sZ", ".txt">>
  <2> DEFINE p == <<"crash-", "day", "T", "h", "-", "m", "-", "sZ">>
             q == <<".txt">>
             r == <<"crash-", "day", "T", "h", "-", "m", "-", "sZ", ".txt">>
  <2>1. p \in Seq(Tokens) /\ q \in Seq(Tokens) /\ r \in Seq(Tokens) /\ Len(r) = Len(p) + Len(q)
    BY DEF Tokens
  <2>2. (\A i \in 1..Len(p) : r[i] = p[i]) /\ (\A i \in 1..Len(q) : r[Len(p) + i] = q[i])
    OBVIOUS
  <2> HIDE DEF p, q, r
  <2>3. p \o q = r
    BY <2>1, <2>2, JoinedIs
  <2>4. QED BY <2>3 DEF p, q, r
<1>4. NameOf(s) = n
  <2> HIDE DEF s
  <2>1. NameOf(s) = <<"crash-">> \o l \o <<".txt">>
    BY <1>1, Zenon DEF NameOf
  <2>2. QED BY <1>2, <1>3, <2>1, Zenon
<1>5. Safe(n)
  <2>1. n[1] = "crash-" /\ Len(n) = 9 /\ n[9] = ".txt"
    OBVIOUS
  <2>2. \A i \in DOMAIN n : n[i] # ".." /\ n[i] # "/"
    OBVIOUS
  <2> HIDE DEF n
  <2>3. QED BY <2>1, <2>2 DEF Safe, IsReport, Elements
<1>6. SubSeq(<<"crash-", "day", "T", "h", "-", "m", "-", "sZ", ".txt">>, 2, 8) = <<"day", "T", "h", "-", "m", "-", "sZ">>
  <2> DEFINE t == <<"crash-", "day", "T", "h", "-", "m", "-", "sZ", ".txt">>
             r == <<"day", "T", "h", "-", "m", "-", "sZ">>
             lo == 2
             hi == 8
  <2>1. t \in Seq(Tokens) /\ r \in Seq(Tokens) /\ lo \in 1..Len(t) /\ hi \in lo..Len(t) /\ Len(r) = hi - lo + 1
    BY DEF Tokens
  <2>2. \A i \in 1..Len(r) : r[i] = t[lo + i - 1]
    OBVIOUS
  <2> HIDE DEF t, r, lo, hi
  <2>3. SubSeq(t, lo, hi) = r
    BY <2>1, <2>2, PartIs
  <2>4. QED BY <2>3 DEF t, r, lo, hi
<1>7. SubSeq(<<"day", "T", "h", "-", "m", "-", "sZ">>, 3, 7) = <<"h", "-", "m", "-", "sZ">>
  <2> DEFINE t == <<"day", "T", "h", "-", "m", "-", "sZ">>
             r == <<"h", "-", "m", "-", "sZ">>
             lo == 3
             hi == 7
  <2>1. t \in Seq(Tokens) /\ r \in Seq(Tokens) /\ lo \in 1..Len(t) /\ hi \in lo..Len(t) /\ Len(r) = hi - lo + 1
    BY DEF Tokens
  <2>2. \A i \in 1..Len(r) : r[i] = t[lo + i - 1]
    OBVIOUS
  <2> HIDE DEF t, r, lo, hi
  <2>3. SubSeq(t, lo, hi) = r
    BY <2>1, <2>2, PartIs
  <2>4. QED BY <2>3 DEF t, r, lo, hi
<1>8. Where(<<"h", "-", "m", "-", "sZ">>, LAMBDA t : t # "-") = <<"h", "m", "sZ">>
  <2> DEFINE raw == <<"h", "-", "m", "-", "sZ">>
             T == {"h", "m", "sZ"}
  <2>1. {x \in {raw[i] : i \in DOMAIN raw} : x # "-"} = T
    OBVIOUS
  <2>2. Kept(raw, T) = <<"h", "m", "sZ">>
    <3> DEFINE z == "-"
               a == "h"
               b == "m"
               c == "sZ"
               d == "sZ"
    <3>1. z \notin T /\ a \in T /\ b \in T /\ c \in T /\ d \in T
      OBVIOUS
    <3> HIDE DEF T, z, a, b, c, d
    <3>2. Kept(<<a, z, b, z, c>>, T) = <<a, b, c>>
      BY <3>1, ThreeOfFive
    <3>3. QED BY <3>2 DEF z, a, b, c, d
  <2>3. QED BY <2>1, <2>2 DEF Where
<1>9. Stamp(n) = s
  <2> DEFINE parts == <<"h", "m", "sZ">>
             rest == <<"h", "-", "m", "-", "sZ">>
  <2>1. Len(n) - 1 = 8 /\ Len(l) = 7
    OBVIOUS
  <2>2. "T" \in Elements(l) /\ l[1] = "day"
    BY DEF Elements
  <2>3. Len(parts) = 3 /\ parts[1] = "h" /\ parts[2] = "m" /\ parts[3] = "sZ"
    OBVIOUS
  <2>4. SubSeq(n, 2, Len(n) - 1) = l /\ SubSeq(l, 3, Len(l)) = rest /\ Where(rest, LAMBDA t : t # "-") = parts
    BY <1>6, <1>7, <1>8, <2>1
  <2> HIDE DEF n, l, parts, rest
  <2>5. ~("T" \notin Elements(l) \/ Len(parts) < 3) /\ (Len(parts) = 3 <=> TRUE)
    BY <2>2, <2>3
  <2>6. Stamp(n) = <<l[1], "T", parts[1], ":", parts[2], ":", parts[3]>>
    BY <2>4, <2>5, Zenon DEF Stamp
  <2>7. QED BY <2>2, <2>3, <2>6
<1>10. "T" \in Elements(s)
  <2>1. s[2] = "T" /\ 2 \in DOMAIN s
    OBVIOUS
  <2> HIDE DEF s
  <2>2. QED BY <2>1 DEF Elements
<1> HIDE DEF n, s
<1>11. Safe(NameOf(s)) /\ Stamp(NameOf(s)) = IF "T" \in Elements(s) THEN s ELSE <<>>
  BY <1>4, <1>5, <1>9, <1>10
<1>12. QED BY <1>11 DEF s

\* The name of one written within a second tells its time.
LEMMA FractionsAreRead ==
  LET s == <<"day", "T", "h", ":", "m", ":", "s", ".", "fZ">>
  IN Safe(NameOf(s)) /\ Stamp(NameOf(s)) = IF "T" \in Elements(s) THEN s ELSE <<>>
<1> DEFINE s == <<"day", "T", "h", ":", "m", ":", "s", ".", "fZ">>
           l == <<"day", "T", "h", "-", "m", "-", "s", "-", "fZ">>
           n == <<"crash-", "day", "T", "h", "-", "m", "-", "s", "-", "fZ", ".txt">>
<1>1. [i \in DOMAIN s |-> IF s[i] \in {":", "."} THEN "-" ELSE s[i]] = l
  OBVIOUS
<1>2. <<"crash-">> \o <<"day", "T", "h", "-", "m", "-", "s", "-", "fZ">> = <<"crash-", "day", "T", "h", "-", "m", "-", "s", "-", "fZ">>
  <2> DEFINE p == <<"crash-">>
             q == <<"day", "T", "h", "-", "m", "-", "s", "-", "fZ">>
             r == <<"crash-", "day", "T", "h", "-", "m", "-", "s", "-", "fZ">>
  <2>1. p \in Seq(Tokens) /\ q \in Seq(Tokens) /\ r \in Seq(Tokens) /\ Len(r) = Len(p) + Len(q)
    BY DEF Tokens
  <2>2. (\A i \in 1..Len(p) : r[i] = p[i]) /\ (\A i \in 1..Len(q) : r[Len(p) + i] = q[i])
    OBVIOUS
  <2> HIDE DEF p, q, r
  <2>3. p \o q = r
    BY <2>1, <2>2, JoinedIs
  <2>4. QED BY <2>3 DEF p, q, r
<1>3. <<"crash-", "day", "T", "h", "-", "m", "-", "s", "-", "fZ">> \o <<".txt">> = <<"crash-", "day", "T", "h", "-", "m", "-", "s", "-", "fZ", ".txt">>
  <2> DEFINE p == <<"crash-", "day", "T", "h", "-", "m", "-", "s", "-", "fZ">>
             q == <<".txt">>
             r == <<"crash-", "day", "T", "h", "-", "m", "-", "s", "-", "fZ", ".txt">>
  <2>1. p \in Seq(Tokens) /\ q \in Seq(Tokens) /\ r \in Seq(Tokens) /\ Len(r) = Len(p) + Len(q)
    BY DEF Tokens
  <2>2. (\A i \in 1..Len(p) : r[i] = p[i]) /\ (\A i \in 1..Len(q) : r[Len(p) + i] = q[i])
    OBVIOUS
  <2> HIDE DEF p, q, r
  <2>3. p \o q = r
    BY <2>1, <2>2, JoinedIs
  <2>4. QED BY <2>3 DEF p, q, r
<1>4. NameOf(s) = n
  <2> HIDE DEF s
  <2>1. NameOf(s) = <<"crash-">> \o l \o <<".txt">>
    BY <1>1, Zenon DEF NameOf
  <2>2. QED BY <1>2, <1>3, <2>1, Zenon
<1>5. Safe(n)
  <2>1. n[1] = "crash-" /\ Len(n) = 11 /\ n[11] = ".txt"
    OBVIOUS
  <2>2. \A i \in DOMAIN n : n[i] # ".." /\ n[i] # "/"
    OBVIOUS
  <2> HIDE DEF n
  <2>3. QED BY <2>1, <2>2 DEF Safe, IsReport, Elements
<1>6. SubSeq(<<"crash-", "day", "T", "h", "-", "m", "-", "s", "-", "fZ", ".txt">>, 2, 10) = <<"day", "T", "h", "-", "m", "-", "s", "-", "fZ">>
  <2> DEFINE t == <<"crash-", "day", "T", "h", "-", "m", "-", "s", "-", "fZ", ".txt">>
             r == <<"day", "T", "h", "-", "m", "-", "s", "-", "fZ">>
             lo == 2
             hi == 10
  <2>1. t \in Seq(Tokens) /\ r \in Seq(Tokens) /\ lo \in 1..Len(t) /\ hi \in lo..Len(t) /\ Len(r) = hi - lo + 1
    BY DEF Tokens
  <2>2. \A i \in 1..Len(r) : r[i] = t[lo + i - 1]
    OBVIOUS
  <2> HIDE DEF t, r, lo, hi
  <2>3. SubSeq(t, lo, hi) = r
    BY <2>1, <2>2, PartIs
  <2>4. QED BY <2>3 DEF t, r, lo, hi
<1>7. SubSeq(<<"day", "T", "h", "-", "m", "-", "s", "-", "fZ">>, 3, 9) = <<"h", "-", "m", "-", "s", "-", "fZ">>
  <2> DEFINE t == <<"day", "T", "h", "-", "m", "-", "s", "-", "fZ">>
             r == <<"h", "-", "m", "-", "s", "-", "fZ">>
             lo == 3
             hi == 9
  <2>1. t \in Seq(Tokens) /\ r \in Seq(Tokens) /\ lo \in 1..Len(t) /\ hi \in lo..Len(t) /\ Len(r) = hi - lo + 1
    BY DEF Tokens
  <2>2. \A i \in 1..Len(r) : r[i] = t[lo + i - 1]
    OBVIOUS
  <2> HIDE DEF t, r, lo, hi
  <2>3. SubSeq(t, lo, hi) = r
    BY <2>1, <2>2, PartIs
  <2>4. QED BY <2>3 DEF t, r, lo, hi
<1>8. Where(<<"h", "-", "m", "-", "s", "-", "fZ">>, LAMBDA t : t # "-") = <<"h", "m", "s", "fZ">>
  <2> DEFINE raw == <<"h", "-", "m", "-", "s", "-", "fZ">>
             T == {"h", "m", "s", "fZ"}
  <2>1. {x \in {raw[i] : i \in DOMAIN raw} : x # "-"} = T
    OBVIOUS
  <2>2. Kept(raw, T) = <<"h", "m", "s", "fZ">>
    <3> DEFINE z == "-"
               a == "h"
               b == "m"
               c == "s"
               d == "fZ"
    <3>1. z \notin T /\ a \in T /\ b \in T /\ c \in T /\ d \in T
      OBVIOUS
    <3> HIDE DEF T, z, a, b, c, d
    <3>2. Kept(<<a, z, b, z, c, z, d>>, T) = <<a, b, c, d>>
      BY <3>1, FourOfSeven
    <3>3. QED BY <3>2 DEF z, a, b, c, d
  <2>3. QED BY <2>1, <2>2 DEF Where
<1>9. Stamp(n) = s
  <2> DEFINE parts == <<"h", "m", "s", "fZ">>
             rest == <<"h", "-", "m", "-", "s", "-", "fZ">>
  <2>1. Len(n) - 1 = 10 /\ Len(l) = 9
    OBVIOUS
  <2>2. "T" \in Elements(l) /\ l[1] = "day"
    BY DEF Elements
  <2>3. Len(parts) = 4 /\ parts[1] = "h" /\ parts[2] = "m" /\ parts[3] = "s" /\ parts[4] = "fZ"
    OBVIOUS
  <2>4. SubSeq(n, 2, Len(n) - 1) = l /\ SubSeq(l, 3, Len(l)) = rest /\ Where(rest, LAMBDA t : t # "-") = parts
    BY <1>6, <1>7, <1>8, <2>1
  <2> HIDE DEF n, l, parts, rest
  <2>5. ~("T" \notin Elements(l) \/ Len(parts) < 3) /\ (Len(parts) = 3 <=> FALSE)
    BY <2>2, <2>3
  <2>6. Stamp(n) = <<l[1], "T", parts[1], ":", parts[2], ":", parts[3]>> \o <<".", parts[4]>>
    BY <2>4, <2>5, Zenon DEF Stamp
  <2>7. <<"day", "T", "h", ":", "m", ":", "s">> \o <<".", "fZ">> = <<"day", "T", "h", ":", "m", ":", "s", ".", "fZ">>
    <3> DEFINE p == <<"day", "T", "h", ":", "m", ":", "s">>
               q == <<".", "fZ">>
               r == <<"day", "T", "h", ":", "m", ":", "s", ".", "fZ">>
    <3>1. p \in Seq(Tokens) /\ q \in Seq(Tokens) /\ r \in Seq(Tokens) /\ Len(r) = Len(p) + Len(q)
      BY DEF Tokens
    <3>2. (\A i \in 1..Len(p) : r[i] = p[i]) /\ (\A i \in 1..Len(q) : r[Len(p) + i] = q[i])
      OBVIOUS
    <3> HIDE DEF p, q, r
    <3>3. p \o q = r
      BY <3>1, <3>2, JoinedIs
    <3>4. QED BY <3>3 DEF p, q, r
  <2>8. Stamp(n) = <<"day", "T", "h", ":", "m", ":", "s">> \o <<".", "fZ">>
    BY <2>2, <2>3, <2>6
  <2>9. QED BY <2>7, <2>8, Zenon
<1>10. "T" \in Elements(s)
  <2>1. s[2] = "T" /\ 2 \in DOMAIN s
    OBVIOUS
  <2> HIDE DEF s
  <2>2. QED BY <2>1 DEF Elements
<1> HIDE DEF n, s
<1>11. Safe(NameOf(s)) /\ Stamp(NameOf(s)) = IF "T" \in Elements(s) THEN s ELSE <<>>
  BY <1>4, <1>5, <1>9, <1>10
<1>12. QED BY <1>11 DEF s

\* The name of one written at an unknown time tells none.
LEMMA NoTimeIsRead ==
  LET s == <<"unknown-time">>
  IN Safe(NameOf(s)) /\ Stamp(NameOf(s)) = IF "T" \in Elements(s) THEN s ELSE <<>>
<1> DEFINE s == <<"unknown-time">>
           l == <<"unknown-time">>
           n == <<"crash-", "unknown-time", ".txt">>
<1>1. [i \in DOMAIN s |-> IF s[i] \in {":", "."} THEN "-" ELSE s[i]] = l
  OBVIOUS
<1>2. <<"crash-">> \o <<"unknown-time">> = <<"crash-", "unknown-time">>
  <2> DEFINE p == <<"crash-">>
             q == <<"unknown-time">>
             r == <<"crash-", "unknown-time">>
  <2>1. p \in Seq(Tokens) /\ q \in Seq(Tokens) /\ r \in Seq(Tokens) /\ Len(r) = Len(p) + Len(q)
    BY DEF Tokens
  <2>2. (\A i \in 1..Len(p) : r[i] = p[i]) /\ (\A i \in 1..Len(q) : r[Len(p) + i] = q[i])
    OBVIOUS
  <2> HIDE DEF p, q, r
  <2>3. p \o q = r
    BY <2>1, <2>2, JoinedIs
  <2>4. QED BY <2>3 DEF p, q, r
<1>3. <<"crash-", "unknown-time">> \o <<".txt">> = <<"crash-", "unknown-time", ".txt">>
  <2> DEFINE p == <<"crash-", "unknown-time">>
             q == <<".txt">>
             r == <<"crash-", "unknown-time", ".txt">>
  <2>1. p \in Seq(Tokens) /\ q \in Seq(Tokens) /\ r \in Seq(Tokens) /\ Len(r) = Len(p) + Len(q)
    BY DEF Tokens
  <2>2. (\A i \in 1..Len(p) : r[i] = p[i]) /\ (\A i \in 1..Len(q) : r[Len(p) + i] = q[i])
    OBVIOUS
  <2> HIDE DEF p, q, r
  <2>3. p \o q = r
    BY <2>1, <2>2, JoinedIs
  <2>4. QED BY <2>3 DEF p, q, r
<1>4. NameOf(s) = n
  <2> HIDE DEF s
  <2>1. NameOf(s) = <<"crash-">> \o l \o <<".txt">>
    BY <1>1, Zenon DEF NameOf
  <2>2. QED BY <1>2, <1>3, <2>1, Zenon
<1>5. Safe(n)
  <2>1. n[1] = "crash-" /\ Len(n) = 3 /\ n[3] = ".txt"
    OBVIOUS
  <2>2. \A i \in DOMAIN n : n[i] # ".." /\ n[i] # "/"
    OBVIOUS
  <2> HIDE DEF n
  <2>3. QED BY <2>1, <2>2 DEF Safe, IsReport, Elements
<1>6. SubSeq(<<"crash-", "unknown-time", ".txt">>, 2, 2) = <<"unknown-time">>
  <2> DEFINE t == <<"crash-", "unknown-time", ".txt">>
             r == <<"unknown-time">>
             lo == 2
             hi == 2
  <2>1. t \in Seq(Tokens) /\ r \in Seq(Tokens) /\ lo \in 1..Len(t) /\ hi \in lo..Len(t) /\ Len(r) = hi - lo + 1
    BY DEF Tokens
  <2>2. \A i \in 1..Len(r) : r[i] = t[lo + i - 1]
    OBVIOUS
  <2> HIDE DEF t, r, lo, hi
  <2>3. SubSeq(t, lo, hi) = r
    BY <2>1, <2>2, PartIs
  <2>4. QED BY <2>3 DEF t, r, lo, hi
<1>7. "T" \notin Elements(l) /\ "T" \notin Elements(s) /\ Len(n) - 1 = 2
  BY DEF Elements
<1>8. SubSeq(n, 2, Len(n) - 1) = l
  BY <1>6, <1>7
<1> HIDE DEF n, l, s
<1>9. Stamp(n) = <<>>
  BY <1>7, <1>8, Zenon DEF Stamp
<1>10. Safe(NameOf(s)) /\ Stamp(NameOf(s)) = IF "T" \in Elements(s) THEN s ELSE <<>>
  BY <1>4, <1>5, <1>7, <1>9
<1>11. QED BY <1>10 DEF s

\* A report the hook wrote can be read back to its time.
LEMMA NamesAreRead ==
  ASSUME NEW s \in Stamps
  PROVE  Safe(NameOf(s)) /\ Stamp(NameOf(s)) = IF "T" \in Elements(s) THEN s ELSE <<>>
  BY WholeSecondsAreRead, FractionsAreRead, NoTimeIsRead, Zenon DEF Stamps

\* The latest reports are listed, each with the time it was written, and one that the
\* hook wrote can be read unless it is too large, whatever is in the folder: the list
\* keeps what SoundReports promises.
THEOREM ReportsAreSound ==
  ASSUME NEW N, NEW g \in AnyCrashable(N)
  PROVE  SoundReports(g, ListReports(g))
<1> DEFINE d == g.dir
           lim == g.limit
           X == AnyReport(N)
           S == {x \in {d[i] : i \in DOMAIN d} : IsReport(x.name) /\ x.file}
           fit == Kept(d, S)
           W == {w \in X \X X : w[1].time > w[2].time}
           t == Sorted(fit, LAMBDA a, b : a.time > b.time)
           a == ListReports(g)
<1>1. d \in Seq(X) /\ lim \in Nat /\ DOMAIN d = 1..Len(d)
  BY DEF AnyCrashable
<1>2. a = FirstOf(t, lim)
  BY DEF ListReports, Where, FirstOf
<1>3. \A x \in X : x.time \in Nat /\ x.size \in Sizes
  BY DEF AnyReport
<1>4. ToSet(d) = Elements(d) /\ Elements(d) = {d[i] : i \in DOMAIN d}
  BY DEF ToSet, Elements
<1>5. \A x : x \in S <=> x \in Elements(d) /\ IsReport(x.name) /\ x.file
  BY <1>4
<1> HIDE DEF d, lim, X, S, a
<1>6. fit \in Seq(X) /\ ToSet(fit) = ToSet(d) \cap S
  BY <1>1, KeptIs
<1> HIDE DEF fit
<1>7. \A x, y \in X : <<x, y>> \in W <=> x.time > y.time
  OBVIOUS
<1> HIDE DEF W
<1>8. Weak(W, X)
  <2>1. ASSUME NEW x \in X, NEW y \in X PROVE ~(<<x, y>> \in W /\ <<y, x>> \in W)
    BY <1>3, <1>7
  <2>2. ASSUME NEW x \in X, NEW y \in X, NEW z \in X, <<x, z>> \in W
        PROVE  <<x, y>> \in W \/ <<y, z>> \in W
    BY <1>3, <1>7, <2>2
  <2>3. QED BY <2>1, <2>2 DEF Weak
<1>9. t = Ranked(fit, By(fit, W))
  <2>1. \A i \in DOMAIN fit : fit[i] \in X
    BY <1>6
  <2>2. \A p \in (DOMAIN fit) \X (DOMAIN fit) :
           /\ <<fit[p[1]], fit[p[2]]>> \in W <=> fit[p[1]].time > fit[p[2]].time
           /\ <<fit[p[2]], fit[p[1]]>> \in W <=> fit[p[2]].time > fit[p[1]].time
    BY <1>7, <2>1
  <2>3. By(fit, W) = {p \in (DOMAIN fit) \X (DOMAIN fit) :
                        \/ fit[p[1]].time > fit[p[2]].time
                        \/ p[1] < p[2] /\ ~(fit[p[2]].time > fit[p[1]].time)}
    BY <2>2 DEF By
  <2>4. QED BY <2>3 DEF Sorted
<1> HIDE DEF t
<1>10. PICK p : IsSort(t, fit, W, p) /\ t \in Seq(X)
  BY <1>6, <1>8, <1>9, SortedIs
<1>11. /\ Len(t) = Len(fit) /\ ToSet(t) = ToSet(fit)
       /\ \A i, j \in 1..Len(fit) : <<t[i], t[j]>> \in W => i < j
  BY <1>10, Zenon DEF IsSort
<1>12. /\ a \in Seq(X) /\ Len(a) = (IF lim <= Len(t) THEN lim ELSE Len(t))
       /\ \A i \in 1..Len(a) : a[i] = t[i] /\ i \in 1..Len(t)
  BY <1>1, <1>2, <1>10, FirstFew
<1>13. /\ DOMAIN a = 1..Len(a) /\ DOMAIN t = 1..Len(t) /\ Len(a) \in Nat /\ Len(t) \in Nat
       /\ \A i \in 1..Len(t) : t[i] \in X
  BY <1>10, <1>12
<1>14. ASSUME NEW i \in DOMAIN a, NEW r \in Elements(d), IsReport(r.name), r.file, r.time > a[i].time
       PROVE  r \in Elements(a)
  <2>1. r \in ToSet(t)
    BY <1>4, <1>5, <1>6, <1>11, <1>14
  <2>2. PICK k \in 1..Len(t) : t[k] = r
    BY <1>13, <2>1 DEF ToSet
  <2>3. i \in 1..Len(t) /\ a[i] = t[i] /\ i \in 1..Len(a)
    BY <1>12, <1>13
  <2>4. t[k] \in X /\ t[i] \in X
    BY <1>13, <2>3
  <2>5. <<t[k], t[i]>> \in W
    BY <1>7, <1>14, <2>2, <2>3, <2>4
  <2>6. k < i
    BY <1>11, <2>3, <2>5
  <2>7. k \in 1..Len(a)
    BY <1>13, <2>3, <2>6
  <2>8. a[k] = r
    BY <1>12, <2>2, <2>7
  <2>9. QED BY <1>13, <2>7, <2>8 DEF Elements
<1>15. ASSUME NEW i \in DOMAIN a, NEW s \in Stamps, a[i].name = NameOf(s)
       PROVE  /\ Stamp(a[i].name) = IF "T" \in Elements(s) THEN s ELSE <<>>
              /\ ReadReport(a[i]) = IF a[i].size = 1 THEN "text" ELSE "too large"
  <2> DEFINE r == a[i]
  <2>1. r \in ToSet(t) /\ r \in X
    <3>1. a[i] = t[i] /\ i \in 1..Len(t)
      BY <1>12, <1>13
    <3>2. QED BY <1>13, <3>1 DEF ToSet
  <2>2. r \in S
    BY <1>6, <1>11, <2>1
  <2>3. r.file /\ r.size \in Sizes
    BY <1>3, <1>5, <2>1, <2>2
  <2>4. Safe(r.name) /\ Stamp(r.name) = IF "T" \in Elements(s) THEN s ELSE <<>>
    BY <1>15, NamesAreRead
  <2> HIDE DEF r
  <2>5. ReadReport(r) = IF r.size = 1 THEN "text" ELSE "too large"
    <3>1. r.size > MAX_CRASH_FILE_BYTES <=> r.size # 1
      BY <2>3, SMT DEF Sizes, MAX_CRASH_FILE_BYTES
    <3>2. r.file /\ Safe(r.name)
      BY <2>3, <2>4
    <3>3. QED BY <3>1, <3>2, Zenon DEF ReadReport
  <2>6. QED BY <2>4, <2>5 DEF r
<1>16. QED BY <1>14, <1>15, Zenon DEF SoundReports, a, d

-----------------------------------------------------------------------------
\* trending: any rows of the leaderboard, of which no two are of one model, any
\* downloads, and models that are there once.
AnyRow(A, N) == [author : A, name : N, licence : Nat, size : Nat, average : Nat]
AnyRankable(A, N) ==
  [models : {s \in Seq(Hub) : IsInjective(s)}, downloads : Nat,
   rows : {s \in Seq(AnyRow(A, N)) : \A i, j \in DOMAIN s :
             s[i].author = s[j].author /\ s[i].name = s[j].name => i = j},
   gguf : BOOLEAN, korean : Nat]

\* What the row of a model is.
LEMMA RowIs ==
  ASSUME NEW A, NEW N, NEW rows \in Seq(AnyRow(A, N)), NEW m
  PROVE  /\ RowOf(m, rows).licence \in Nat /\ RowOf(m, rows).average \in Nat
         /\ RowOf(m, rows).licence = 0 \/ \E i \in DOMAIN rows : RowOf(m, rows) = rows[i] /\ rows[i].name = m.name
<1> DEFINE F == {i \in DOMAIN rows : rows[i].name = m.name}
           r == RowOf(m, rows)
<1>1. DOMAIN rows = 1..Len(rows) /\ \A i \in DOMAIN rows : rows[i] \in AnyRow(A, N)
  OBVIOUS
<1>2. CASE F = {}
  <2>1. r = Row(m.author, m.name, 0, 0, 0)
    BY <1>2 DEF RowOf
  <2>2. r.licence = 0 /\ r.average = 0
    BY <2>1 DEF Row
  <2>3. QED BY <2>2
<1>3. CASE F # {}
  <2>1. F \in SUBSET Nat
    BY <1>1
  <2>2. Min(F) \in F
    BY <1>3, <2>1, LeastIs
  <2>3. r = rows[Min(F)]
    BY <1>3 DEF RowOf
  <2>4. rows[Min(F)] \in AnyRow(A, N)
    BY <1>1, <2>2
  <2>5. \A x \in AnyRow(A, N) : x.licence \in Nat /\ x.average \in Nat
    BY DEF AnyRow
  <2> HIDE DEF r
  <2>6. QED BY <2>2, <2>3, <2>4, <2>5 DEF r
<1>4. QED BY <1>2, <1>3

\* A model that is ranked before another.
Ahead(a, b, g) == \/ ScoreOf(a, g) > ScoreOf(b, g)
                  \/ ScoreOf(a, g) = ScoreOf(b, g) /\ Name(a) < Name(b)
AheadOf(g) == {w \in Hub \X Hub : Ahead(w[1], w[2], g)}
RankedModels(g) == Ranked(g.models, By(g.models, AheadOf(g)))

\* No two models are level.
LEMMA AheadIsOrder ==
  ASSUME NEW A, NEW N, NEW g \in AnyRankable(A, N)
  PROVE  /\ Weak(AheadOf(g), Hub)
         /\ \A x, y \in Hub : x # y => <<x, y>> \in AheadOf(g) \/ <<y, x>> \in AheadOf(g)
<1> DEFINE W == AheadOf(g)
           p(x) == ScoreOf(x, g)
           q(x) == Name(x)
<1>1. \A x \in Hub : p(x) \in Int
  <2>1. g.rows \in Seq(AnyRow(A, N)) /\ g.downloads \in Nat /\ g.korean \in Nat
    BY DEF AnyRankable
  <2>2. ASSUME NEW x \in Hub PROVE p(x) \in Int
    <3>1. RowOf(x, g.rows).licence \in Nat /\ RowOf(x, g.rows).average \in Nat
      BY <2>1, RowIs
    <3> DEFINE d == RowOf(x, g.rows).average
               e == RowOf(x, g.rows).licence
               u == IF g.downloads < 1000 THEN 0 ELSE 67
               v == IF g.korean = 0 THEN 0 ELSE IF g.korean <= 2 THEN 120 ELSE 180
               w == IF g.gguf THEN 100 ELSE 0
    <3>2. ScoreOf(x, g) = 35 * d + 15 * e + u + v + w
      BY DEF ScoreOf
    <3>3. u \in Int /\ v \in Int /\ w \in Int
      OBVIOUS
    <3>4. d \in Nat /\ e \in Nat
      BY <3>1
    <3> HIDE DEF d, e, u, v, w
    <3>5. 35 * d + 15 * e + u + v + w \in Int
      BY <3>3, <3>4
    <3>6. QED BY <3>2, <3>5
  <2>3. QED BY <2>2
<1>2. (\A x \in Hub : q(x) \in Int) /\ \A x, y \in Hub : x # y => q(x) # q(y)
  <2>1. \A x \in Hub : x = [author |-> x.author, name |-> x.name] /\ x.author \in {"x", "y"} /\ x.name \in {"m", "n"}
    BY DEF Hub
  <2>2. \A x \in Hub : q(x) \in Int
    BY <2>1 DEF Name
  <2>3. ASSUME NEW x \in Hub, NEW y \in Hub, q(x) = q(y) PROVE x = y
    <3>1. x.author = y.author /\ x.name = y.name
      BY <2>1, <2>3 DEF Name
    <3>2. QED BY <2>1, <3>1
  <2>4. QED BY <2>2, <2>3
<1>3. \A x, y \in Hub : <<x, y>> \in W <=> p(x) > p(y) \/ (p(x) = p(y) /\ q(x) < q(y))
  BY DEF AheadOf, Ahead
<1> HIDE DEF W, p, q
<1>4. ASSUME NEW x \in Hub, NEW y \in Hub PROVE ~(<<x, y>> \in W /\ <<y, x>> \in W)
  <2>1. p(x) \in Int /\ p(y) \in Int /\ q(x) \in Int /\ q(y) \in Int
    BY <1>1, <1>2
  <2>2. QED BY <1>3, <2>1
<1>5. ASSUME NEW x \in Hub, NEW y \in Hub, NEW z \in Hub, <<x, z>> \in W
      PROVE  <<x, y>> \in W \/ <<y, z>> \in W
  <2>1. p(x) \in Int /\ p(y) \in Int /\ p(z) \in Int /\ q(x) \in Int /\ q(y) \in Int /\ q(z) \in Int
    BY <1>1, <1>2
  <2>2. QED BY <1>3, <1>5, <2>1
<1>6. ASSUME NEW x \in Hub, NEW y \in Hub, x # y PROVE <<x, y>> \in W \/ <<y, x>> \in W
  <2>1. p(x) \in Int /\ p(y) \in Int /\ q(x) \in Int /\ q(y) \in Int /\ q(x) # q(y)
    BY <1>1, <1>2, <1>6
  <2>2. QED BY <1>3, <2>1
<1>7. Weak(W, Hub)
  BY <1>4, <1>5 DEF Weak
<1>8. QED BY <1>6, <1>7 DEF W

\* What is told of the models that are ranked.
LEMMA CandidatesAre ==
  ASSUME NEW A, NEW N, NEW g \in AnyRankable(A, N)
  PROVE  RankCandidates(g) = [i \in DOMAIN RankedModels(g) |->
           [model |-> RankedModels(g)[i], as |-> Disposition(RankedModels(g)[i], g)]]
<1> DEFINE s == g.models
           W == AheadOf(g)
<1>1. s \in Seq(Hub)
  BY DEF AnyRankable
<1> HIDE DEF s
<1>2. \A i \in DOMAIN s : s[i] \in Hub
  BY <1>1
<1>3. \A p \in (DOMAIN s) \X (DOMAIN s) :
         /\ <<s[p[1]], s[p[2]]>> \in W <=> Ahead(s[p[1]], s[p[2]], g)
         /\ <<s[p[2]], s[p[1]]>> \in W <=> Ahead(s[p[2]], s[p[1]], g)
  BY <1>2 DEF AheadOf
<1> HIDE DEF W
<1>4. By(s, W) = {p \in (DOMAIN s) \X (DOMAIN s) :
                    \/ Ahead(s[p[1]], s[p[2]], g)
                    \/ p[1] < p[2] /\ ~Ahead(s[p[2]], s[p[1]], g)}
  BY <1>3 DEF By
<1>5. Sorted(s, LAMBDA a, b : Ahead(a, b, g)) = Ranked(s, By(s, W))
  BY <1>4 DEF Sorted
<1>6. Sorted(s, LAMBDA a, b : Ahead(a, b, g)) = RankedModels(g)
  BY <1>5 DEF RankedModels, s, W
<1>7. Sorted(g.models, LAMBDA a, b : \/ ScoreOf(a, g) > ScoreOf(b, g)
                                     \/ ScoreOf(a, g) = ScoreOf(b, g) /\ Name(a) < Name(b)) = RankedModels(g)
  BY <1>6 DEF Ahead, s
<1>8. QED BY <1>7, Zenon DEF RankCandidates

\* The ranking does not depend on the order models come in, and none is queued whose
\* own row has no licence of the list, unless the row of another author's model of
\* the same name comes first, whatever the leaderboard tells: the ranking keeps what
\* SoundRanking promises.
THEOREM RankingIsSound ==
  ASSUME NEW A, NEW N, NEW g \in AnyRankable(A, N)
  PROVE  SoundRanking(g, RankCandidates(g))
<1> DEFINE s == g.models
           r == Reverse(s)
           h == [g EXCEPT !.models = Reverse(@)]
           W == AheadOf(g)
           t == RankedModels(g)
           a == RankCandidates(g)
<1>1. /\ s \in Seq(Hub) /\ IsInjective(s) /\ g.rows \in Seq(AnyRow(A, N))
      /\ \A i, j \in DOMAIN g.rows :
           g.rows[i].author = g.rows[j].author /\ g.rows[i].name = g.rows[j].name => i = j
  BY DEF AnyRankable
<1>2. Weak(W, Hub) /\ \A x, y \in Hub : x # y => <<x, y>> \in W \/ <<y, x>> \in W
  BY AheadIsOrder
<1> HIDE DEF s
<1>3. /\ r \in Seq(Hub) /\ Len(r) = Len(s) /\ ToSet(r) = ToSet(s)
      /\ \A i \in 1..Len(s) : r[i] = s[Len(s) - i + 1] /\ Len(s) - i + 1 \in 1..Len(s)
  BY <1>1, Backwards
<1> HIDE DEF r, W
<1>4. \A i, j \in 1..Len(s) : s[i] = s[j] => i = j
  BY <1>1 DEF IsInjective
<1>5. IsInjective(r) /\ \A i, j \in 1..Len(r) : r[i] = r[j] => i = j
  <2>1. ASSUME NEW i \in 1..Len(r), NEW j \in 1..Len(r), r[i] = r[j] PROVE i = j
    <3>1. Len(s) - i + 1 = Len(s) - j + 1
      BY <1>3, <1>4, <2>1
    <3>2. Len(s) \in Nat
      BY <1>1
    <3>3. QED BY <3>1, <3>2
  <2>2. DOMAIN r = 1..Len(r)
    BY <1>3
  <2>3. QED BY <2>1, <2>2 DEF IsInjective
<1>6. AllDiffer(s, W) /\ AllDiffer(r, W)
  <2>1. (\A i \in 1..Len(s) : s[i] \in Hub) /\ (\A i \in 1..Len(r) : r[i] \in Hub)
    BY <1>1, <1>3
  <2>2. QED BY <1>2, <1>4, <1>5, <2>1 DEF AllDiffer
<1>7. Ranked(s, By(s, W)) = Ranked(r, By(r, W))
  BY <1>1, <1>2, <1>3, <1>6, SortsAlike
<1>8. /\ h.models = r /\ h.rows = g.rows /\ h.downloads = g.downloads /\ h.korean = g.korean
      /\ h.gguf = g.gguf /\ h \in AnyRankable(A, N)
  <2>1. /\ h.rows = g.rows /\ h.downloads = g.downloads /\ h.korean = g.korean
        /\ h.gguf = g.gguf
    BY DEF AnyRankable
  <2>2. h = [g EXCEPT !.models = r] /\ h.models = r
    BY DEF AnyRankable, r, s
  <2> DEFINE M == {q \in Seq(Hub) : IsInjective(q)}
  <2>3. r \in M
    BY <1>3, <1>5
  <2> HIDE DEF h, M
  <2>4. h \in AnyRankable(A, N)
    <3>1. AnyRankable(A, N) = [models : M, downloads : Nat,
             rows : {q \in Seq(AnyRow(A, N)) : \A i, j \in DOMAIN q :
                       q[i].author = q[j].author /\ q[i].name = q[j].name => i = j},
             gguf : BOOLEAN, korean : Nat]
      BY Zenon DEF AnyRankable, M
    <3> DEFINE RR == {q \in Seq(AnyRow(A, N)) : \A i, j \in DOMAIN q :
                       q[i].author = q[j].author /\ q[i].name = q[j].name => i = j}
    <3> HIDE DEF RR
    <3>2. g \in [models : M, downloads : Nat, rows : RR, gguf : BOOLEAN, korean : Nat]
      BY <3>1 DEF RR
    <3>3. h \in [models : M, downloads : Nat, rows : RR, gguf : BOOLEAN, korean : Nat]
      BY <2>2, <2>3, <3>2
    <3>4. QED BY <3>1, <3>3 DEF RR
  <2>5. QED BY <2>1, <2>2, <2>4
<1> HIDE DEF h
<1>9. (\A x, y : Ahead(x, y, h) <=> Ahead(x, y, g)) /\ \A x : Disposition(x, h) = Disposition(x, g)
  <2>1. \A x : ScoreOf(x, h) = ScoreOf(x, g)
    BY <1>8 DEF ScoreOf
  <2>2. \A x : Disposition(x, h) = Disposition(x, g)
    BY <1>8 DEF Disposition
  <2>3. QED BY <2>1, <2>2 DEF Ahead
<1>10. AheadOf(h) = W
  BY <1>9 DEF AheadOf, W
<1>11. RankedModels(h) = t
  BY <1>7, <1>8, <1>10 DEF RankedModels, s, W
<1>12. a = [i \in DOMAIN t |-> [model |-> t[i], as |-> Disposition(t[i], g)]]
  BY CandidatesAre
<1>13. RankCandidates(h) = [i \in DOMAIN t |-> [model |-> t[i], as |-> Disposition(t[i], h)]]
  <2>1. RankCandidates(h) = [i \in DOMAIN RankedModels(h) |->
           [model |-> RankedModels(h)[i], as |-> Disposition(RankedModels(h)[i], h)]]
    BY <1>8, CandidatesAre
  <2>2. QED BY <1>11, <2>1
<1> HIDE DEF t, a
<1>14. a = RankCandidates(h)
  BY <1>9, <1>12, <1>13
<1>15. ASSUME NEW x \in Elements(a), NEW r_ \in Elements(g.rows), x.as = "queue",
              r_.author = x.model.author, r_.name = x.model.name
       PROVE  r_.licence > 0 \/ \E o \in Elements(g.rows) : o.name = r_.name /\ o.author # r_.author
  <2> DEFINE rows == g.rows
             m == x.model
             w == RowOf(m, rows)
  <2>1. PICK k \in DOMAIN t : x = [model |-> t[k], as |-> Disposition(t[k], g)]
    BY <1>12 DEF Elements
  <2>2. Disposition(m, g) = "queue"
    BY <1>15, <2>1
  <2>3. w.licence # 0
    BY <2>2 DEF Disposition
  <2>4. PICK i \in DOMAIN rows : w = rows[i] /\ rows[i].name = m.name
    BY <1>1, <2>3, RowIs
  <2>5. PICK j \in DOMAIN rows : r_ = rows[j]
    BY DEF Elements
  <2>6. rows[j] \in AnyRow(A, N) /\ rows[j].licence \in Nat
    <3>1. rows[j] \in AnyRow(A, N)
      BY <1>1
    <3>2. QED BY <3>1 DEF AnyRow
  <2>7. CASE rows[i].author = r_.author
    <3>1. i = j
      BY <1>1, <1>15, <2>4, <2>5, <2>7
    <3>2. r_.licence # 0 /\ r_.licence \in Nat
      BY <2>3, <2>4, <2>5, <2>6, <3>1
    <3>3. QED BY <3>2
  <2>8. CASE rows[i].author # r_.author
    <3>1. rows[i] \in Elements(rows) /\ rows[i].name = r_.name
      BY <1>15, <2>4 DEF Elements
    <3>2. QED BY <2>8, <3>1
  <2>9. QED BY <2>7, <2>8
<1>16. QED BY <1>14, <1>15, Zenon DEF SoundRanking, a, h

-----------------------------------------------------------------------------
AnyRetainable == [dirs : Seq(AnyDir), maxAge : Nat, cap : Nat]
Older == {w \in AnyDir \X AnyDir : w[1].age > w[2].age}
OldestFirst(dirs) == Sorted(dirs, LAMBDA a, b : a.age > b.age)

\* BySize goes through them from the oldest on.
LEMMA BySizeShrinks ==
  ASSUME NEW dirs \in Seq(AnyDir), NEW cap
  PROVE  /\ BySize(dirs, cap) = Shrunk(cap, OldestFirst(dirs), Weighed(dirs))
         /\ OldestFirst(dirs) = Ranked(dirs, By(dirs, Older))
<1>1. BySize(dirs, cap) = Shrunk(cap, OldestFirst(dirs), Weighed(dirs))
  BY DEF BySize, Shrunk, SizeStep, OldestFirst, Sorted, FoldLeft, MapThenFoldSet, Bytes, Weighed
<1>2. \A i \in DOMAIN dirs : dirs[i] \in AnyDir
  OBVIOUS
<1>3. \A p \in (DOMAIN dirs) \X (DOMAIN dirs) :
         /\ <<dirs[p[1]], dirs[p[2]]>> \in Older <=> dirs[p[1]].age > dirs[p[2]].age
         /\ <<dirs[p[2]], dirs[p[1]]>> \in Older <=> dirs[p[2]].age > dirs[p[1]].age
  BY <1>2 DEF Older
<1>4. By(dirs, Older) = {p \in (DOMAIN dirs) \X (DOMAIN dirs) :
                           \/ dirs[p[1]].age > dirs[p[2]].age
                           \/ p[1] < p[2] /\ ~(dirs[p[2]].age > dirs[p[1]].age)}
  BY <1>3 DEF By
<1>5. OldestFirst(dirs) = Ranked(dirs, By(dirs, Older))
  BY <1>4 DEF OldestFirst, Sorted
<1>6. QED BY <1>1, <1>5

\* No result of a running job is removed, what is left is above the cap only if it is
\* all such results, and no younger result goes in place of an older one, whatever the
\* results and the limits: Cleanup keeps what SoundCleanup promises.
THEOREM CleanupIsSound ==
  ASSUME NEW g \in AnyRetainable
  PROVE  SoundCleanup(g, Cleanup(g))
<1> DEFINE s == g.dirs
           cap == g.cap
           Y == {x \in {s[i] : i \in DOMAIN s} : x.kept \/ g.maxAge = 0 \/ x.age <= g.maxAge}
           y == Kept(s, Y)
           l == IF cap = 0 THEN y ELSE BySize(y, cap)
           a == Cleanup(g)
<1>1. s \in Seq(AnyDir) /\ cap \in Nat /\ g.maxAge \in Nat
  BY DEF AnyRetainable
<1>2. a.left = l /\ a.remaining = Weighed(l)
  BY DEF Cleanup, ByAge, Where, Bytes, Weighed
<1>3. y \in Seq(AnyDir) /\ ToSet(y) = ToSet(s) \cap Y
  <2> HIDE DEF Y, s
  <2>1. QED BY <1>1, KeptIs
<1>4. \A d \in ToSet(s) : d \in Y <=> d.kept \/ g.maxAge = 0 \/ d.age <= g.maxAge
  BY DEF ToSet
<1> HIDE DEF s, Y, a
<1>5. \A d \in ToSet(s) : d \in AnyDir /\ d.age \in Nat
  <2>1. \A d \in ToSet(s) : d \in AnyDir
    BY <1>1 DEF ToSet
  <2>2. \A d \in AnyDir : d.age \in Nat
    BY DEF AnyDir
  <2>3. QED BY <2>1, <2>2
<1> DEFINE t == OldestFirst(y)
<1>6. Weak(Older, AnyDir)
  <2>1. \A x \in AnyDir : x.age \in Nat
    BY DEF AnyDir
  <2>2. \A x, z \in AnyDir : <<x, z>> \in Older <=> x.age > z.age
    BY DEF Older
  <2>3. QED BY <2>1, <2>2 DEF Weak
<1> HIDE DEF y
<1>7. /\ BySize(y, cap) = Shrunk(cap, t, Weighed(y))
      /\ t = Ranked(y, By(y, Older))
  BY <1>3, BySizeShrinks
<1> HIDE DEF t, cap
<1>8. t \in Seq(AnyDir) /\ \E p : IsSort(t, y, Older, p)
  BY <1>3, <1>6, <1>7, SortedIs
<1>9. PICK p : IsSort(t, y, Older, p)
  BY <1>8
<1>10. Weighed(t) = Weighed(y)
  BY <1>3, <1>8, <1>9, BytesOfSorted
<1>11. ShrinksWell(BySize(y, cap), t, cap)
  BY <1>1, <1>7, <1>8, <1>10, ShrunkIs
<1>12. Len(t) = Len(y) /\ (\A i, j \in 1..Len(y) : <<t[i], t[j]>> \in Older => i < j) /\ ToSet(t) = ToSet(y)
  BY <1>9, Zenon DEF IsSort
<1>13. \A i, j \in 1..Len(t) : i < j => t[j].age <= t[i].age
  <2>1. ASSUME NEW i \in 1..Len(t), NEW j \in 1..Len(t), i < j PROVE t[j].age <= t[i].age
    <3>1. t[i] \in AnyDir /\ t[j] \in AnyDir
      BY <1>8
    <3>2. ~(<<t[j], t[i]>> \in Older)
      BY <1>8, <1>12, <2>1
    <3>3. t[i].age \in Nat /\ t[j].age \in Nat
      BY <3>1 DEF AnyDir
    <3>4. QED BY <3>1, <3>2, <3>3 DEF Older
  <2>2. QED BY <2>1
<1>14. l \in Seq(AnyDir) /\ \A e \in ToSet(l) : e \in ToSet(y)
  <2>1. CASE cap = 0
    BY <1>3, <2>1
  <2>2. CASE cap # 0
    <3>1. l \in Seq(AnyDir) /\ \A i \in 1..Len(l) : \E k \in 1..Len(t) : t[k] = l[i]
      BY <1>11, <2>2 DEF ShrinksWell
    <3> HIDE DEF l
    <3>2. \A e \in ToSet(l) : e \in ToSet(t)
      BY <1>8, <3>1 DEF ToSet
    <3>3. QED BY <1>12, <3>1, <3>2
  <2>3. QED BY <2>1, <2>2
<1>15. ASSUME NEW d \in ToSet(s), Times(l, d) < Times(s, d)
       PROVE  ~d.kept /\ \A e \in ToSet(l) : ~e.kept => e.age <= d.age
  <2>1. d \in AnyDir /\ d.age \in Nat
    BY <1>5
  <2>2. \A e \in ToSet(l) : e \in ToSet(s) /\ e \in Y /\ e.age \in Nat
    BY <1>3, <1>5, <1>14
  <2>3. CASE d \notin Y
    <3>1. ~d.kept /\ g.maxAge # 0 /\ ~(d.age <= g.maxAge)
      BY <1>4, <2>3
    <3>2. \A e \in ToSet(l) : ~e.kept => e.age <= g.maxAge
      BY <1>4, <2>2, <3>1
    <3>3. \A e \in ToSet(l) : ~e.kept => e.age <= d.age
      BY <1>1, <2>1, <2>2, <3>1, <3>2
    <3>4. QED BY <3>1, <3>3
  <2>4. CASE d \in Y
    <3>1. Kept(y, {d}) = Kept(s, {d})
      <4>1. {d} \cap AnyDir \subseteq Y
        BY <2>4
      <4>2. QED BY <1>1, <4>1, KeptOfKept DEF y
    <3>2. /\ Times(y, d) = Len(Kept(y, {d})) /\ Times(s, d) = Len(Kept(s, {d}))
          /\ Times(y, d) \in Nat /\ Times(s, d) \in Nat
      BY <1>1, <1>3, TimesIs
    <3>3. Times(y, d) = Times(s, d)
      BY <3>1, <3>2
    <3>4. Times(t, d) = Times(y, d)
      BY <1>3, <1>8, <1>9, SortKeepsTimes
    <3>5. cap # 0
      <4>1. cap = 0 => l = y
        OBVIOUS
      <4> HIDE DEF l
      <4>2. QED BY <1>15, <3>2, <3>3, <4>1
    <3>6. l = BySize(y, cap)
      BY <3>5
    <3> HIDE DEF l
    <3>7. Kept(l, {d}) # Kept(t, {d})
      <4>1. /\ Times(l, d) = Len(Kept(l, {d})) /\ Times(t, d) = Len(Kept(t, {d}))
            /\ Times(l, d) \in Nat
        BY <1>8, <1>14, TimesIs
      <4>2. QED BY <1>15, <3>2, <3>3, <3>4, <4>1
    <3>8. PICK j \in 1..Len(t) :
            /\ t[j] = d /\ ~t[j].kept
            /\ \A i \in 1..Len(l) : l[i].kept \/ \E k \in 1..Len(t) : j < k /\ t[k] = l[i]
      BY <1>11, <2>1, <3>6, <3>7 DEF ShrinksWell
    <3>9. ASSUME NEW i \in 1..Len(l), ~l[i].kept PROVE l[i].age <= d.age
      <4>1. PICK k \in 1..Len(t) : j < k /\ t[k] = l[i]
        BY <3>8, <3>9
      <4>2. QED BY <1>13, <3>8, <4>1
    <3>10. \A e \in ToSet(l) : \E i \in 1..Len(l) : l[i] = e
      BY <1>14 DEF ToSet
    <3>11. QED BY <3>8, <3>9, <3>10
  <2>5. QED BY <2>3, <2>4
<1>16. cap > 0 /\ Weighed(l) > cap => \A e \in ToSet(l) : e.kept
  <2> SUFFICES ASSUME cap > 0, Weighed(l) > cap PROVE \A e \in ToSet(l) : e.kept
    OBVIOUS
  <2>1. l = BySize(y, cap)
    BY <1>1
  <2> HIDE DEF l
  <2>2. \A i \in 1..Len(l) : l[i].kept
    BY <1>11, <2>1 DEF ShrinksWell
  <2>3. QED BY <1>14, <2>2 DEF ToSet
<1> HIDE DEF l
<1>17. SoundCleanup(g, a)
  <2>1. Elements(a.left) = ToSet(l) /\ Elements(g.dirs) = ToSet(s)
    BY <1>2 DEF Elements, ToSet, s
  <2>2. \A d : /\ Cardinality({i \in DOMAIN a.left : a.left[i] = d}) = Times(l, d)
               /\ Cardinality({i \in DOMAIN g.dirs : g.dirs[i] = d}) = Times(s, d)
    BY <1>2 DEF Times, s
  <2> DEFINE G == {d \in Elements(g.dirs) : Cardinality({i \in DOMAIN a.left : a.left[i] = d})
                                             < Cardinality({i \in DOMAIN g.dirs : g.dirs[i] = d})}
  <2>3. \A d \in G : d \in ToSet(s) /\ Times(l, d) < Times(s, d)
    BY <2>1, <2>2
  <2> HIDE DEF G
  <2>4. \A d \in G : ~d.kept /\ \A e \in Elements(a.left) : ~e.kept => e.age <= d.age
    BY <1>15, <2>1, <2>3
  <2>5. g.cap > 0 /\ a.remaining > g.cap => \A d \in Elements(a.left) : d.kept
    BY <1>2, <1>16, <2>1 DEF cap
  <2>6. QED BY <2>4, <2>5 DEF SoundCleanup, G
<1>18. QED BY <1>17 DEF a

-----------------------------------------------------------------------------
AnyHost == [vram : {x \in Int : x <= 12000}, ram : {x \in Int : x <= 32000}]
Different(s) == \A i, j \in 1..Len(s) : i # j => s[i].id # s[j].id
AnyRecommendable(C, P, M) ==
  [entries : {s \in Seq(AnyModel(C, P, M)) : Different(s)}, host : AnyHost, target : C,
   intent : BOOLEAN]

\* How well a model fits is a number, and so is how mature it is.
KeyOf(e, g) == <<-Fitness(e, g), -Rank(e.mat), e.size, e.id>>

\* A key is four numbers, the last of which is the id.
LEMMA KeysAre ==
  ASSUME NEW C, NEW P, NEW M, NEW g \in AnyRecommendable(C, P, M), NEW e \in AnyModel(C, P, M)
  PROVE  KeyOf(e, g) \in Lists /\ KeyOf(e, g)[4] = e.id
<1>1. /\ e.lang \in Nat /\ e.recV \in Int /\ e.recR \in Int /\ e.size \in Nat /\ e.id \in Nat
      /\ e.domain \in Nat
  BY DEF AnyModel
<1> DEFINE a == ForCategory(e.cat, g.target)
           b == IF g.target = "coding" THEN 0 ELSE e.lang
           c == ForVram(e, g.host)
           d == IF g.host.ram >= e.recR THEN 15 ELSE 5
           m == ForMaturity(e.mat)
           v == IF e.verified THEN 5 ELSE 0
           n == IF g.intent THEN (e.domain * 4) \div 10 + (IF e.meant THEN 5 ELSE 0) ELSE 0
           l == e.lang
<1>2. a \in Int
  BY DEF ForCategory
<1>3. b \in Int /\ d \in Int /\ v \in Int
  BY <1>1
<1>4. c \in Int
  BY DEF ForVram
<1>5. m \in Int
  BY DEF ForMaturity
<1>6. n \in Int
  BY <1>1
<1>7. Rank(e.mat) \in Int
  BY DEF Rank
<1>8. Fitness(e, g) = a + 2 * l + b + c + d + m + v + n
  BY DEF Fitness
<1> HIDE DEF a, b, c, d, m, v, n
<1>9. Fitness(e, g) \in Int
  BY <1>1, <1>2, <1>3, <1>4, <1>5, <1>6, <1>8
<1>10. -Fitness(e, g) \in Int /\ -Rank(e.mat) \in Int
  BY <1>7, <1>9
<1>11. QED BY <1>1, <1>10 DEF KeyOf, Lists

\* No two models are level.
BeforeIn(g, X) == {w \in X \X X : Before(w[1], w[2], g)}

\* Models are ordered, and no two of them are level.
LEMMA BeforeIsOrder ==
  ASSUME NEW C, NEW P, NEW M, NEW g \in AnyRecommendable(C, P, M), NEW X, X \subseteq AnyModel(C, P, M),
         \A a, b \in X : a.id = b.id => a = b
  PROVE  /\ Weak(BeforeIn(g, X), X)
         /\ \A a, b \in X : a # b => <<a, b>> \in BeforeIn(g, X) \/ <<b, a>> \in BeforeIn(g, X)
<1> DEFINE k(e) == KeyOf(e, g)
           W == BeforeIn(g, X)
<1>1. \A e \in X : k(e) \in Lists /\ k(e)[4] = e.id
  <2>1. ASSUME NEW e \in X PROVE k(e) \in Lists /\ k(e)[4] = e.id
    <3>1. e \in AnyModel(C, P, M)
      OBVIOUS
    <3>2. QED BY <3>1, KeysAre
  <2>2. QED BY <2>1
<1>2. \A a, b : Before(a, b, g) <=> a # b /\ k(a)[FirstOther(k(a), k(b))] < k(b)[FirstOther(k(a), k(b))]
  BY DEF Before, KeyOf, FirstOther
<1> HIDE DEF k
<1>3. ASSUME NEW a \in X, NEW b \in X PROVE <<a, b>> \in W <=> a # b /\ LexLess(k(a), k(b))
  <2>1. <<a, b>> \in W <=> Before(a, b, g)
    BY DEF BeforeIn
  <2>2. CASE a = b
    BY <1>2, <2>1, <2>2
  <2>3. CASE a # b
    <3> DEFINE u == k(a)
               v == k(b)
    <3>1. u \in Lists /\ v \in Lists /\ u[4] # v[4]
      BY <1>1, <2>3
    <3>2. Before(a, b, g) <=> u[FirstOther(u, v)] < v[FirstOther(u, v)]
      BY <1>2, <2>3
    <3> HIDE DEF u, v
    <3>3. u[FirstOther(u, v)] < v[FirstOther(u, v)] <=> LexLess(u, v)
      BY <3>1, FirstOtherIs
    <3>4. Before(a, b, g) <=> LexLess(u, v)
      BY <3>2, <3>3
    <3>5. QED BY <2>1, <2>3, <3>4 DEF u, v
  <2>4. QED BY <2>2, <2>3
<1> HIDE DEF W
<1>4. \A a, b \in X : a # b => k(a)[4] # k(b)[4]
  BY <1>1
<1>5. ASSUME NEW a \in X, NEW b \in X PROVE ~(<<a, b>> \in W /\ <<b, a>> \in W)
  BY <1>1, <1>3, LexIsOrder
<1>6. ASSUME NEW a \in X, NEW b \in X, NEW c \in X, <<a, c>> \in W
      PROVE  <<a, b>> \in W \/ <<b, c>> \in W
  <2>1. a # c /\ LexLess(k(a), k(c))
    BY <1>3, <1>6
  <2>2. CASE a = b
    BY <1>6, <2>2
  <2>3. CASE b = c
    BY <1>6, <2>3
  <2>4. CASE a # b /\ b # c
    <3>1. k(a)[4] # k(b)[4] /\ k(b)[4] # k(c)[4]
      BY <1>4, <2>4
    <3>2. LexLess(k(a), k(b)) \/ LexLess(k(b), k(c))
      BY <1>1, <2>1, <3>1, LexIsOrder
    <3>3. QED BY <1>3, <2>4, <3>2
  <2>5. QED BY <2>2, <2>3, <2>4
<1>7. ASSUME NEW a \in X, NEW b \in X, a # b PROVE <<a, b>> \in W \/ <<b, a>> \in W
  <2>1. LexLess(k(a), k(b)) \/ LexLess(k(b), k(a))
    BY <1>1, <1>4, <1>7, LexIsOrder
  <2>2. QED BY <1>3, <1>7, <2>1
<1>8. Weak(W, X)
  BY <1>5, <1>6 DEF Weak
<1>9. QED BY <1>7, <1>8 DEF W

\* What Recommend goes by.
FittingIn(g) == {x \in {g.entries[i] : i \in DOMAIN g.entries} : Reason(x, g.host) = "none"}
FitModels(g) == Kept(g.entries, FittingIn(g))
RankedFit(g) == Sorted(FitModels(g), LAMBDA a, b : Before(a, b, g))
LightModels(r) == Kept(r, {x \in {r[i] : i \in DOMAIN r} : x.size <= 5000})
Balanced(top) == IF top = <<>> THEN Nil ELSE top[Len(top) \div 2 + 1].id
ExcludedOf(g) == {<<e.id, Reason(e, g.host)>> : e \in {x \in Elements(g.entries) : Reason(x, g.host) # "none"}}

\* What is recommended, in the words of this proof.
LEMMA RecommendIs ==
  ASSUME NEW g
  PROVE  /\ Recommend(g).best = FirstId(RankedFit(g))
         /\ Recommend(g).balanced = Balanced(BestPart(RankedFit(g), Len(FitModels(g))))
         /\ Recommend(g).light = FirstId(LightModels(RankedFit(g)))
         /\ Recommend(g).excluded = ExcludedOf(g)
         /\ Recommend(g) = [best |-> Recommend(g).best, balanced |-> Recommend(g).balanced,
              light |-> Recommend(g).light, fallback |-> Recommend(g).fallback, excluded |-> Recommend(g).excluded]
<1>1. Recommend(g).best = FirstId(RankedFit(g))
  BY Zenon DEF Recommend, RankedFit, FitModels, FittingIn, Where, Sorted
<1>2. Recommend(g).balanced = Balanced(BestPart(RankedFit(g), Len(FitModels(g))))
  BY Zenon DEF Recommend, RankedFit, FitModels, FittingIn, BestPart, Balanced, Where, Sorted
<1>3. Recommend(g).light = FirstId(LightModels(RankedFit(g)))
  BY Zenon DEF Recommend, RankedFit, FitModels, FittingIn, LightModels, Where, Sorted
<1>4. Recommend(g).excluded = ExcludedOf(g)
  BY DEF Recommend, ExcludedOf
<1>5. Recommend(g) = [best |-> Recommend(g).best, balanced |-> Recommend(g).balanced,
        light |-> Recommend(g).light, fallback |-> Recommend(g).fallback, excluded |-> Recommend(g).excluded]
  BY DEF Recommend
<1>6. QED BY <1>1, <1>2, <1>3, <1>4, <1>5

\* The models that fit, and how they are ranked.
WellRanked(g, X, W) ==
  /\ Weak(W, X) /\ X = ToSet(g.entries) /\ W = BeforeIn(g, X)
  /\ FitModels(g) \in Seq(X) /\ AllDiffer(FitModels(g), W)
  /\ RankedFit(g) = Ranked(FitModels(g), By(FitModels(g), W))
  /\ RankedFit(g) \in Seq(X) /\ Len(RankedFit(g)) = Len(FitModels(g))
  /\ ToSet(FitModels(g)) = X \cap FittingIn(g)
  /\ ToSet(RankedFit(g)) = X \cap FittingIn(g)
  /\ \A a, b \in X : a.id = b.id => a = b

\* The models that fit are ranked well.
LEMMA RankedFitIs ==
  ASSUME NEW C, NEW P, NEW M, NEW g \in AnyRecommendable(C, P, M)
  PROVE  WellRanked(g, ToSet(g.entries), BeforeIn(g, ToSet(g.entries)))
<1> DEFINE s == g.entries
           X == ToSet(s)
           W == BeforeIn(g, X)
           F == FittingIn(g)
           fit == FitModels(g)
           r == RankedFit(g)
<1>1. s \in Seq(AnyModel(C, P, M)) /\ \A i, j \in 1..Len(s) : i # j => s[i].id # s[j].id
  BY DEF AnyRecommendable, Different
<1> HIDE DEF s
<1>2. Len(s) \in Nat /\ DOMAIN s = 1..Len(s) /\ X \subseteq AnyModel(C, P, M)
  BY <1>1 DEF ToSet
<1>3. \A a, b \in X : a.id = b.id => a = b
  BY <1>1, <1>2 DEF ToSet
<1>4. s \in Seq(X)
  <2>1. s \in [1..Len(s) -> X]
    <3>1. s = [i \in 1..Len(s) |-> s[i]]
      BY <1>1
    <3>2. \A i \in 1..Len(s) : s[i] \in X
      BY <1>2 DEF ToSet
    <3>3. QED BY <3>1, <3>2
  <2>2. QED BY <1>2, <2>1, SeqDef
<1> HIDE DEF X
<1>5. Weak(W, X) /\ \A a, b \in X : a # b => <<a, b>> \in W \/ <<b, a>> \in W
  BY <1>2, <1>3, BeforeIsOrder
<1> HIDE DEF W
<1>6. fit = Kept(s, F)
  BY DEF FitModels, s
<1> HIDE DEF F, fit
<1>7. fit \in Seq(X) /\ ToSet(fit) = X \cap F
  <2>1. fit \in Seq(X) /\ ToSet(fit) = ToSet(s) \cap F
    BY <1>4, <1>6, KeptIs
  <2>2. QED BY <2>1 DEF X
<1>8. AllDiffer(fit, W)
  <2>1. PICK k : IsSelection(k, fit, s, Len(s), F)
    BY <1>4, <1>6, KeptSelects
  <2>2. /\ k \in [1..Len(fit) -> 1..Len(s)]
        /\ \A i \in 1..Len(fit) : fit[i] = s[k[i]] /\ s[k[i]] \in F
        /\ \A i, j \in 1..Len(fit) : i < j => k[i] < k[j]
    BY <2>1 DEF IsSelection
  <2>3. ASSUME NEW i \in 1..Len(fit), NEW j \in 1..Len(fit), i # j PROVE fit[i] # fit[j]
    <3>1. k[i] # k[j]
      <4>1. i < j \/ j < i
        BY <1>7, <2>3
      <4>2. k[i] < k[j] \/ k[j] < k[i]
        BY <2>2, <4>1
      <4>3. k[i] \in 1..Len(s) /\ k[j] \in 1..Len(s)
        BY <2>2
      <4>4. QED BY <1>2, <4>2, <4>3
    <3>2. s[k[i]].id # s[k[j]].id
      BY <1>1, <2>2, <3>1
    <3>3. QED BY <2>2, <3>2
  <2>4. \A i \in 1..Len(fit) : fit[i] \in X
    BY <1>7
  <2>5. QED BY <1>5, <2>3, <2>4 DEF AllDiffer
<1>9. r = Ranked(fit, By(fit, W))
  <2>1. \A i \in DOMAIN fit : fit[i] \in X
    BY <1>7
  <2>2. \A p \in (DOMAIN fit) \X (DOMAIN fit) :
           /\ <<fit[p[1]], fit[p[2]]>> \in W <=> Before(fit[p[1]], fit[p[2]], g)
           /\ <<fit[p[2]], fit[p[1]]>> \in W <=> Before(fit[p[2]], fit[p[1]], g)
    BY <2>1 DEF W, BeforeIn
  <2>3. By(fit, W) = {p \in (DOMAIN fit) \X (DOMAIN fit) :
                        \/ Before(fit[p[1]], fit[p[2]], g)
                        \/ p[1] < p[2] /\ ~Before(fit[p[2]], fit[p[1]], g)}
    BY <2>2 DEF By
  <2>4. r = Ranked(fit, {p \in (DOMAIN fit) \X (DOMAIN fit) :
                           \/ Before(fit[p[1]], fit[p[2]], g)
                           \/ p[1] < p[2] /\ ~Before(fit[p[2]], fit[p[1]], g)})
    BY DEF RankedFit, Sorted, fit
  <2>5. QED BY <2>3, <2>4
<1> HIDE DEF r
<1>10. r \in Seq(X) /\ \E p : IsSort(r, fit, W, p)
  BY <1>5, <1>7, <1>9, SortedIs
<1>11. Len(r) = Len(fit) /\ ToSet(r) = ToSet(fit)
  BY <1>10 DEF IsSort
<1>12. WellRanked(g, X, W)
  BY <1>3, <1>5, <1>7, <1>8, <1>9, <1>10, <1>11 DEF WellRanked, X, W, F, fit, r, s
<1>13. QED BY <1>12 DEF X, W, s

\* A choice is that of a model, and there is one unless there is nothing to choose from.
LEMMA ChoicesAre ==
  ASSUME NEW C, NEW P, NEW M, NEW X, X \subseteq AnyModel(C, P, M), NEW r \in Seq(X)
  PROVE  LET ids == {e.id : e \in ToSet(r)}
             top == BestPart(r, Len(r))
         IN /\ r = <<>> => FirstId(r) = Nil /\ Balanced(top) = Nil
            /\ r # <<>> => FirstId(r) \in ids /\ Balanced(top) \in ids
            /\ FirstId(LightModels(r)) \in ids \cup {Nil}
<1> DEFINE ids == {e.id : e \in ToSet(r)}
           top == BestPart(r, Len(r))
           l == LightModels(r)
           S == {x \in {r[i] : i \in DOMAIN r} : x.size <= 5000}
<1>1. top \in Seq(X) /\ ToSet(top) \subseteq ToSet(r) /\ (top = <<>> <=> r = <<>>)
  BY BestPartIs
<1>2. l \in Seq(X) /\ ToSet(l) \subseteq ToSet(r)
  <2>1. l = Kept(r, S)
    BY DEF LightModels
  <2> HIDE DEF l, S
  <2>2. l \in Seq(X) /\ ToSet(l) = ToSet(r) \cap S
    BY <2>1, KeptIs
  <2>3. QED BY <2>2
<1> HIDE DEF top, l
<1>3. \A s \in Seq(X) : s # <<>> => s[1] \in ToSet(s) /\ Len(s) \in Nat /\ Len(s) >= 1
  <2>1. ASSUME NEW s \in Seq(X), s # <<>> PROVE s[1] \in ToSet(s) /\ Len(s) \in Nat /\ Len(s) >= 1
    <3>1. Len(s) \in Nat /\ Len(s) # 0 /\ DOMAIN s = 1..Len(s)
      BY <2>1
    <3>2. 1 \in DOMAIN s
      BY <3>1
    <3>3. QED BY <3>1, <3>2 DEF ToSet
  <2>2. QED BY <2>1
<1>4. r # <<>> => FirstId(r) \in ids
  <2> SUFFICES ASSUME r # <<>> PROVE FirstId(r) \in ids
    OBVIOUS
  <2>1. r[1] \in ToSet(r)
    BY <1>3
  <2>2. FirstId(r) = r[1].id
    BY DEF FirstId
  <2>3. QED BY <2>1, <2>2
<1>5. r # <<>> => Balanced(top) \in ids
  <2> SUFFICES ASSUME r # <<>> PROVE Balanced(top) \in ids
    OBVIOUS
  <2> DEFINE k == Len(top)
             j == k \div 2 + 1
  <2>1. top # <<>> /\ k \in Nat /\ k >= 1 /\ DOMAIN top = 1..k
    BY <1>1, <1>3
  <2>2. Balanced(top) = top[j].id
    BY <2>1 DEF Balanced
  <2> HIDE DEF k
  <2>3. j \in 1..k
    BY <2>1
  <2> HIDE DEF j
  <2>4. top[j] \in ToSet(r)
    BY <1>1, <2>1, <2>3 DEF ToSet
  <2>5. QED BY <2>2, <2>4
<1>6. FirstId(l) \in ids \cup {Nil}
  <2>1. CASE l = <<>>
    BY <2>1 DEF FirstId
  <2>2. CASE l # <<>>
    <3>1. l[1] \in ToSet(r)
      BY <1>2, <1>3, <2>2
    <3>2. FirstId(l) = l[1].id
      BY <2>2 DEF FirstId
    <3>3. QED BY <3>1, <3>2
  <2>3. QED BY <2>1, <2>2
<1>7. r = <<>> => FirstId(r) = Nil /\ Balanced(top) = Nil
  BY <1>1 DEF FirstId, Balanced
<1>8. QED BY <1>4, <1>5, <1>6, <1>7 DEF top, l

\* The models that are excluded.
LEMMA ExcludedIds ==
  ASSUME NEW g
  PROVE  {x[1] : x \in ExcludedOf(g)} = {e.id : e \in {x \in Elements(g.entries) : Reason(x, g.host) # "none"}}
<1> DEFINE E == {x \in Elements(g.entries) : Reason(x, g.host) # "none"}
           p(e) == <<e.id, Reason(e, g.host)>>
<1>1. ExcludedOf(g) = {p(e) : e \in E}
  BY DEF ExcludedOf
<1>2. \A e : p(e)[1] = e.id
  OBVIOUS
<1> HIDE DEF E, p
<1>3. {x[1] : x \in {p(e) : e \in E}} = {e.id : e \in E}
  BY <1>2
<1>4. QED BY <1>1, <1>3 DEF E

\* The choices do not depend on the order of the entries, none is a model that was
\* excluded, there is one if a model fits, and 12 GB on the card and 32 GB exclude
\* nothing that less does not, whatever the catalogue: Recommend keeps what
\* SoundRecommendation promises.
THEOREM RecommendationIsSound ==
  ASSUME NEW C, NEW P, NEW M, NEW g \in AnyRecommendable(C, P, M)
  PROVE  SoundRecommendation(g, Recommend(g))
<1> DEFINE s == g.entries
           rev == Reverse(s)
           h == [g EXCEPT !.entries = Reverse(@)]
           big == [vram |-> 12000, ram |-> 32000]
           m == [g EXCEPT !.host = [vram |-> 12000, ram |-> 32000]]
           a == Recommend(g)
           b == Recommend(h)
           X == ToSet(s)
           W == BeforeIn(g, X)
           r == RankedFit(g)
           out == {x[1] : x \in a.excluded}
<1>1. /\ s \in Seq(AnyModel(C, P, M)) /\ \A i, j \in 1..Len(s) : i # j => s[i].id # s[j].id
      /\ g.host.vram \in Int /\ g.host.vram <= 12000 /\ g.host.ram \in Int /\ g.host.ram <= 32000
  BY DEF AnyRecommendable, Different, AnyHost
<1> HIDE DEF s
<1>2. /\ rev \in Seq(AnyModel(C, P, M)) /\ Len(rev) = Len(s) /\ ToSet(rev) = ToSet(s)
      /\ \A i \in 1..Len(s) : rev[i] = s[Len(s) - i + 1] /\ Len(s) - i + 1 \in 1..Len(s)
  BY <1>1, Backwards
<1> HIDE DEF rev
<1>3. Different(rev)
  <2>1. ASSUME NEW i \in 1..Len(rev), NEW j \in 1..Len(rev), i # j PROVE rev[i].id # rev[j].id
    <3>1. Len(s) \in Nat
      BY <1>1
    <3>2. Len(s) - i + 1 # Len(s) - j + 1
      BY <1>2, <2>1, <3>1
    <3> DEFINE x == Len(s) - i + 1
               y == Len(s) - j + 1
    <3>3. x \in 1..Len(s) /\ y \in 1..Len(s) /\ x # y /\ rev[i] = s[x] /\ rev[j] = s[y]
      BY <1>2, <3>2
    <3> HIDE DEF x, y
    <3>4. QED BY <1>1, <3>3
  <2>2. QED BY <2>1 DEF Different
<1>4. h \in AnyRecommendable(C, P, M) /\ h.entries = rev /\ h.host = g.host /\ h.target = g.target /\ h.intent = g.intent
  <2> DEFINE E == {q \in Seq(AnyModel(C, P, M)) : Different(q)}
  <2>1. rev \in E
    BY <1>2, <1>3
  <2>2. AnyRecommendable(C, P, M) = [entries : E, host : AnyHost, target : C, intent : BOOLEAN]
    BY DEF AnyRecommendable
  <2>3. h = [g EXCEPT !.entries = rev]
    BY DEF rev, s
  <2> HIDE DEF E, h
  <2>4. g \in [entries : E, host : AnyHost, target : C, intent : BOOLEAN]
    BY <2>2
  <2>5. h \in [entries : E, host : AnyHost, target : C, intent : BOOLEAN]
    BY <2>1, <2>3, <2>4
  <2>6. h.entries = rev /\ h.host = g.host /\ h.target = g.target /\ h.intent = g.intent
    BY <2>3, <2>4
  <2>7. QED BY <2>2, <2>5, <2>6
<1> HIDE DEF h
<1>5. WellRanked(g, X, W)
  BY RankedFitIs DEF s
<1>6. WellRanked(h, X, W)
  <2>1. WellRanked(h, ToSet(h.entries), BeforeIn(h, ToSet(h.entries)))
    BY <1>4, RankedFitIs
  <2>2. ToSet(h.entries) = X
    BY <1>2, <1>4
  <2>3. \A x, y : Before(x, y, h) <=> Before(x, y, g)
    <3>1. \A x : Fitness(x, h) = Fitness(x, g)
      BY <1>4 DEF Fitness
    <3>2. \A x : KeyOf(x, h) = KeyOf(x, g)
      BY <3>1 DEF KeyOf
    <3>3. \A x, y, z : Before(x, y, z) <=>
            x # y /\ KeyOf(x, z)[FirstOther(KeyOf(x, z), KeyOf(y, z))] < KeyOf(y, z)[FirstOther(KeyOf(x, z), KeyOf(y, z))]
      BY DEF Before, KeyOf, FirstOther
    <3>4. QED BY <3>2, <3>3
  <2>4. BeforeIn(h, X) = W
    BY <2>3 DEF BeforeIn
  <2>5. QED BY <2>1, <2>2, <2>4
<1>7. X \subseteq AnyModel(C, P, M)
  BY <1>1 DEF ToSet
<1> HIDE DEF X, W
<1>8. /\ r \in Seq(X) /\ Len(r) = Len(FitModels(g)) /\ ToSet(r) = X \cap FittingIn(g)
      /\ \A x, y \in X : x.id = y.id => x = y
  BY <1>5 DEF WellRanked
<1>9. RankedFit(h) = r /\ Len(FitModels(h)) = Len(r)
  <2> DEFINE u == FitModels(g)
             v == FitModels(h)
  <2>1. /\ Weak(W, X) /\ u \in Seq(X) /\ AllDiffer(u, W) /\ ToSet(u) = X \cap FittingIn(g)
        /\ r = Ranked(u, By(u, W))
    BY <1>5, Zenon DEF WellRanked
  <2>2. /\ v \in Seq(X) /\ AllDiffer(v, W) /\ ToSet(v) = X \cap FittingIn(h)
        /\ RankedFit(h) = Ranked(v, By(v, W)) /\ Len(RankedFit(h)) = Len(v)
    BY <1>6, Zenon DEF WellRanked
  <2>3. X \cap FittingIn(h) = X \cap FittingIn(g)
    <3>1. {h.entries[i] : i \in DOMAIN h.entries} = {g.entries[i] : i \in DOMAIN g.entries}
      BY <1>2, <1>4 DEF ToSet, s
    <3>2. FittingIn(h) = FittingIn(g)
      BY <1>4, <3>1 DEF FittingIn
    <3>3. QED BY <3>2
  <2> HIDE DEF u, v, r
  <2>4. Ranked(u, By(u, W)) = Ranked(v, By(v, W))
    BY <2>1, <2>2, <2>3, SortsAlike
  <2>5. Len(Ranked(v, By(v, W))) = Len(v)
    BY <2>2
  <2>6. QED BY <2>1, <2>2, <2>4, <2>5, Zenon DEF v
<1>10. /\ a.best = FirstId(r) /\ a.balanced = Balanced(BestPart(r, Len(r)))
       /\ a.light = FirstId(LightModels(r)) /\ a.excluded = ExcludedOf(g)
       /\ a = [best |-> a.best, balanced |-> a.balanced, light |-> a.light, fallback |-> a.fallback,
               excluded |-> a.excluded]
  <2> HIDE DEF r
  <2>1. QED BY <1>8, RecommendIs DEF r
<1>11. /\ b.best = FirstId(r) /\ b.balanced = Balanced(BestPart(r, Len(r)))
       /\ b.light = FirstId(LightModels(r)) /\ b.excluded = ExcludedOf(h)
       /\ b = [best |-> b.best, balanced |-> b.balanced, light |-> b.light, fallback |-> b.fallback,
               excluded |-> b.excluded]
  <2> HIDE DEF r
  <2>1. QED BY <1>9, RecommendIs
<1>12. ExcludedOf(h) = ExcludedOf(g)
  <2>1. Elements(h.entries) = Elements(g.entries)
    BY <1>2, <1>4 DEF ToSet, Elements, s
  <2>2. QED BY <1>4, <2>1 DEF ExcludedOf
<1> HIDE DEF a, b, r
<1>13. [b EXCEPT !.fallback = 0] = [a EXCEPT !.fallback = 0]
  <2>1. b.best = a.best /\ b.balanced = a.balanced /\ b.light = a.light /\ b.excluded = a.excluded
    BY <1>10, <1>11, <1>12
  <2> DEFINE p == a.best
             q == a.balanced
             l == a.light
             e == a.excluded
             x == a.fallback
             y == b.fallback
  <2>2. /\ a = [best |-> p, balanced |-> q, light |-> l, fallback |-> x, excluded |-> e]
        /\ b = [best |-> p, balanced |-> q, light |-> l, fallback |-> y, excluded |-> e]
    BY <1>10, <1>11, <2>1
  <2> HIDE DEF p, q, l, e, x, y
  <2>3. QED BY <2>2
<1> DEFINE fit == {e.id : e \in Elements(s)} \ out
<1>14. fit = {e.id : e \in ToSet(r)}
  <2>1. Elements(s) = X
    BY DEF Elements, X, ToSet
  <2>2. \A e \in X : e \in FittingIn(g) <=> Reason(e, g.host) = "none"
    BY DEF FittingIn, X, ToSet, s
  <2>3. out = {e.id : e \in {x \in X : Reason(x, g.host) # "none"}}
    <3>1. out = {x[1] : x \in ExcludedOf(g)}
      BY <1>10
    <3>2. Elements(g.entries) = X
      BY <2>1 DEF s
    <3> HIDE DEF out
    <3>3. QED BY <3>1, <3>2, ExcludedIds
  <2> HIDE DEF out
  <2>4. QED BY <1>8, <2>1, <2>2, <2>3
<1>15. /\ r = <<>> => FirstId(r) = Nil /\ Balanced(BestPart(r, Len(r))) = Nil
       /\ r # <<>> => FirstId(r) \in fit /\ Balanced(BestPart(r, Len(r))) \in fit
       /\ FirstId(LightModels(r)) \in fit \cup {Nil}
  <2> HIDE DEF fit
  <2>1. QED BY <1>7, <1>8, <1>14, ChoicesAre
<1>16. fit = {} <=> r = <<>>
  <2> HIDE DEF fit
  <2>1. r = <<>> => ToSet(r) = {}
    BY DEF ToSet
  <2>2. r # <<>> => FirstId(r) \in fit
    BY <1>15
  <2>3. QED BY <1>14, <2>1, <2>2
<1> HIDE DEF out, fit
<1>17. {a.best, a.balanced} \subseteq (IF fit = {} THEN {Nil} ELSE fit)
  BY <1>10, <1>15, <1>16
<1>18. a.light \in fit \cup {Nil}
  BY <1>10, <1>15
<1>19. {x[1] : x \in Recommend(m).excluded} \subseteq out
  <2>1. Recommend(m).excluded = ExcludedOf(m)
    BY RecommendIs
  <2>2. m.entries = s /\ m.host.vram = 12000 /\ m.host.ram = 32000
    BY DEF AnyRecommendable, s
  <2> HIDE DEF m
  <2>3. ASSUME NEW e \in X, Reason(e, m.host) # "none" PROVE Reason(e, g.host) # "none"
    <3>1. e.minV \in Int /\ e.minR \in Int
      BY <1>7 DEF AnyModel
    <3>2. QED BY <1>1, <2>2, <2>3, <3>1 DEF Reason
  <2>4. Elements(s) = X
    BY DEF Elements, X, ToSet
  <2>5. {x[1] : x \in ExcludedOf(m)} = {e.id : e \in {x \in X : Reason(x, m.host) # "none"}}
    <3>1. Elements(m.entries) = X
      BY <2>2, <2>4
    <3>2. QED BY <3>1, ExcludedIds
  <2>6. out = {e.id : e \in {x \in X : Reason(x, g.host) # "none"}}
    <3>1. out = {x[1] : x \in ExcludedOf(g)}
      BY <1>10 DEF out
    <3>2. Elements(g.entries) = X
      BY <2>4 DEF s
    <3>3. QED BY <3>1, <3>2, ExcludedIds
  <2>7. QED BY <2>1, <2>3, <2>5, <2>6
<1>20. SoundRecommendation(g, a)
  <2>1. SoundRecommendation(g, a) <=>
          /\ [b EXCEPT !.fallback = 0] = [a EXCEPT !.fallback = 0]
          /\ {a.best, a.balanced} \subseteq (IF fit = {} THEN {Nil} ELSE fit)
          /\ a.light \in fit \cup {Nil}
          /\ {x[1] : x \in Recommend(m).excluded} \subseteq out
    <3> USE DEF b, h, m, fit, out, s
    <3>1. QED BY DEF SoundRecommendation
  <2> HIDE DEF m
  <2>2. QED BY <1>13, <1>17, <1>18, <1>19, <2>1
<1>21. QED BY <1>20 DEF a

-----------------------------------------------------------------------------
\* gpus: any cards, each at a place of its own on the bus.
Apart(s) == \A i, j \in 1..Len(s) : s[i].pci = s[j].pci => s[i] = s[j]
AnyProbeable(B, V) ==
  [cards : {s \in Seq(AnyCard(B, V)) : Apart(s)}, platform : {"windows", "linux"},
   nvml : {"none", "same", "reversed"}, sizes : BOOLEAN, dxgi : BOOLEAN, vulkan : BOOLEAN]
FirstOpen(l) == IF OpenPlaces(l) = {} THEN 0 ELSE Min(OpenPlaces(l))
Filled(l, o, c) == [l EXCEPT ![o] = [pci |-> c.pci, vendor |-> l[o].vendor, mem |-> IF l[o].mem = Nil THEN c.mem ELSE l[o].mem]]
IsListed(l, c) == \E x \in Elements(l) : x.vendor = "nvidia" /\ x.pci = c.pci
IsAdded(l, c) ==
  /\ c.vendor # "nvidia" => AddCard(l, c) = Append(l, c)
  /\ c.vendor = "nvidia" /\ OpenPlaces(l) # {} =>
       FirstOpen(l) \in OpenPlaces(l) /\ AddCard(l, c) = Filled(l, FirstOpen(l), c)
  /\ c.vendor = "nvidia" /\ OpenPlaces(l) = {} =>
       AddCard(l, c) = IF IsListed(l, c) THEN l ELSE Append(l, c)

\* AddCard appends a card, fills one in, or leaves the list.
LEMMA AddCardIs ==
  ASSUME NEW B, NEW V, NEW l \in Seq(ListedCard(B, V)), NEW c \in ListedCard(B, V)
  PROVE  IsAdded(l, c) /\ AddCard(l, c) \in Seq(ListedCard(B, V))
<1> DEFINE n == Len(l)
           k == FirstOpen(l)
           P == OpenPlaces(l)
<1>1. n \in Nat /\ DOMAIN l = 1..n /\ \A i \in 1..n : l[i] \in ListedCard(B, V)
  OBVIOUS
<1>2. P \in SUBSET (1..n)
  BY <1>1 DEF OpenPlaces
<1>3. k = IF P = {} THEN 0 ELSE Min(P)
  BY DEF FirstOpen
<1>4. AddCard(l, c) = IF c.vendor # "nvidia" THEN Append(l, c)
        ELSE IF k # 0 THEN [l EXCEPT ![k].pci = c.pci, ![k].mem = IF @ = Nil THEN c.mem ELSE @]
        ELSE IF IsListed(l, c) THEN l ELSE Append(l, c)
  BY DEF AddCard, FirstWhere, FirstOpen, OpenPlaces, IsListed
<1> HIDE DEF k, P, n
<1>5. P # {} => k \in P /\ k \in 1..n /\ k # 0
  <2> SUFFICES ASSUME P # {} PROVE k \in P /\ k \in 1..n /\ k # 0
    OBVIOUS
  <2>1. P \in SUBSET Nat
    BY <1>1, <1>2
  <2>2. Min(P) \in P
    BY <2>1, LeastIs
  <2>3. k = Min(P)
    BY <1>3
  <2>4. k \in P /\ k \in 1..n
    BY <1>2, <2>2, <2>3
  <2>5. QED BY <1>1, <2>4
<1>6. k # 0 => k \in P /\ k \in 1..n
  BY <1>3, <1>5
<1>7. ASSUME k # 0
      PROVE  /\ [l EXCEPT ![k].pci = c.pci, ![k].mem = IF @ = Nil THEN c.mem ELSE @] = Filled(l, k, c)
             /\ Filled(l, k, c) \in Seq(ListedCard(B, V))
  <2> DEFINE x == l[k]
             y == [pci |-> c.pci, vendor |-> x.vendor, mem |-> IF x.mem = Nil THEN c.mem ELSE x.mem]
  <2>1. k \in 1..n /\ x \in ListedCard(B, V)
    BY <1>1, <1>6, <1>7
  <2>2. [l EXCEPT ![k].pci = c.pci, ![k].mem = IF @ = Nil THEN c.mem ELSE @]
          = [l EXCEPT ![k] = [[x EXCEPT !.pci = c.pci] EXCEPT !.mem = IF @ = Nil THEN c.mem ELSE @]]
    BY <1>1, <2>1
  <2>3. [[x EXCEPT !.pci = c.pci] EXCEPT !.mem = IF @ = Nil THEN c.mem ELSE @] = y
    <3> DEFINE p == x.pci
               v == x.vendor
               m == x.mem
               r == c.pci
               w == c.mem
    <3>1. x = [pci |-> p, vendor |-> v, mem |-> m]
      BY <2>1 DEF ListedCard
    <3>2. y = [pci |-> r, vendor |-> v, mem |-> IF m = Nil THEN w ELSE m]
      OBVIOUS
    <3> HIDE DEF p, v, m, y
    <3>3. [x EXCEPT !.pci = r] = [pci |-> r, vendor |-> v, mem |-> m]
      BY <3>1
    <3> DEFINE z == [pci |-> r, vendor |-> v, mem |-> m]
               q == IF m = Nil THEN w ELSE m
    <3>4. z.mem = m /\ [z EXCEPT !.mem = q] = [pci |-> r, vendor |-> v, mem |-> q]
      <4> HIDE DEF r, q
      <4>1. QED OBVIOUS
    <3> HIDE DEF z
    <3>5. [z EXCEPT !.mem = IF @ = Nil THEN w ELSE @] = [z EXCEPT !.mem = q]
      BY <3>4
    <3>6. [z EXCEPT !.mem = IF @ = Nil THEN w ELSE @] = y
      BY <3>2, <3>4, <3>5
    <3>7. QED BY <3>3, <3>6 DEF z
  <2>4. y \in ListedCard(B, V)
    BY <2>1 DEF ListedCard
  <2> HIDE DEF y
  <2>5. [l EXCEPT ![k] = y] \in Seq(ListedCard(B, V))
    <3>1. l \in [1..n -> ListedCard(B, V)]
      BY <1>1
    <3>2. [l EXCEPT ![k] = y] \in [1..n -> ListedCard(B, V)]
      BY <2>1, <2>4, <3>1
    <3>3. QED BY <1>1, <3>2, SeqDef
  <2>6. Filled(l, k, c) = [l EXCEPT ![k] = y]
    BY DEF Filled, y
  <2>7. QED BY <2>2, <2>3, <2>5, <2>6
<1>8. Append(l, c) \in Seq(ListedCard(B, V))
  OBVIOUS
<1>9. k = 0 <=> P = {}
  BY <1>3, <1>5
<1>10. AddCard(l, c) \in Seq(ListedCard(B, V))
  BY <1>4, <1>7, <1>8
<1>11. QED BY <1>4, <1>5, <1>6, <1>7, <1>9, <1>10 DEF IsAdded, k, P, n

\* The list of cards grows from card to card.
AddedCards(l, c) == FoldLeft(AddCard, l, c)
AddsCards(f, l, c, L) ==
  /\ f \in [0..Len(c) -> Seq(L)] /\ f[0] = l
  /\ \A i \in 1..Len(c) : f[i] = AddCard(f[i-1], c[i])
  /\ AddedCards(l, c) = f[Len(c)]

\* There is such a list.
LEMMA CardsAreAdded ==
  ASSUME NEW B, NEW V, NEW l_ \in Seq(ListedCard(B, V)), NEW c_ \in Seq(ListedCard(B, V))
  PROVE  \E f : AddsCards(f, l_, c_, ListedCard(B, V))
<1> DEFINE n == Len(c_)
           T == Seq(ListedCard(B, V))
           a == l_
           step == [i \in 1..n |-> [t \in T |-> AddCard(t, c_[i])]]
           body(j) == [u \in SUBSET (1..n) |->
                         IF u = {} THEN a ELSE AddCard(j[u \ {Max(u)}], c_[Max(u)])]
<1>1. n \in Nat /\ DOMAIN c_ = 1..n
  OBVIOUS
<1>2. a \in T /\ \A i \in 1..n, t \in T : AddCard(t, c_[i]) \in T
  <2>1. a \in T /\ \A i \in 1..n : c_[i] \in ListedCard(B, V)
    OBVIOUS
  <2> HIDE DEF n
  <2>2. \A i \in 1..n, t \in T : AddCard(t, c_[i]) \in T
    BY <2>1, AddCardIs
  <2>3. QED BY <2>1, <2>2
<1>3. AddedCards(l_, c_) = (CHOOSE j : j = body(j))[1..n]
  BY <1>1 DEF AddedCards, FoldLeft, MapThenFoldSet
<1>4. AreSteps(step, n, T) /\ \A i \in 1..n, t \in T : step[i][t] = AddCard(t, c_[i])
  BY <1>2 DEF AreSteps
<1> HIDE DEF step, n, T, a
<1>5. \E j : j = body(j)
  <2>1. PICK it : it \in [SUBSET (1..n) -> T] /\ IsFold(it, n, T, a, step)
    BY <1>1, <1>2, <1>4, FoldExists, Zenon
  <2>2. \A u \in SUBSET (1..n) : it[u] = body(it)[u]
    BY <1>1, <1>4, <2>1 DEF IsFold
  <2> HIDE DEF body
  <2>3. it = body(it)
    BY <2>1, <2>2, Zenon DEF body
  <2>4. QED BY <2>3, Zenon
<1>6. PICK j : j = body(j) /\ AddedCards(l_, c_) = j[1..n]
  BY <1>3, <1>5
<1>7. \A u \in SUBSET (1..n) : j[u] = IF u = {} THEN a ELSE AddCard(j[u \ {Max(u)}], c_[Max(u)])
  BY <1>6
<1>8. j[{}] = a /\ \A i \in 1..n : j[1..i] = AddCard(j[1..(i-1)], c_[i])
  BY <1>1, <1>7, PrefixIs
<1>9. \A i \in 1..n : j[1..(i-1)] \in T => j[1..i] = step[i][j[1..(i-1)]]
  BY <1>4, <1>8
<1>10. PICK f : TakesSteps(f, n, T, a, step) /\ f[n] = j[1..n]
  BY <1>1, <1>2, <1>4, <1>8, <1>9, FoldTakesSteps
<1>11. f \in [0..n -> T] /\ f[0] = a /\ \A i \in 1..n : f[i] = AddCard(f[i-1], c_[i])
  BY <1>1, <1>4, <1>10, StepsAreTaken
<1>12. AddsCards(f, l_, c_, ListedCard(B, V))
  BY <1>6, <1>10, <1>11 DEF AddsCards, n, T, a
<1>13. QED BY <1>12

\* AddAmd appends a card or leaves the list.
LEMMA AddAmdIs ==
  ASSUME NEW B, NEW V, NEW l \in Seq(ListedCard(B, V)), NEW c \in ListedCard(B, V)
  PROVE  AddAmd(l, c) \in Seq(ListedCard(B, V))
<1>1. Append(l, c) \in Seq(ListedCard(B, V))
  OBVIOUS
<1>2. QED BY <1>1 DEF AddAmd

\* The cards of the AMD driver, card by card.
AddedAmd(l, c) == FoldLeft(AddAmd, l, c)
AddsAmd(f, l, c, L) ==
  /\ f \in [0..Len(c) -> Seq(L)] /\ f[0] = l
  /\ \A i \in 1..Len(c) : f[i] = AddAmd(f[i-1], c[i])
  /\ AddedAmd(l, c) = f[Len(c)]

\* There is such a list.
LEMMA AmdAreAdded ==
  ASSUME NEW B, NEW V, NEW l_ \in Seq(ListedCard(B, V)), NEW c_ \in Seq(ListedCard(B, V))
  PROVE  \E f : AddsAmd(f, l_, c_, ListedCard(B, V))
<1> DEFINE n == Len(c_)
           T == Seq(ListedCard(B, V))
           a == l_
           step == [i \in 1..n |-> [t \in T |-> AddAmd(t, c_[i])]]
           body(j) == [u \in SUBSET (1..n) |->
                         IF u = {} THEN a ELSE AddAmd(j[u \ {Max(u)}], c_[Max(u)])]
<1>1. n \in Nat /\ DOMAIN c_ = 1..n
  OBVIOUS
<1>2. a \in T /\ \A i \in 1..n, t \in T : AddAmd(t, c_[i]) \in T
  <2>1. a \in T /\ \A i \in 1..n : c_[i] \in ListedCard(B, V)
    OBVIOUS
  <2> HIDE DEF n
  <2>2. \A i \in 1..n, t \in T : AddAmd(t, c_[i]) \in T
    BY <2>1, AddAmdIs
  <2>3. QED BY <2>1, <2>2
<1>3. AddedAmd(l_, c_) = (CHOOSE j : j = body(j))[1..n]
  BY <1>1 DEF AddedAmd, FoldLeft, MapThenFoldSet
<1>4. AreSteps(step, n, T) /\ \A i \in 1..n, t \in T : step[i][t] = AddAmd(t, c_[i])
  BY <1>2 DEF AreSteps
<1> HIDE DEF step, n, T, a
<1>5. \E j : j = body(j)
  <2>1. PICK it : it \in [SUBSET (1..n) -> T] /\ IsFold(it, n, T, a, step)
    BY <1>1, <1>2, <1>4, FoldExists, Zenon
  <2>2. \A u \in SUBSET (1..n) : it[u] = body(it)[u]
    BY <1>1, <1>4, <2>1 DEF IsFold
  <2> HIDE DEF body
  <2>3. it = body(it)
    BY <2>1, <2>2, Zenon DEF body
  <2>4. QED BY <2>3, Zenon
<1>6. PICK j : j = body(j) /\ AddedAmd(l_, c_) = j[1..n]
  BY <1>3, <1>5
<1>7. \A u \in SUBSET (1..n) : j[u] = IF u = {} THEN a ELSE AddAmd(j[u \ {Max(u)}], c_[Max(u)])
  BY <1>6
<1>8. j[{}] = a /\ \A i \in 1..n : j[1..i] = AddAmd(j[1..(i-1)], c_[i])
  BY <1>1, <1>7, PrefixIs
<1>9. \A i \in 1..n : j[1..(i-1)] \in T => j[1..i] = step[i][j[1..(i-1)]]
  BY <1>4, <1>8
<1>10. PICK f : TakesSteps(f, n, T, a, step) /\ f[n] = j[1..n]
  BY <1>1, <1>2, <1>4, <1>8, <1>9, FoldTakesSteps
<1>11. f \in [0..n -> T] /\ f[0] = a /\ \A i \in 1..n : f[i] = AddAmd(f[i-1], c_[i])
  BY <1>1, <1>4, <1>10, StepsAreTaken
<1>12. AddsAmd(f, l_, c_, ListedCard(B, V))
  BY <1>6, <1>10, <1>11 DEF AddsAmd, n, T, a
<1>13. QED BY <1>12

\* They are numbers, and of finitely many places.
LEMMA NumsAre ==
  ASSUME NEW L, NEW l \in Seq(L), NEW v
  PROVE  /\ CardsOf(l, v) \in SUBSET (1..Len(l)) /\ IsFiniteSet(CardsOf(l, v)) /\ Num(l, v) \in Nat
         /\ OpenPlaces(l) \in SUBSET (1..Len(l)) /\ IsFiniteSet(OpenPlaces(l)) /\ NumOpen(l) \in Nat
         /\ Num(l, v) = Len(ByVendor(l, v))
<1> DEFINE n == Len(l)
<1>1. n \in Nat /\ DOMAIN l = 1..n
  OBVIOUS
<1>2. CardsOf(l, v) \in SUBSET (1..n) /\ OpenPlaces(l) \in SUBSET (1..n)
  BY <1>1 DEF CardsOf, OpenPlaces
<1>3. Num(l, v) = Len(ByVendor(l, v))
  <2> DEFINE S == {x \in {l[i] : i \in DOMAIN l} : x.vendor = v}
             Q == {i \in 1..Len(l) : l[i] \in S}
  <2>1. Len(Kept(l, S)) = Cardinality(Q)
    <3> HIDE DEF S
    <3>1. QED BY KeptCounts
  <2>2. Q = CardsOf(l, v)
    BY <1>1 DEF CardsOf
  <2>3. ByVendor(l, v) = Kept(l, S)
    BY DEF ByVendor, Where
  <2> HIDE DEF S, Q
  <2>4. QED BY <2>1, <2>2, <2>3 DEF Num
<1> HIDE DEF n
<1>4. IsFiniteSet(CardsOf(l, v)) /\ Num(l, v) \in Nat /\ IsFiniteSet(OpenPlaces(l)) /\ NumOpen(l) \in Nat
  BY <1>1, <1>2, PlacesAreFinite DEF Num, NumOpen
<1>5. QED BY <1>2, <1>3, <1>4 DEF n

\* One more card.
LEMMA NumsOfAppend ==
  ASSUME NEW L, NEW l \in Seq(L), NEW c \in L, NEW v
  PROVE  /\ Num(Append(l, c), v) = Num(l, v) + One(c.vendor = v)
         /\ c.pci # "none" => NumOpen(Append(l, c)) = NumOpen(l) /\ OpenPlaces(Append(l, c)) = OpenPlaces(l)
         /\ Mems(Append(l, c)) = Mems(l) \cup {c.mem}
<1> DEFINE n == Len(l)
           t == Append(l, c)
           A == CardsOf(l, v)
<1>1. n \in Nat /\ DOMAIN l = 1..n
  OBVIOUS
<1>2. /\ t \in Seq(L) /\ DOMAIN t = 1..(n+1) /\ Len(t) = n + 1 /\ t[n+1] = c
      /\ \A i \in 1..n : t[i] = l[i]
  OBVIOUS
<1>3. IsFiniteSet(A) /\ A \in SUBSET (1..n) /\ Num(l, v) \in Nat
  BY NumsAre
<1> HIDE DEF n, t, A
<1>4. Num(t, v) = Num(l, v) + One(c.vendor = v)
  <2>1. CASE c.vendor = v
    <3>1. CardsOf(t, v) = A \cup {n + 1}
      BY <1>1, <1>2, <2>1 DEF CardsOf, A
    <3>2. n + 1 \notin A
      BY <1>1, <1>3
    <3>3. Cardinality(A \cup {n + 1}) = Cardinality(A) + 1
      BY <1>3, <3>2, FS_AddElement
    <3>4. QED BY <2>1, <3>1, <3>3 DEF Num, One, A
  <2>2. CASE c.vendor # v
    <3>1. CardsOf(t, v) = A
      BY <1>1, <1>2, <2>2 DEF CardsOf, A
    <3>2. QED BY <1>3, <2>2, <3>1 DEF Num, One, A
  <2>3. QED BY <2>1, <2>2
<1>5. c.pci # "none" => OpenPlaces(t) = OpenPlaces(l)
  BY <1>1, <1>2 DEF OpenPlaces
<1>6. Mems(t) = Mems(l) \cup {c.mem}
  BY <1>1, <1>2 DEF Mems, n
<1>7. QED BY <1>4, <1>5, <1>6 DEF NumOpen, t

\* One card that is filled in.
FillsIn(t, l, o, c, v) ==
  /\ Len(t) = Len(l) /\ o \in 1..Len(l)
  /\ \A i \in 1..Len(l) : t[i].vendor = l[i].vendor /\ (i # o => t[i] = l[i])
  /\ t[o].mem = IF l[o].mem = Nil THEN c.mem ELSE l[o].mem
  /\ Num(t, v) = Num(l, v)
  /\ OpenPlaces(t) = OpenPlaces(l) \ {o}
  /\ NumOpen(t) = NumOpen(l) - 1 /\ NumOpen(l) \in Nat

\* It keeps the vendors, and one place less is open.
LEMMA NumsOfFilled ==
  ASSUME NEW L, NEW l \in Seq(L), NEW o \in OpenPlaces(l), NEW c, NEW v, c.pci # "none"
  PROVE  FillsIn(Filled(l, o, c), l, o, c, v)
<1> DEFINE n == Len(l)
           t == Filled(l, o, c)
           x == [pci |-> c.pci, vendor |-> l[o].vendor, mem |-> IF l[o].mem = Nil THEN c.mem ELSE l[o].mem]
           P == OpenPlaces(l)
<1>1. n \in Nat /\ DOMAIN l = 1..n
  OBVIOUS
<1>2. IsFiniteSet(P) /\ P \in SUBSET (1..n) /\ Cardinality(P) \in Nat
  BY NumsAre DEF NumOpen
<1>3. o \in 1..n
  BY <1>2
<1>4. x.pci = c.pci /\ x.vendor = l[o].vendor /\ x.mem = IF l[o].mem = Nil THEN c.mem ELSE l[o].mem
  OBVIOUS
<1> HIDE DEF x
<1>5. t = [l EXCEPT ![o] = x]
  BY DEF Filled, x
<1> HIDE DEF t
<1>6. DOMAIN t = 1..n /\ t[o] = x /\ \A i \in 1..n : i # o => t[i] = l[i]
  BY <1>1, <1>3, <1>5
<1>7. Len(t) = n
  <2>1. l \in [1..n -> L]
    OBVIOUS
  <2>2. t \in [1..n -> L \cup {x}]
    BY <1>3, <1>5, <2>1
  <2>3. QED BY <1>1, <2>2, LenProperties, SeqDef
<1>8. \A i \in 1..n : t[i].vendor = l[i].vendor
  BY <1>4, <1>6
<1>9. CardsOf(t, v) = CardsOf(l, v)
  BY <1>1, <1>6, <1>8 DEF CardsOf
<1>10. OpenPlaces(t) = P \ {o}
  BY <1>1, <1>4, <1>6, <1>8 DEF OpenPlaces
<1>11. Cardinality(P \ {o}) = Cardinality(P) - 1
  BY <1>2, FS_RemoveElement
<1>12. Num(t, v) = Num(l, v) /\ NumOpen(t) = NumOpen(l) - 1 /\ NumOpen(l) \in Nat
  BY <1>2, <1>9, <1>10, <1>11 DEF Num, NumOpen
<1>13. FillsIn(t, l, o, c, v)
  BY <1>3, <1>4, <1>6, <1>7, <1>8, <1>10, <1>12 DEF FillsIn, n
<1>14. QED BY <1>13 DEF t

\* A card that is not NVIDIA's.
LEMMA OtherAdded ==
  ASSUME NEW B, NEW V, NEW b, NEW d, Unlisted(b, d, B, V), NEW l \in Seq(ListedCard(B, V)),
         NEW i \in 1..Len(d), ListInv(l, b, d, i - 1), d[i].vendor # "nvidia"
  PROVE  ListInv(Append(l, d[i]), b, d, i)
<1> DEFINE n == Len(l)
           c == d[i]
           t == Append(l, c)
<1>1. /\ d \in Seq(ListedCard(B, V)) /\ c \in ListedCard(B, V) /\ c.pci # "none" /\ Len(d) \in Nat
      /\ c.mem \in Mems(d)
  BY DEF Unlisted, Mems
<1>2. /\ n \in Nat /\ DOMAIN t = 1..(n+1) /\ Len(t) = n + 1 /\ t[n+1] = c
      /\ \A k \in 1..n : t[k] = l[k]
  OBVIOUS
<1>3. /\ Num(t, "amd") = Num(l, "amd") + One(c.vendor = "amd")
      /\ Num(t, "nvidia") = Num(l, "nvidia") + One(c.vendor = "nvidia")
      /\ NumOpen(t) = NumOpen(l) /\ OpenPlaces(t) = OpenPlaces(l)
      /\ Mems(t) = Mems(l) \cup {c.mem}
  <2> HIDE DEF c
  <2>1. QED BY <1>1, NumsOfAppend
<1>4. /\ Count(d, "amd", i) = Count(d, "amd", i - 1) + One(c.vendor = "amd")
      /\ Count(d, "nvidia", i) = Count(d, "nvidia", i - 1) + One(c.vendor = "nvidia")
      /\ \A k \in 0..Len(d) : Count(d, "amd", k) \in Nat /\ Count(d, "nvidia", k) \in Nat
  <2>1. i \in 1..Len(d) /\ d \in Seq(ListedCard(B, V))
    BY <1>1
  <2>2. QED BY <2>1, CountsOf
<1>5. One(c.vendor = "nvidia") = 0 /\ One(c.vendor = "amd") \in {0, 1}
  BY DEF One
<1>6. Num(l, "amd") \in Nat /\ Num(l, "nvidia") \in Nat /\ OpenPlaces(l) \subseteq 1..n
  BY NumsAre
<1>7. i - 1 \in 0..Len(d) /\ 1..i = 1..(i-1) \cup {i} /\ i \in Nat
  BY <1>1
<1>8. ToldOf(t, b, d, i)
  <2>1. Num(t, "amd") <= Count(d, "amd", i)
    <3> DEFINE p == Num(l, "amd")
               q == Count(d, "amd", i - 1)
               o == One(c.vendor = "amd")
    <3>1. p <= q /\ p \in Nat /\ q \in Nat /\ o \in {0, 1}
      BY <1>4, <1>5, <1>6, <1>7 DEF ListInv, ToldOf
    <3>2. Num(t, "amd") = p + o /\ Count(d, "amd", i) = q + o
      BY <1>3, <1>4
    <3> HIDE DEF p, q, o, t, c
    <3>3. QED BY <3>1, <3>2
  <2> HIDE DEF c, t, n
  <2>2. \A m \in 1..i : d[m].mem \in Mems(t)
    BY <1>3, <1>7 DEF ListInv, ToldOf, c
  <2>3. Mems(t) \subseteq Mems(b) \cup Mems(d)
    BY <1>1, <1>3 DEF ListInv, ToldOf
  <2>4. QED BY <2>1, <2>2, <2>3 DEF ToldOf
<1>9. CASE Len(b) = 0
  <2>1. Unnamed(l, d, i - 1)
    BY <1>9 DEF ListInv
  <2>2. Num(t, "nvidia") <= Count(d, "nvidia", i)
    <3> DEFINE p == Num(l, "nvidia")
               q == Count(d, "nvidia", i - 1)
    <3>1. p <= q /\ p \in Nat /\ q \in Nat
      BY <2>1, <1>4, <1>6, <1>7 DEF Unnamed
    <3>2. Num(t, "nvidia") = p + 0 /\ Count(d, "nvidia", i) = q + 0
      BY <1>3, <1>4, <1>5
    <3> HIDE DEF p, q, t
    <3>3. QED BY <3>1, <3>2
  <2>3. ASSUME NEW k \in 1..Len(t), t[k].vendor = "nvidia" PROVE \E m \in 1..i : t[k] = d[m]
    <3>1. k \in 1..n /\ t[k] = l[k]
      BY <1>2, <2>3
    <3>2. PICK m \in 1..(i-1) : l[k] = d[m]
      BY <2>1, <2>3, <3>1 DEF Unnamed
    <3>3. m \in 1..i
      BY <1>7
    <3>4. QED BY <3>1, <3>2, <3>3
  <2> HIDE DEF t, c, n
  <2>4. Unnamed(t, d, i)
    BY <1>3, <2>1, <2>2, <2>3 DEF Unnamed
  <2>5. QED BY <1>8, <1>9, <2>4 DEF ListInv, t, c
<1>10. CASE Len(b) # 0
  <2>1. Named(l, b, d, i - 1)
    BY <1>10 DEF ListInv
  <2>2. Count(d, "nvidia", i) = Count(d, "nvidia", i - 1)
    BY <1>4, <1>5, <1>7
  <2>3. Num(t, "nvidia") = Num(l, "nvidia")
    BY <1>3, <1>5, <1>6
  <2>4. \A o \in OpenPlaces(l) : t[o] = l[o]
    BY <1>2, <1>6
  <2> HIDE DEF t, c, n
  <2>5. Named(t, b, d, i)
    BY <1>3, <2>1, <2>2, <2>3, <2>4 DEF Named
  <2>6. QED BY <1>8, <1>10, <2>5 DEF ListInv, t, c
<1>11. QED BY <1>9, <1>10

\* A card of NVIDIA's whose place is not known yet.
LEMMA FilledAdded ==
  ASSUME NEW B, NEW V, NEW b, NEW d, Unlisted(b, d, B, V), NEW l \in Seq(ListedCard(B, V)),
         NEW i \in 1..Len(d), ListInv(l, b, d, i - 1), d[i].vendor = "nvidia",
         NEW o \in OpenPlaces(l)
  PROVE  ListInv(Filled(l, o, d[i]), b, d, i)
<1> DEFINE n == Len(l)
           c == d[i]
           t == Filled(l, o, c)
<1>1. /\ d \in Seq(ListedCard(B, V)) /\ c \in ListedCard(B, V) /\ c.pci # "none" /\ Len(d) \in Nat
      /\ c.mem \in Mems(d) /\ c.mem # Nil
  BY DEF Unlisted, Mems
<1>2. /\ Len(t) = n /\ o \in 1..n
      /\ \A k \in 1..n : t[k].vendor = l[k].vendor /\ (k # o => t[k] = l[k])
      /\ t[o].mem = IF l[o].mem = Nil THEN c.mem ELSE l[o].mem
      /\ Num(t, "amd") = Num(l, "amd") /\ Num(t, "nvidia") = Num(l, "nvidia")
      /\ OpenPlaces(t) = OpenPlaces(l) \ {o}
      /\ NumOpen(t) = NumOpen(l) - 1 /\ NumOpen(l) \in Nat
  <2>1. c.pci # "none"
    BY <1>1
  <2> HIDE DEF c
  <2>2. \A v : FillsIn(Filled(l, o, c), l, o, c, v)
    BY <2>1, NumsOfFilled
  <2>3. FillsIn(t, l, o, c, "amd") /\ FillsIn(t, l, o, c, "nvidia")
    BY <2>2
  <2> HIDE DEF t
  <2>4. QED BY <2>3 DEF FillsIn
<1>3. Len(b) # 0 /\ Named(l, b, d, i - 1) /\ ToldOf(l, b, d, i - 1)
  BY DEF ListInv, Unnamed
<1>4. /\ Count(d, "amd", i) = Count(d, "amd", i - 1) + One(c.vendor = "amd")
      /\ Count(d, "nvidia", i) = Count(d, "nvidia", i - 1) + One(c.vendor = "nvidia")
      /\ \A k \in 0..Len(d) : Count(d, "amd", k) \in Nat /\ Count(d, "nvidia", k) \in Nat
  <2>1. i \in 1..Len(d) /\ d \in Seq(ListedCard(B, V))
    BY <1>1
  <2>2. QED BY <2>1, CountsOf
<1>5. One(c.vendor = "nvidia") = 1 /\ One(c.vendor = "amd") = 0
  BY DEF One
<1>6. i - 1 \in 0..Len(d) /\ 1..i = 1..(i-1) \cup {i} /\ i \in Nat
  BY <1>1
<1> HIDE DEF t
<1>7. \A x \in Mems(l) : x # Nil => x \in Mems(t)
  <2> SUFFICES ASSUME NEW k \in 1..n, l[k].mem # Nil PROVE l[k].mem \in Mems(t)
    BY DEF Mems
  <2>1. t[k].mem = l[k].mem
    BY <1>2
  <2>2. k \in 1..Len(t)
    BY <1>2
  <2>3. QED BY <2>1, <2>2 DEF Mems
<1>8. Mems(t) \subseteq Mems(l) \cup {c.mem}
  <2> SUFFICES ASSUME NEW k \in 1..n PROVE t[k].mem \in Mems(l) \cup {c.mem}
    BY <1>2 DEF Mems
  <2>1. l[k].mem \in Mems(l)
    BY DEF Mems
  <2>2. t[k].mem = l[k].mem \/ t[k].mem = c.mem
    BY <1>2
  <2>3. QED BY <2>1, <2>2
<1> HIDE DEF n
<1>9. c.mem \in Mems(t)
  <2>1. CASE \A p \in OpenPlaces(l) : l[p].mem = Nil
    <3>1. t[o].mem = c.mem /\ o \in 1..Len(t)
      BY <1>2, <2>1
    <3>2. QED BY <3>1 DEF Mems
  <2>2. CASE \A m \in 1..Len(d) : d[m].vendor = "nvidia" => d[m].mem \in Mems(l)
    <3>1. c.mem \in Mems(l)
      BY <2>2
    <3>2. QED BY <1>1, <1>7, <3>1
  <2>3. QED BY <1>3, <2>1, <2>2 DEF Named
<1>10. ToldOf(t, b, d, i)
  <2>1. Num(t, "amd") <= Count(d, "amd", i)
    <3> DEFINE p == Num(l, "amd")
               q == Count(d, "amd", i - 1)
    <3>1. p <= q /\ q \in Nat
      BY <1>3, <1>4, <1>6 DEF ToldOf
    <3>2. Num(t, "amd") = p /\ Count(d, "amd", i) = q + 0
      BY <1>2, <1>4, <1>5
    <3> HIDE DEF p, q
    <3>3. QED BY <3>1, <3>2
  <2>2. ASSUME NEW m \in 1..i PROVE d[m].mem \in Mems(t)
    <3>1. CASE m = i
      BY <1>9, <3>1
    <3>2. CASE m # i
      <4>1. m \in 1..(i-1)
        BY <1>6, <3>2
      <4>2. d[m].mem \in Mems(l)
        BY <1>3, <4>1 DEF ToldOf
      <4>3. m \in 1..Len(d)
        BY <1>6, <4>1
      <4>4. d[m].mem # Nil
        BY <4>3 DEF Unlisted
      <4>5. QED BY <1>7, <4>2, <4>4
    <3>3. QED BY <3>1, <3>2
  <2> HIDE DEF c
  <2>3. Mems(t) \subseteq Mems(b) \cup Mems(d)
    BY <1>1, <1>3, <1>8 DEF ToldOf
  <2>4. QED BY <2>1, <2>2, <2>3 DEF ToldOf
<1>11. Named(t, b, d, i)
  <2>1. Num(t, "nvidia") = Len(b)
    BY <1>2, <1>3 DEF Named
  <2>2. NumOpen(t) = Len(b) - Count(d, "nvidia", i)
    <3> DEFINE p == NumOpen(l)
               q == Count(d, "nvidia", i - 1)
               r == Len(b)
    <3>1. p = r - q /\ p \in Nat /\ q \in Nat
      BY <1>2, <1>3, <1>4, <1>6 DEF Named
    <3>2. NumOpen(t) = p - 1 /\ Count(d, "nvidia", i) = q + 1 /\ r \in Nat
      BY <1>2, <1>4, <1>5 DEF Unlisted
    <3> HIDE DEF p, q, r
    <3>3. NumOpen(t) = r - Count(d, "nvidia", i)
      BY <3>1, <3>2
    <3>4. QED BY <3>3 DEF r
  <2>3. (\A p \in OpenPlaces(l) : l[p].mem = Nil) => \A p \in OpenPlaces(t) : t[p].mem = Nil
    <3>1. OpenPlaces(l) \subseteq 1..n
      BY NumsAre DEF n
    <3>2. \A p \in OpenPlaces(t) : p \in OpenPlaces(l) /\ t[p] = l[p]
      BY <1>2, <3>1
    <3>3. QED BY <3>2
  <2>4. ASSUME \A m \in 1..Len(d) : d[m].vendor = "nvidia" => d[m].mem \in Mems(l),
               NEW m \in 1..Len(d), d[m].vendor = "nvidia"
        PROVE  d[m].mem \in Mems(t)
    <3>1. d[m].mem # Nil
      BY DEF Unlisted
    <3>2. QED BY <1>7, <2>4, <3>1
  <2>5. QED BY <1>3, <2>1, <2>2, <2>3, <2>4 DEF Named
<1>12. QED BY <1>3, <1>10, <1>11 DEF ListInv, t, c

\* A card of NVIDIA's when every place is known.
LEMMA KnownAdded ==
  ASSUME NEW B, NEW V, NEW b, NEW d, Unlisted(b, d, B, V), NEW l \in Seq(ListedCard(B, V)),
         NEW i \in 1..Len(d), ListInv(l, b, d, i - 1), d[i].vendor = "nvidia", OpenPlaces(l) = {}
  PROVE  ListInv(IF IsListed(l, d[i]) THEN l ELSE Append(l, d[i]), b, d, i)
<1> DEFINE n == Len(l)
           c == d[i]
           t == Append(l, c)
<1>1. /\ d \in Seq(ListedCard(B, V)) /\ c \in ListedCard(B, V) /\ c.pci # "none" /\ Len(d) \in Nat
      /\ c.mem \in Mems(d)
  BY DEF Unlisted, Mems
<1>2. /\ n \in Nat /\ DOMAIN t = 1..(n+1) /\ Len(t) = n + 1 /\ t[n+1] = c
      /\ \A k \in 1..n : t[k] = l[k]
  OBVIOUS
<1>3. /\ Num(t, "amd") = Num(l, "amd") + One(c.vendor = "amd")
      /\ Num(t, "nvidia") = Num(l, "nvidia") + One(c.vendor = "nvidia")
      /\ NumOpen(t) = NumOpen(l) /\ OpenPlaces(t) = OpenPlaces(l)
      /\ Mems(t) = Mems(l) \cup {c.mem}
  <2> HIDE DEF c
  <2>1. QED BY <1>1, NumsOfAppend
<1>4. /\ Count(d, "amd", i) = Count(d, "amd", i - 1) + One(c.vendor = "amd")
      /\ Count(d, "nvidia", i) = Count(d, "nvidia", i - 1) + One(c.vendor = "nvidia")
      /\ \A k \in 0..Len(d) : /\ Count(d, "amd", k) \in Nat /\ Count(d, "nvidia", k) \in Nat
                              /\ Count(d, "nvidia", k) <= Num(d, "nvidia")
  <2>1. i \in 1..Len(d) /\ d \in Seq(ListedCard(B, V))
    BY <1>1
  <2>2. QED BY <2>1, CountsOf
<1>5. One(c.vendor = "nvidia") = 1 /\ One(c.vendor = "amd") = 0
  BY DEF One
<1>6. i - 1 \in 0..Len(d) /\ 1..i = 1..(i-1) \cup {i} /\ i \in Nat /\ i \in 0..Len(d)
  BY <1>1
<1>7. Num(l, "amd") \in Nat /\ Num(l, "nvidia") \in Nat /\ Num(d, "nvidia") \in Nat
  BY <1>1, NumsAre
<1>8. Len(b) = 0
  <2> SUFFICES ASSUME Len(b) # 0 PROVE FALSE
    OBVIOUS
  <2>1. NumOpen(l) = 0
    BY FS_EmptySet DEF NumOpen
  <2>2. NumOpen(l) = Len(b) - Count(d, "nvidia", i - 1)
    BY DEF ListInv, Named
  <2>3. Num(d, "nvidia") <= Len(b) /\ Len(b) \in Nat
    BY DEF Unlisted
  <2> DEFINE p == Count(d, "nvidia", i - 1)
             q == Count(d, "nvidia", i)
             r == Num(d, "nvidia")
             s == Len(b)
  <2>4. q = p + 1 /\ p \in Nat /\ q <= r /\ r \in Nat /\ r <= s /\ s \in Nat /\ 0 = s - p
    BY <1>4, <1>5, <1>6, <1>7, <2>1, <2>2, <2>3
  <2> HIDE DEF p, q, r, s
  <2>5. QED BY <2>4
<1>9. ToldOf(l, b, d, i - 1) /\ Unnamed(l, d, i - 1)
  BY <1>8 DEF ListInv
<1> DEFINE pa == Num(l, "amd")
           qa == Count(d, "amd", i - 1)
           pn == Num(l, "nvidia")
           qn == Count(d, "nvidia", i - 1)
<1>10. pa <= qa /\ pn <= qn /\ pa \in Nat /\ qa \in Nat /\ pn \in Nat /\ qn \in Nat
  BY <1>4, <1>6, <1>7, <1>9 DEF ToldOf, Unnamed
<1>11. Count(d, "amd", i) = qa + 0 /\ Count(d, "nvidia", i) = qn + 1
  BY <1>4, <1>5
<1>12. Num(t, "amd") = pa + 0 /\ Num(t, "nvidia") = pn + 1
  BY <1>3, <1>5
<1> HIDE DEF pa, qa, pn, qn
<1>13. CASE IsListed(l, c)
  <2>1. PICK k \in 1..n : l[k].vendor = "nvidia" /\ l[k].pci = c.pci
    BY <1>13 DEF IsListed, Elements
  <2>2. PICK m \in 1..(i-1) : l[k] = d[m]
    BY <1>9, <2>1 DEF Unnamed
  <2>3. m \in 1..Len(d)
    BY <1>6
  <2>4. d[m] = c
    BY <2>1, <2>2, <2>3 DEF Unlisted
  <2>5. c.mem \in Mems(l)
    BY <2>1, <2>2, <2>4 DEF Mems
  <2>6. Num(l, "amd") <= Count(d, "amd", i) /\ Num(l, "nvidia") <= Count(d, "nvidia", i)
    <3>1. pa <= Count(d, "amd", i) /\ pn <= Count(d, "nvidia", i)
      BY <1>10, <1>11
    <3>2. QED BY <3>1 DEF pa, pn
  <2>7. \A j \in 1..i : d[j].mem \in Mems(l)
    BY <1>6, <1>9, <2>5 DEF ToldOf
  <2>8. ToldOf(l, b, d, i)
    BY <1>9, <2>6, <2>7 DEF ToldOf
  <2>9. \A j \in 1..(i-1) : j \in 1..i
    BY <1>6
  <2>10. Unnamed(l, d, i)
    BY <1>9, <2>6, <2>9 DEF Unnamed
  <2>11. QED BY <1>8, <1>13, <2>8, <2>10 DEF ListInv
<1>14. CASE ~IsListed(l, c)
  <2>1. Num(t, "amd") <= Count(d, "amd", i) /\ Num(t, "nvidia") <= Count(d, "nvidia", i)
    <3> HIDE DEF t
    <3>1. QED BY <1>10, <1>11, <1>12
  <2>2. ASSUME NEW k \in 1..Len(t), t[k].vendor = "nvidia" PROVE \E m \in 1..i : t[k] = d[m]
    <3>1. CASE k \in 1..n
      <4>1. PICK m \in 1..(i-1) : l[k] = d[m]
        BY <1>2, <1>9, <2>2, <3>1 DEF Unnamed
      <4>2. m \in 1..i
        BY <1>6
      <4>3. QED BY <1>2, <3>1, <4>1, <4>2
    <3>2. CASE k \notin 1..n
      <4>1. k = n + 1
        BY <1>2, <3>2
      <4>2. t[k] = d[i] /\ i \in 1..i
        BY <1>2, <1>6, <4>1
      <4>3. QED BY <4>2
    <3>3. QED BY <3>1, <3>2
  <2> HIDE DEF t, c, n
  <2>3. \A m \in 1..i : d[m].mem \in Mems(t)
    BY <1>3, <1>6, <1>9 DEF ToldOf, c
  <2>4. ToldOf(t, b, d, i)
    BY <1>1, <1>3, <1>9, <2>1, <2>3 DEF ToldOf
  <2>5. Unnamed(t, d, i)
    BY <1>3, <1>9, <2>1, <2>2 DEF Unnamed
  <2>6. QED BY <1>8, <1>14, <2>4, <2>5 DEF ListInv, t, c
<1>15. QED BY <1>13, <1>14

\* After the last one every card is listed, and no more of a vendor than there are.
LEMMA AllListed ==
  ASSUME NEW B, NEW V, NEW b, NEW d, Unlisted(b, d, B, V)
  PROVE  AddedCards(b, d) \in Seq(ListedCard(B, V)) /\ ListInv(AddedCards(b, d), b, d, Len(d))
<1> DEFINE n == Len(d)
           L == ListedCard(B, V)
<1>1. b \in Seq(L) /\ d \in Seq(L) /\ n \in Nat
  BY DEF Unlisted
<1>2. PICK f : AddsCards(f, b, d, L)
  BY <1>1, CardsAreAdded
<1> DEFINE D == {i \in 0..n : f[i] \in Seq(L) /\ ListInv(f[i], b, d, i)}
<1>3. 0 \in D
  <2>1. f[0] = b
    BY <1>2 DEF AddsCards
  <2>2. QED BY <1>1, <2>1, NoneListed
<1>4. ASSUME NEW i \in 1..n, i - 1 \in D PROVE i \in D
  <2> DEFINE l == f[i-1]
             c == d[i]
  <2>1. l \in Seq(L) /\ ListInv(l, b, d, i - 1) /\ c \in L /\ i \in 0..n
    BY <1>1, <1>4
  <2>2. f[i] = AddCard(l, c)
    BY <1>2 DEF AddsCards
  <2> HIDE DEF l
  <2>3. /\ c.vendor # "nvidia" => AddCard(l, c) = Append(l, c)
        /\ c.vendor = "nvidia" /\ OpenPlaces(l) # {} =>
             FirstOpen(l) \in OpenPlaces(l) /\ AddCard(l, c) = Filled(l, FirstOpen(l), c)
        /\ c.vendor = "nvidia" /\ OpenPlaces(l) = {} =>
             AddCard(l, c) = IF IsListed(l, c) THEN l ELSE Append(l, c)
        /\ AddCard(l, c) \in Seq(L)
    <3> HIDE DEF c
    <3>1. l \in Seq(ListedCard(B, V)) /\ c \in ListedCard(B, V)
      BY <2>1
    <3>2. IsAdded(l, c) /\ AddCard(l, c) \in Seq(ListedCard(B, V))
      BY <3>1, AddCardIs, Zenon
    <3>3. QED BY <3>2 DEF IsAdded
  <2>4. CASE c.vendor # "nvidia"
    BY <2>1, <2>2, <2>3, <2>4, OtherAdded
  <2>5. CASE c.vendor = "nvidia" /\ OpenPlaces(l) # {}
    <3> DEFINE o == FirstOpen(l)
    <3>1. o \in OpenPlaces(l) /\ AddCard(l, c) = Filled(l, o, c)
      BY <2>3, <2>5
    <3> HIDE DEF o
    <3>2. ListInv(Filled(l, o, d[i]), b, d, i)
      BY <2>1, <2>5, <3>1, FilledAdded
    <3>3. QED BY <2>1, <2>2, <2>3, <3>1, <3>2
  <2>6. CASE c.vendor = "nvidia" /\ OpenPlaces(l) = {}
    <3>1. ListInv(IF IsListed(l, d[i]) THEN l ELSE Append(l, d[i]), b, d, i)
      BY <2>1, <2>6, KnownAdded
    <3>2. QED BY <2>1, <2>2, <2>3, <2>6, <3>1
  <2>7. QED BY <2>4, <2>5, <2>6
<1> HIDE DEF D
<1>5. 0..n \subseteq D
  BY <1>1, <1>3, <1>4, Induction
<1>6. n \in D
  BY <1>1, <1>5
<1>7. AddedCards(b, d) = f[n]
  BY <1>2 DEF AddsCards
<1>8. QED BY <1>6, <1>7 DEF D

\* What the NVIDIA library tells, and the cards of the AMD driver then.
Driven(b, c, B, V) ==
  /\ b \in Seq(ListedCard(B, V)) /\ c \in Seq(ListedCard(B, V))
  /\ \A i \in 1..Len(b) : b[i].vendor = "nvidia"
  /\ \A i \in 1..Len(c) : c[i].vendor = "amd"
  /\ \A i, j \in 1..Len(c) : c[i].pci = c[j].pci => c[i] = c[j]
AmdInv(l, b, c, i) ==
  /\ Mems(l) \subseteq Mems(b) \cup Mems(c)
  /\ Mems(b) \subseteq Mems(l)
  /\ Num(l, "amd") <= i /\ Num(l, "nvidia") = Len(b)
  /\ \A k \in 1..Len(l) : l[k].vendor = "amd" => \E m \in 1..i : l[k] = c[m]
  /\ \A m \in 1..i : c[m].mem \in Mems(l)

\* One card more of the AMD driver.
LEMMA AmdListed ==
  ASSUME NEW B, NEW V, NEW b, NEW c, Driven(b, c, B, V), NEW l \in Seq(ListedCard(B, V)),
         NEW i \in 1..Len(c), AmdInv(l, b, c, i - 1)
  PROVE  AmdInv(AddAmd(l, c[i]), b, c, i)
<1> DEFINE n == Len(l)
           x == c[i]
           t == Append(l, x)
<1>1. /\ c \in Seq(ListedCard(B, V)) /\ x \in ListedCard(B, V) /\ Len(c) \in Nat
      /\ x.mem \in Mems(c) /\ x.vendor = "amd"
  BY DEF Driven, Mems
<1>2. /\ n \in Nat /\ DOMAIN t = 1..(n+1) /\ Len(t) = n + 1 /\ t[n+1] = x
      /\ \A k \in 1..n : t[k] = l[k]
  OBVIOUS
<1>3. /\ Num(t, "amd") = Num(l, "amd") + One(x.vendor = "amd")
      /\ Num(t, "nvidia") = Num(l, "nvidia") + One(x.vendor = "nvidia")
      /\ Mems(t) = Mems(l) \cup {x.mem}
  <2> HIDE DEF x
  <2>1. QED BY <1>1, NumsOfAppend
<1>4. One(x.vendor = "amd") = 1 /\ One(x.vendor = "nvidia") = 0
  BY <1>1 DEF One
<1>5. Num(l, "amd") \in Nat /\ Num(l, "nvidia") \in Nat
  BY NumsAre
<1>6. 1..i = 1..(i-1) \cup {i} /\ i \in Nat
  BY <1>1
<1>7. AddAmd(l, x) = IF \E k \in 1..n : l[k].vendor = "amd" /\ l[k].pci = x.pci THEN l ELSE t
  BY <1>2 DEF AddAmd, Elements
<1>8. CASE \E k \in 1..n : l[k].vendor = "amd" /\ l[k].pci = x.pci
  <2>1. PICK k \in 1..n : l[k].vendor = "amd" /\ l[k].pci = x.pci
    BY <1>8
  <2>2. PICK m \in 1..(i-1) : l[k] = c[m]
    BY <2>1 DEF AmdInv
  <2>3. m \in 1..Len(c)
    BY <1>6
  <2>4. c[m] = x
    BY <2>1, <2>2, <2>3 DEF Driven
  <2>5. x.mem \in Mems(l)
    BY <2>1, <2>2, <2>4 DEF Mems
  <2>6. \A j \in 1..i : c[j].mem \in Mems(l)
    BY <1>6, <2>5 DEF AmdInv
  <2>7. Num(l, "amd") <= i
    BY <1>5, <1>6 DEF AmdInv
  <2>8. \A j \in 1..(i-1) : j \in 1..i
    BY <1>6
  <2>9. AmdInv(l, b, c, i)
    BY <2>6, <2>7, <2>8 DEF AmdInv
  <2>10. QED BY <1>7, <1>8, <2>9
<1>9. CASE ~\E k \in 1..n : l[k].vendor = "amd" /\ l[k].pci = x.pci
  <2>1. Num(t, "amd") <= i
    <3> DEFINE p == Num(l, "amd")
    <3>1. p <= i - 1 /\ p \in Nat /\ Num(t, "amd") = p + 1
      BY <1>3, <1>4, <1>5 DEF AmdInv
    <3> HIDE DEF p, t
    <3>2. QED BY <1>6, <3>1
  <2>2. Num(t, "nvidia") = Len(b)
    BY <1>3, <1>4, <1>5 DEF AmdInv
  <2>3. ASSUME NEW k \in 1..Len(t), t[k].vendor = "amd" PROVE \E m \in 1..i : t[k] = c[m]
    <3>1. CASE k \in 1..n
      <4>1. PICK m \in 1..(i-1) : l[k] = c[m]
        BY <1>2, <2>3, <3>1 DEF AmdInv
      <4>2. m \in 1..i
        BY <1>6
      <4>3. QED BY <1>2, <3>1, <4>1, <4>2
    <3>2. CASE k \notin 1..n
      <4>1. k = n + 1
        BY <1>2, <3>2
      <4>2. t[k] = c[i] /\ i \in 1..i
        BY <1>2, <1>6, <4>1
      <4>3. QED BY <4>2
    <3>3. QED BY <3>1, <3>2
  <2> HIDE DEF t, x, n
  <2>4. \A m \in 1..i : c[m].mem \in Mems(t)
    BY <1>3, <1>6 DEF AmdInv, x
  <2>5. Mems(t) \subseteq Mems(b) \cup Mems(c) /\ Mems(b) \subseteq Mems(t)
    BY <1>1, <1>3 DEF AmdInv
  <2>6. AmdInv(t, b, c, i)
    BY <2>1, <2>2, <2>3, <2>4, <2>5 DEF AmdInv
  <2>7. QED BY <1>7, <1>9, <2>6 DEF x
<1>10. QED BY <1>8, <1>9

\* After the last one every card is listed, and no more of a vendor than there are.
LEMMA AllDriven ==
  ASSUME NEW B, NEW V, NEW b, NEW c, Driven(b, c, B, V)
  PROVE  AddedAmd(b, c) \in Seq(ListedCard(B, V)) /\ AmdInv(AddedAmd(b, c), b, c, Len(c))
<1> DEFINE n == Len(c)
           L == ListedCard(B, V)
<1>1. b \in Seq(L) /\ c \in Seq(L) /\ n \in Nat
  BY DEF Driven
<1>2. PICK f : AddsAmd(f, b, c, L)
  BY <1>1, AmdAreAdded
<1> DEFINE D == {i \in 0..n : f[i] \in Seq(L) /\ AmdInv(f[i], b, c, i)}
<1>3. 0 \in D
  <2>1. f[0] = b
    BY <1>2 DEF AddsAmd
  <2>2. CardsOf(b, "amd") = {} /\ CardsOf(b, "nvidia") = 1..Len(b) /\ DOMAIN b = 1..Len(b) /\ Len(b) \in Nat
    BY DEF CardsOf, Driven
  <2>3. Num(b, "amd") = 0 /\ Num(b, "nvidia") = Len(b)
    BY <2>2, FS_EmptySet, PlacesAreFinite DEF Num
  <2>4. \A k \in 1..Len(b) : b[k].vendor # "amd"
    BY DEF Driven
  <2>5. AmdInv(b, b, c, 0)
    BY <2>3, <2>4 DEF AmdInv
  <2>6. QED BY <1>1, <2>1, <2>5
<1>4. ASSUME NEW i \in 1..n, i - 1 \in D PROVE i \in D
  <2> DEFINE l == f[i-1]
             x == c[i]
  <2>1. l \in Seq(L) /\ AmdInv(l, b, c, i - 1) /\ x \in L /\ i \in 0..n
    BY <1>1, <1>4
  <2>2. f[i] = AddAmd(l, x)
    BY <1>2 DEF AddsAmd
  <2> HIDE DEF l
  <2>3. AddAmd(l, x) \in Seq(L)
    <3> HIDE DEF x
    <3>1. QED BY <2>1, AddAmdIs
  <2>4. AmdInv(AddAmd(l, c[i]), b, c, i)
    BY <2>1, AmdListed
  <2>5. QED BY <2>1, <2>2, <2>3, <2>4
<1> HIDE DEF D
<1>5. 0..n \subseteq D
  BY <1>1, <1>3, <1>4, Induction
<1>6. n \in D
  BY <1>1, <1>5
<1>7. AddedAmd(b, c) = f[n]
  BY <1>2 DEF AddsAmd
<1>8. QED BY <1>6, <1>7 DEF D

\* Vulkan fills in memory, and nothing else.
LEMMA MemoryIsFilledIn ==
  ASSUME NEW B, NEW V, NEW l \in Seq(ListedCard(B, V)), NEW c \in Seq(ListedCard(B, V))
  PROVE  LET a == FilledIn(l, c)
         IN /\ a \in Seq(ListedCard(B, V)) /\ Num(a, "amd") = Num(l, "amd") /\ Num(a, "nvidia") = Num(l, "nvidia")
            /\ Mems(a) \subseteq Mems(l) \cup Mems(c)
            /\ \A m \in Mems(l) : m # Nil => m \in Mems(a)
<1> DEFINE a == FilledIn(l, c)
           n == Len(l)
           same(i) == {x \in Elements(c) : x.pci = l[i].pci}
           mem(i) == (CHOOSE x \in same(i) : TRUE).mem
<1>1. n \in Nat /\ DOMAIN l = 1..n /\ DOMAIN c = 1..Len(c) /\ \A i \in 1..n : l[i] \in ListedCard(B, V)
  OBVIOUS
<1>2. DOMAIN a = 1..n
  BY <1>1 DEF FilledIn
<1>3. \A i \in 1..n : a[i] = IF l[i].mem = Nil /\ same(i) # {} THEN [l[i] EXCEPT !.mem = mem(i)] ELSE l[i]
  BY <1>1 DEF FilledIn
<1>4. ASSUME NEW i \in 1..n, same(i) # {} PROVE mem(i) \in Int /\ mem(i) \in Mems(c)
  <2>1. PICK x : x = CHOOSE y \in same(i) : TRUE
    OBVIOUS
  <2>2. x \in same(i)
    BY <1>4, <2>1
  <2>3. x \in Elements(c)
    BY <2>2
  <2>4. PICK j \in 1..Len(c) : x = c[j]
    BY <1>1, <2>3 DEF Elements
  <2>5. x.mem \in Int /\ x.mem \in Mems(c)
    <3>1. c[j] \in ListedCard(B, V)
      BY <2>4
    <3>2. c[j].mem \in Int
      BY <3>1 DEF ListedCard
    <3>3. QED BY <2>4, <3>2 DEF Mems
  <2>6. QED BY <2>1, <2>5
<1> HIDE DEF a, same, mem
<1>5. ASSUME NEW i \in 1..n
      PROVE  /\ a[i] \in ListedCard(B, V) /\ a[i].vendor = l[i].vendor
             /\ a[i].mem = l[i].mem \/ (l[i].mem = Nil /\ a[i].mem \in Mems(c))
  <2>1. l[i] \in ListedCard(B, V)
    BY <1>1
  <2>2. CASE l[i].mem = Nil /\ same(i) # {}
    <3> DEFINE z == l[i]
               p == z.pci
               v == z.vendor
               m == z.mem
               w == mem(i)
    <3>1. z = [pci |-> p, vendor |-> v, mem |-> m] /\ p \in B \cup {"none", "s"} /\ v \in V \cup {"microsoft"}
      BY <2>1 DEF ListedCard
    <3>2. a[i] = [z EXCEPT !.mem = w]
      BY <1>3, <2>2
    <3>3. w \in Int /\ w \in Mems(c)
      BY <1>4, <2>2
    <3> HIDE DEF p, v, m, w
    <3>4. [z EXCEPT !.mem = w] = [pci |-> p, vendor |-> v, mem |-> w]
      <4> HIDE DEF z
      <4>1. QED BY <3>1
    <3>5. a[i] = [pci |-> p, vendor |-> v, mem |-> w]
      BY <3>2, <3>4
    <3>6. a[i].vendor = v /\ a[i].mem = w /\ a[i] \in ListedCard(B, V)
      BY <3>1, <3>3, <3>5 DEF ListedCard
    <3>7. QED BY <2>2, <3>3, <3>6 DEF v
  <2>3. CASE ~(l[i].mem = Nil /\ same(i) # {})
    BY <1>3, <2>1, <2>3
  <2>4. QED BY <2>2, <2>3
<1>6. a \in Seq(ListedCard(B, V)) /\ Len(a) = n
  <2>1. a = [i \in 1..n |-> a[i]]
    BY <1>1 DEF FilledIn, a
  <2>2. a \in [1..n -> ListedCard(B, V)]
    BY <1>5, <2>1
  <2>3. QED BY <1>1, <2>2, SeqDef, LenProperties
<1>7. \A v : CardsOf(a, v) = CardsOf(l, v)
  BY <1>1, <1>2, <1>5 DEF CardsOf
<1>8. Num(a, "amd") = Num(l, "amd") /\ Num(a, "nvidia") = Num(l, "nvidia")
  BY <1>7 DEF Num
<1>9. Mems(a) \subseteq Mems(l) \cup Mems(c)
  BY <1>5, <1>6 DEF Mems, n
<1>10. \A m \in Mems(l) : m # Nil => m \in Mems(a)
  BY <1>5, <1>6 DEF Mems, n
<1>11. QED BY <1>6, <1>8, <1>9, <1>10 DEF a

\* The cards of a vendor.
LEMMA VendorsAre ==
  ASSUME NEW B, NEW V, NEW s \in Seq(AnyCard(B, V)), NEW v
  PROVE  LET own == ByVendor(s, v)
         IN /\ own \in Seq(AnyCard(B, V)) /\ Len(own) = Num(s, v)
            /\ \A i \in 1..Len(own) : own[i].vendor = v /\ \E m \in 1..Len(s) : own[i] = s[m]
            /\ \A m \in 1..Len(s) : s[m].vendor = v => \E i \in 1..Len(own) : own[i] = s[m]
<1> DEFINE S == {x \in {s[i] : i \in DOMAIN s} : x.vendor = v}
           own == Kept(s, S)
<1>1. ByVendor(s, v) = own
  BY DEF ByVendor, Where
<1>2. own \in Seq(AnyCard(B, V)) /\ ToSet(own) = ToSet(s) \cap S
  <2> HIDE DEF S
  <2>1. QED BY KeptIs
<1>3. Len(own) = Num(s, v)
  BY <1>1, NumsAre
<1>4. DOMAIN s = 1..Len(s)
  OBVIOUS
<1> HIDE DEF own
<1>5. DOMAIN own = 1..Len(own)
  BY <1>2
<1>6. ASSUME NEW i \in 1..Len(own) PROVE own[i].vendor = v /\ \E m \in 1..Len(s) : own[i] = s[m]
  <2>1. own[i] \in ToSet(own)
    BY <1>5 DEF ToSet
  <2>2. own[i] \in S
    BY <1>2, <2>1
  <2>3. QED BY <1>4, <2>2
<1>7. ASSUME NEW m \in 1..Len(s), s[m].vendor = v PROVE \E i \in 1..Len(own) : own[i] = s[m]
  <2>1. s[m] \in ToSet(s) /\ s[m] \in S
    BY <1>4, <1>7 DEF ToSet
  <2>2. s[m] \in ToSet(own)
    BY <1>2, <2>1
  <2>3. QED BY <1>5, <2>2 DEF ToSet
<1>8. QED BY <1>1, <1>2, <1>3, <1>6, <1>7

\* What the NVIDIA library tells: every card, in either order, or none.
Library(g, b, C) ==
  /\ \A i \in 1..Len(b) : b[i].vendor = "nvidia" /\ b[i].pci = "none"
  /\ Len(b) = IF g.nvml = "none" THEN 0 ELSE Num(C, "nvidia")
  /\ g.nvml # "none" /\ g.sizes => \A m \in 1..Len(C) : C[m].vendor = "nvidia" => C[m].mem \in Mems(b)
  /\ ~g.sizes => \A i \in 1..Len(b) : b[i].mem = Nil
  /\ Mems(b) \subseteq Mems(C) \cup {Nil}

\* What the library of NVIDIA tells of its cards.
LEMMA LibraryTells ==
  ASSUME NEW B, NEW V, NEW g \in AnyProbeable(B, V)
  PROVE  FromNvml(g) \in Seq(ListedCard(B, V)) /\ Library(g, FromNvml(g), g.cards)
<1> DEFINE C == g.cards
           own == ByVendor(C, "nvidia")
           all == CASE g.nvml = "none" -> <<>> [] g.nvml = "same" -> own [] OTHER -> Reverse(own)
           b == FromNvml(g)
           A == AnyCard(B, V)
           mem(i) == IF g.sizes THEN all[i].mem ELSE Nil
<1>1. C \in Seq(A) /\ g.nvml \in {"none", "same", "reversed"} /\ g.sizes \in BOOLEAN
  BY DEF AnyProbeable
<1>2. b = [i \in DOMAIN all |-> [pci |-> "none", vendor |-> "nvidia", mem |-> mem(i)]]
  BY DEF FromNvml, Card
<1>3. /\ own \in Seq(A) /\ Len(own) = Num(C, "nvidia")
      /\ \A i \in 1..Len(own) : own[i].vendor = "nvidia" /\ \E m \in 1..Len(C) : own[i] = C[m]
      /\ \A m \in 1..Len(C) : C[m].vendor = "nvidia" => \E i \in 1..Len(own) : own[i] = C[m]
  <2> HIDE DEF C, A
  <2>1. C \in Seq(AnyCard(B, V))
    BY <1>1 DEF A
  <2>2. QED BY <2>1, VendorsAre DEF A
<1> HIDE DEF C, own, A, b
<1>4. /\ Reverse(own) \in Seq(A) /\ Len(Reverse(own)) = Len(own) /\ ToSet(Reverse(own)) = ToSet(own)
  BY <1>3, Backwards
<1>5. /\ all \in Seq(A) /\ Len(all) = IF g.nvml = "none" THEN 0 ELSE Num(C, "nvidia")
      /\ g.nvml # "none" => ToSet(all) = ToSet(own)
  <2>1. CASE g.nvml = "none"
    <3>1. all = <<>>
      BY <2>1
    <3>2. QED BY <2>1, <3>1
  <2>2. CASE g.nvml = "same"
    <3>1. all = own /\ g.nvml # "none"
      BY <2>2
    <3>2. QED BY <1>3, <3>1
  <2>3. CASE g.nvml = "reversed"
    <3>1. all = Reverse(own) /\ g.nvml # "none"
      BY <2>3
    <3>2. QED BY <1>3, <1>4, <3>1
  <2>4. QED BY <1>1, <2>1, <2>2, <2>3
<1> HIDE DEF all
<1> DEFINE n == Len(all)
<1>6. n \in Nat /\ DOMAIN all = 1..n
  BY <1>5
<1>7. ASSUME NEW i \in 1..n PROVE \E m \in 1..Len(C) : all[i] = C[m]
  <2>1. g.nvml # "none"
    BY <1>5
  <2>2. all[i] \in ToSet(own)
    BY <1>5, <1>6, <2>1 DEF ToSet
  <2>3. QED BY <1>3, <2>2 DEF ToSet
<1>8. ASSUME NEW i \in 1..n PROVE mem(i) \in Int /\ mem(i) \in Mems(C) \cup {Nil}
  <2>1. PICK m \in 1..Len(C) : all[i] = C[m]
    BY <1>7
  <2>2. C[m] \in A
    BY <1>1
  <2>3. C[m].mem \in Int /\ C[m].mem \in Mems(C)
    BY <2>2 DEF A, AnyCard, Mems
  <2>4. Nil \in Int
    BY DEF Nil
  <2>5. QED BY <2>1, <2>3, <2>4
<1>9. DOMAIN b = 1..n /\ \A i \in 1..n : b[i] = [pci |-> "none", vendor |-> "nvidia", mem |-> mem(i)]
  BY <1>2, <1>6
<1>10. "nvidia" \in V \/ n = 0
  <2> SUFFICES ASSUME n # 0 PROVE "nvidia" \in V
    OBVIOUS
  <2>1. 1 \in 1..n /\ g.nvml # "none"
    BY <1>5, <1>6
  <2>2. all[1] \in ToSet(own)
    BY <1>5, <1>6, <2>1 DEF ToSet
  <2>3. PICK i \in 1..Len(own) : all[1] = own[i]
    BY <1>3, <2>2 DEF ToSet
  <2>4. own[i].vendor = "nvidia" /\ own[i] \in A
    BY <1>3
  <2>5. QED BY <2>4 DEF A, AnyCard
<1>11. b \in Seq(ListedCard(B, V)) /\ Len(b) = n
  <2>1. \A i \in 1..n : b[i] \in ListedCard(B, V)
    <3> HIDE DEF mem
    <3>1. QED BY <1>8, <1>9, <1>10 DEF ListedCard
  <2>2. b \in [1..n -> ListedCard(B, V)]
    BY <1>2, <1>6, <2>1
  <2>3. QED BY <1>6, <2>2, SeqDef, LenProperties
<1>12. \A i \in 1..n : b[i].vendor = "nvidia" /\ b[i].pci = "none" /\ b[i].mem = mem(i)
  BY <1>9
<1>13. ASSUME g.nvml # "none", g.sizes, NEW m \in 1..Len(C), C[m].vendor = "nvidia" PROVE C[m].mem \in Mems(b)
  <2>1. PICK i \in 1..Len(own) : own[i] = C[m]
    BY <1>3, <1>13
  <2>2. own[i] \in ToSet(own)
    <3>1. DOMAIN own = 1..Len(own)
      BY <1>3
    <3>2. QED BY <3>1 DEF ToSet
  <2>3. PICK j \in 1..n : all[j] = own[i]
    BY <1>5, <1>6, <1>13, <2>2 DEF ToSet
  <2>4. b[j].mem = C[m].mem
    BY <1>12, <1>13, <2>1, <2>3
  <2>5. QED BY <1>11, <2>4 DEF Mems
<1>14. ~g.sizes => \A i \in 1..n : b[i].mem = Nil
  BY <1>12
<1> HIDE DEF mem, n
<1>15. Mems(b) \subseteq Mems(C) \cup {Nil}
  BY <1>8, <1>11, <1>12 DEF Mems
<1>16. Len(b) = IF g.nvml = "none" THEN 0 ELSE Num(C, "nvidia")
  BY <1>5, <1>11 DEF n
<1>17. Library(g, b, C)
  BY <1>11, <1>12, <1>13, <1>14, <1>15, <1>16 DEF Library
<1>18. QED BY <1>11, <1>17 DEF b, C

\* A list that names no card that is not there, and every card that is seen.
SeenBy(g, c) ==
  IF g.platform = "linux" THEN c.vendor = "amd" \/ (c.vendor = "nvidia" /\ g.nvml # "none") ELSE g.dxgi
Fair(l, g, B, V) ==
  /\ l \in Seq(ListedCard(B, V))
  /\ Mems(l) \subseteq Mems(g.cards) \cup {Nil, 0}
  /\ Num(l, "nvidia") <= Num(g.cards, "nvidia") /\ Num(l, "amd") <= Num(g.cards, "amd")
  /\ g.sizes \/ g.platform = "windows" =>
       \A m \in 1..Len(g.cards) : SeenBy(g, g.cards[m]) => g.cards[m].mem \in Mems(l)

\* On Windows.
LEMMA WindowsIsFair ==
  ASSUME NEW B, NEW V, "none" \notin B, NEW g \in AnyProbeable(B, V), g.platform = "windows"
  PROVE  Fair(AddedCards(FromNvml(g), IF g.dxgi THEN Append(g.cards, Software) ELSE <<>>), g, B, V)
<1> DEFINE C == g.cards
           b == FromNvml(g)
           d == IF g.dxgi THEN Append(C, Software) ELSE <<>>
           L == ListedCard(B, V)
           l == AddedCards(b, d)
<1>1. C \in Seq(AnyCard(B, V)) /\ Apart(C) /\ g.dxgi \in BOOLEAN
  BY DEF AnyProbeable
<1>2. C \in Seq(L) /\ \A i \in 1..Len(C) : C[i].pci # "none" /\ C[i].mem # Nil
  <2> HIDE DEF C
  <2>1. QED BY <1>1, CardsMayBeListed
<1>3. b \in Seq(L) /\ Library(g, b, C)
  BY LibraryTells
<1>4. Software \in L /\ Software.vendor = "microsoft" /\ Software.pci = "s" /\ Software.mem = 0
  BY DEF Software, Card, ListedCard
<1> HIDE DEF C, b, L
<1>5. Len(C) \in Nat /\ DOMAIN C = 1..Len(C) /\ Len(b) \in Nat
  BY <1>2, <1>3
<1>6. /\ Num(C, "nvidia") \in Nat /\ Num(C, "amd") \in Nat
  BY <1>2, NumsAre
<1>7. /\ d \in Seq(L) /\ Mems(d) \subseteq Mems(C) \cup {0}
      /\ Num(d, "nvidia") = IF g.dxgi THEN Num(C, "nvidia") ELSE 0
      /\ Num(d, "amd") = IF g.dxgi THEN Num(C, "amd") ELSE 0
      /\ g.dxgi => Len(d) = Len(C) + 1 /\ d[Len(C) + 1] = Software /\ \A m \in 1..Len(C) : d[m] = C[m]
      /\ ~g.dxgi => Len(d) = 0
  <2>1. CASE g.dxgi
    <3>1. d = Append(C, Software)
      BY <2>1
    <3> HIDE DEF d
    <3>2. /\ Num(d, "nvidia") = Num(C, "nvidia") + One(Software.vendor = "nvidia")
          /\ Num(d, "amd") = Num(C, "amd") + One(Software.vendor = "amd")
          /\ Mems(d) = Mems(C) \cup {Software.mem}
      BY <1>2, <1>4, <3>1, NumsOfAppend
    <3>3. One(Software.vendor = "nvidia") = 0 /\ One(Software.vendor = "amd") = 0
      BY <1>4 DEF One
    <3>4. /\ Len(d) = Len(C) + 1 /\ d[Len(C) + 1] = Software /\ \A m \in 1..Len(C) : d[m] = C[m]
          /\ d \in Seq(L)
      BY <1>2, <1>4, <3>1
    <3>5. QED BY <1>4, <1>6, <2>1, <3>2, <3>3, <3>4
  <2>2. CASE ~g.dxgi
    <3>1. d = <<>>
      BY <2>2
    <3>2. CardsOf(<<>>, "nvidia") = {} /\ CardsOf(<<>>, "amd") = {} /\ Mems(<<>>) = {} /\ Len(<<>>) = 0
      BY DEF CardsOf, Mems
    <3>3. Num(<<>>, "nvidia") = 0 /\ Num(<<>>, "amd") = 0
      BY <3>2, FS_EmptySet DEF Num
    <3>4. QED BY <2>2, <3>1, <3>2, <3>3
  <2>3. QED BY <1>1, <2>1, <2>2
<1> HIDE DEF d
<1>8. \A i \in 1..Len(d) : (i \in 1..Len(C) /\ d[i] = C[i]) \/ d[i] = Software
  <2>1. CASE g.dxgi
    BY <1>5, <1>7, <2>1
  <2>2. CASE ~g.dxgi
    BY <1>7, <2>2
  <2>3. QED BY <2>1, <2>2
<1>9. \A i \in 1..Len(d) : d[i].vendor = "nvidia" => i \in 1..Len(C) /\ d[i] = C[i]
  BY <1>4, <1>8
<1>10. Unlisted(b, d, B, V)
  <2>1. ASSUME NEW i \in 1..Len(d) PROVE d[i].pci # "none" /\ d[i].mem # Nil
    <3>1. CASE d[i] = Software
      BY <1>4, <3>1 DEF Nil
    <3>2. CASE i \in 1..Len(C) /\ d[i] = C[i]
      BY <1>2, <3>2
    <3>3. QED BY <1>8, <3>1, <3>2
  <2>2. ASSUME NEW i \in 1..Len(d), NEW j \in 1..Len(d),
               d[i].vendor = "nvidia", d[j].vendor = "nvidia", d[i].pci = d[j].pci
        PROVE  d[i] = d[j]
    BY <1>1, <1>9, <2>2 DEF Apart
  <2>3. Len(b) = 0 \/ Num(d, "nvidia") <= Len(b)
    BY <1>3, <1>6, <1>7 DEF Library
  <2>4. \/ \A i \in 1..Len(b) : b[i].mem = Nil
        \/ \A m \in 1..Len(d) : d[m].vendor = "nvidia" => d[m].mem \in Mems(b)
    <3>1. CASE ~g.sizes
      BY <1>3, <3>1 DEF Library
    <3>2. CASE g.nvml = "none"
      <4>1. Len(b) = 0
        BY <1>3, <3>2 DEF Library
      <4>2. QED BY <4>1
    <3>3. CASE g.sizes /\ g.nvml # "none"
      BY <1>3, <1>9, <3>3 DEF Library
    <3>4. QED BY <3>1, <3>2, <3>3
  <2>5. QED BY <1>3, <1>7, <2>1, <2>2, <2>3, <2>4 DEF Unlisted, Library, L
<1>11. l \in Seq(L) /\ ListInv(l, b, d, Len(d))
  BY <1>10, AllListed DEF L
<1> HIDE DEF l
<1>12. Count(d, "nvidia", Len(d)) = Num(d, "nvidia") /\ Count(d, "amd", Len(d)) = Num(d, "amd")
  BY <1>7, CountIs
<1>13. Mems(l) \subseteq Mems(C) \cup {Nil, 0}
  BY <1>3, <1>7, <1>11 DEF ListInv, ToldOf, Library
<1>14. Num(l, "amd") \in Nat /\ Num(l, "nvidia") \in Nat
  BY <1>11, NumsAre
<1>15. Num(l, "amd") <= Num(C, "amd")
  <2> DEFINE p == Num(l, "amd")
             q == Num(C, "amd")
  <2>1. p <= IF g.dxgi THEN q ELSE 0
    BY <1>7, <1>11, <1>12 DEF ListInv, ToldOf
  <2>2. p \in Nat /\ q \in Nat
    BY <1>6, <1>14
  <2> HIDE DEF p, q
  <2>3. p <= q
    BY <2>1, <2>2
  <2>4. QED BY <2>3 DEF p, q
<1>16. Num(l, "nvidia") <= Num(C, "nvidia")
  <2> DEFINE p == Num(l, "nvidia")
             q == Num(C, "nvidia")
  <2>1. CASE Len(b) = 0
    <3>1. p <= IF g.dxgi THEN q ELSE 0
      BY <1>7, <1>11, <1>12, <2>1 DEF ListInv, Unnamed
    <3>2. p \in Nat /\ q \in Nat
      BY <1>6, <1>14
    <3> HIDE DEF p, q
    <3>3. p <= q
      BY <3>1, <3>2
    <3>4. QED BY <3>3 DEF p, q
  <2>2. CASE Len(b) # 0
    <3>1. p = Len(b)
      BY <1>11, <2>2 DEF ListInv, Named
    <3>2. Len(b) = q
      BY <1>3, <2>2 DEF Library
    <3>3. QED BY <1>6, <3>1, <3>2
  <2>3. QED BY <2>1, <2>2
<1>17. ASSUME NEW m \in 1..Len(C), SeenBy(g, C[m]) PROVE C[m].mem \in Mems(l)
  <2>1. g.dxgi
    BY <1>17 DEF SeenBy
  <2>2. m \in 1..Len(d) /\ d[m] = C[m]
    BY <1>5, <1>7, <2>1
  <2>3. QED BY <1>11, <2>2 DEF ListInv, ToldOf
<1>18. Fair(l, g, B, V)
  BY <1>11, <1>13, <1>15, <1>16, <1>17 DEF Fair, L, C
<1>19. QED BY <1>18 DEF l, b, d, C

\* On Linux.
LEMMA LinuxIsFair ==
  ASSUME NEW B, NEW V, "none" \notin B, NEW g \in AnyProbeable(B, V), g.platform = "linux"
  PROVE  Fair(AddedAmd(FromNvml(g), ByVendor(g.cards, "amd")), g, B, V)
<1> DEFINE C == g.cards
           b == FromNvml(g)
           c == ByVendor(C, "amd")
           L == ListedCard(B, V)
           l == AddedAmd(b, c)
<1>1. C \in Seq(AnyCard(B, V)) /\ Apart(C)
  BY DEF AnyProbeable
<1>2. C \in Seq(L)
  <2> HIDE DEF C
  <2>1. QED BY <1>1, CardsMayBeListed
<1>3. b \in Seq(L) /\ Library(g, b, C)
  BY LibraryTells
<1> HIDE DEF C, b
<1>4. /\ c \in Seq(AnyCard(B, V)) /\ Len(c) = Num(C, "amd")
      /\ \A i \in 1..Len(c) : c[i].vendor = "amd" /\ \E m \in 1..Len(C) : c[i] = C[m]
      /\ \A m \in 1..Len(C) : C[m].vendor = "amd" => \E i \in 1..Len(c) : c[i] = C[m]
  BY <1>1, VendorsAre
<1> HIDE DEF c
<1>5. c \in Seq(L)
  BY <1>4, CardsMayBeListed
<1>6. Mems(c) \subseteq Mems(C)
  BY <1>4 DEF Mems
<1>7. Driven(b, c, B, V)
  <2>1. ASSUME NEW i \in 1..Len(c), NEW j \in 1..Len(c), c[i].pci = c[j].pci PROVE c[i] = c[j]
    <3>1. PICK m \in 1..Len(C) : c[i] = C[m]
      BY <1>4
    <3>2. PICK k \in 1..Len(C) : c[j] = C[k]
      BY <1>4
    <3>3. QED BY <1>1, <2>1, <3>1, <3>2 DEF Apart
  <2>2. QED BY <1>3, <1>4, <1>5, <2>1 DEF Driven, Library, L
<1>8. l \in Seq(L) /\ AmdInv(l, b, c, Len(c))
  BY <1>7, AllDriven DEF L
<1> HIDE DEF l
<1>9. Mems(l) \subseteq Mems(C) \cup {Nil, 0}
  BY <1>3, <1>6, <1>8 DEF AmdInv, Library
<1>10. Num(C, "nvidia") \in Nat
  BY <1>2, NumsAre
<1>11. Num(l, "amd") <= Num(C, "amd") /\ Num(l, "nvidia") <= Num(C, "nvidia")
  BY <1>3, <1>4, <1>8, <1>10 DEF AmdInv, Library
<1>12. ASSUME g.sizes, NEW m \in 1..Len(C), SeenBy(g, C[m]) PROVE C[m].mem \in Mems(l)
  <2>1. CASE C[m].vendor = "amd"
    <3>1. PICK i \in 1..Len(c) : c[i] = C[m]
      BY <1>4, <2>1
    <3>2. c[i].mem \in Mems(l)
      BY <1>8 DEF AmdInv
    <3>3. QED BY <3>1, <3>2
  <2>2. CASE C[m].vendor = "nvidia" /\ g.nvml # "none"
    <3>1. C[m].mem \in Mems(b)
      BY <1>3, <1>12, <2>2 DEF Library
    <3>2. QED BY <1>8, <3>1 DEF AmdInv
  <2>3. QED BY <1>12, <2>1, <2>2 DEF SeenBy
<1>13. g.platform # "windows"
  OBVIOUS
<1>14. Fair(l, g, B, V)
  BY <1>8, <1>9, <1>11, <1>12, <1>13 DEF Fair, L, C
<1>15. QED BY <1>14 DEF l, b, c, C

\* The largest card that is seen is no larger than the largest that is listed, and no
\* card is listed that is not there, whatever cards there are and whatever the NVIDIA
\* library knows of them: the probe keeps what SoundProbe promises.
THEOREM GpusAreSound ==
  ASSUME NEW B, NEW V, "none" \notin B, NEW g \in AnyProbeable(B, V)
  PROVE  SoundProbe(g, Probe_(g))
<1> DEFINE C == g.cards
           l == IF g.platform = "linux" THEN AddedAmd(FromNvml(g), ByVendor(C, "amd"))
                ELSE AddedCards(FromNvml(g), IF g.dxgi THEN Append(C, Software) ELSE <<>>)
           a == Probe_(g)
           L == ListedCard(B, V)
<1>1. C \in Seq(AnyCard(B, V)) /\ g.platform \in {"windows", "linux"}
  BY DEF AnyProbeable
<1>2. a = IF g.vulkan THEN FilledIn(l, C) ELSE l
  BY DEF Probe_, AddedAmd, AddedCards
<1>3. Fair(l, g, B, V)
  <2>1. CASE g.platform = "linux"
    BY <2>1, LinuxIsFair
  <2>2. CASE g.platform = "windows"
    BY <2>2, WindowsIsFair
  <2>3. QED BY <1>1, <2>1, <2>2
<1> HIDE DEF l, a
<1>4. C \in Seq(L) /\ \A i \in 1..Len(C) : C[i].mem # Nil /\ C[i].mem \in Nat
  <2> HIDE DEF C
  <2>1. QED BY <1>1, CardsMayBeListed
<1>5. Fair(a, g, B, V)
  <2>1. CASE ~g.vulkan
    <3>1. a = l
      BY <1>2, <2>1
    <3>2. QED BY <1>3, <3>1
  <2>2. CASE g.vulkan
    <3>1. a = FilledIn(l, C) /\ l \in Seq(L)
      BY <1>2, <1>3, <2>2 DEF Fair
    <3> HIDE DEF C
    <3>2. /\ a \in Seq(L) /\ Num(a, "amd") = Num(l, "amd") /\ Num(a, "nvidia") = Num(l, "nvidia")
          /\ Mems(a) \subseteq Mems(l) \cup Mems(C)
          /\ \A m \in Mems(l) : m # Nil => m \in Mems(a)
      BY <1>4, <3>1, MemoryIsFilledIn
    <3>3. Mems(a) \subseteq Mems(C) \cup {Nil, 0}
      BY <1>3, <3>2 DEF Fair, C
    <3>4. Num(a, "amd") <= Num(C, "amd") /\ Num(a, "nvidia") <= Num(C, "nvidia")
      BY <1>3, <3>2 DEF Fair, C
    <3>5. ASSUME g.sizes \/ g.platform = "windows", NEW m \in 1..Len(C), SeenBy(g, C[m])
          PROVE  C[m].mem \in Mems(a)
      <4>1. C[m].mem \in Mems(l)
        BY <1>3, <3>5 DEF Fair, C
      <4>2. QED BY <1>4, <3>2, <4>1
    <3>6. QED BY <3>2, <3>3, <3>4, <3>5 DEF Fair, C
  <2>3. QED BY <2>1, <2>2
<1>6. a \in Seq(L) /\ DOMAIN a = 1..Len(a) /\ DOMAIN C = 1..Len(C) /\ Len(a) \in Nat /\ Len(C) \in Nat
  BY <1>4, <1>5 DEF Fair
<1> DEFINE seen == {c \in Elements(C) : SeenBy(g, c)}
           largest(S) == Max({c.mem : c \in S} \cup {0})
<1>7. {c.mem : c \in Elements(a)} = Mems(a) /\ {c.mem : c \in Elements(C)} = Mems(C)
  BY <1>6 DEF Elements, Mems
<1>8. ASSUME g.sizes \/ g.platform = "windows" PROVE largest(Elements(a)) >= largest(seen)
  <2> DEFINE f == [i \in 1..Len(a) |-> a[i].mem]
             h == [i \in 1..Len(C) |-> IF SeenBy(g, C[i]) THEN C[i].mem ELSE 0]
             P == {c.mem : c \in Elements(a)} \cup {0}
             Q == {c.mem : c \in seen} \cup {0}
  <2>1. f \in [1..Len(a) -> Int]
    <3>1. \A i \in 1..Len(a) : a[i] \in L
      BY <1>6
    <3>2. \A i \in 1..Len(a) : a[i].mem \in Int
      BY <3>1 DEF ListedCard
    <3>3. QED BY <3>2
  <2>2. h \in [1..Len(C) -> Int]
    BY <1>4
  <2>3. P = {f[i] : i \in 1..Len(a)} \cup {0}
    BY <1>7 DEF Mems
  <2>4. Q \subseteq {h[i] : i \in 1..Len(C)} \cup {0} /\ {h[i] : i \in 1..Len(C)} \cup {0} \subseteq Q
    BY <1>6 DEF Elements
  <2> HIDE DEF f, h
  <2>5. Max(P) \in P /\ \A x \in P : x <= Max(P) /\ x \in Int
    BY <1>6, <2>1, <2>3, GreatestOf
  <2>6. Q = {h[i] : i \in 1..Len(C)} \cup {0}
    BY <2>4
  <2>7. Max(Q) \in Q
    BY <1>6, <2>2, <2>6, GreatestOf
  <2>8. ASSUME NEW x \in Q PROVE x \in P
    <3>1. CASE x = 0
      BY <3>1
    <3>2. CASE x # 0
      <4>1. PICK i \in 1..Len(C) : SeenBy(g, C[i]) /\ x = C[i].mem
        BY <1>6, <2>8, <3>2 DEF Elements
      <4>2. x \in Mems(a)
        BY <1>5, <1>8, <4>1 DEF Fair
      <4>3. QED BY <1>7, <4>2
    <3>3. QED BY <3>1, <3>2
  <2> HIDE DEF P, Q
  <2>9. Max(P) >= Max(Q)
    BY <2>5, <2>7, <2>8
  <2>10. QED BY <2>9 DEF P, Q
<1>9. \A x \in Elements(a) : x.mem \in {c.mem : c \in Elements(C)} \cup {Nil, 0}
  BY <1>5, <1>6, <1>7 DEF Fair, Elements, Mems
<1>10. /\ Len(ByVendor(a, "nvidia")) <= Len(ByVendor(C, "nvidia"))
       /\ Len(ByVendor(a, "amd")) <= Len(ByVendor(C, "amd"))
  <2>1. /\ Num(a, "nvidia") = Len(ByVendor(a, "nvidia")) /\ Num(C, "nvidia") = Len(ByVendor(C, "nvidia"))
        /\ Num(a, "amd") = Len(ByVendor(a, "amd")) /\ Num(C, "amd") = Len(ByVendor(C, "amd"))
    <3> HIDE DEF C
    <3>1. QED BY <1>4, <1>6, NumsAre
  <2>2. QED BY <1>5, <2>1 DEF Fair
<1>11. \A v \in {"nvidia", "amd"} : Len(ByVendor(a, v)) <= Len(ByVendor(C, v))
  BY <1>10
<1>12. SoundProbe(g, a)
  <2> DEFINE sees == {c \in Elements(C) :
                       IF g.platform = "linux" THEN c.vendor = "amd" \/ (c.vendor = "nvidia" /\ g.nvml # "none")
                       ELSE g.dxgi}
  <2>1. seen = sees
    BY DEF SeenBy
  <2> HIDE DEF sees, seen
  <2>2. g.sizes \/ g.platform = "windows" => largest(Elements(a)) >= largest(sees)
    BY <1>8, <2>1
  <2>3. QED BY <1>9, <1>11, <2>2, Zenon DEF SoundProbe, sees
<1>13. QED BY <1>12 DEF a

-----------------------------------------------------------------------------
WholeCharacters(g) == \A c \in g.cuts : g.stream[c] # "h" /\ g.stream[c+1] # "t"
AnyCuttable(X) ==
  {g \in [stream : Seq(X), cuts : SUBSET Nat] : OneWay(g.stream) /\ g.cuts \subseteq 1..Len(g.stream) - 1}
ParseState(X) == [buf : Seq(X), events : Seq(Seq(X))]
Lowest(P) == IF P = {} THEN 0 ELSE Min(P)
Heard(events, frame) == IF Blank(frame) THEN events ELSE Append(events, Event(frame))

\* The first place of an empty line.
LEMMA PositionIs ==
  ASSUME NEW X, NEW s \in Seq(X)
  PROVE  /\ PositionOf(s, <<"n", "n">>) = Lowest(NN(s))
         /\ PositionOf(s, <<"r", "n", "r", "n">>) = Lowest(RNRN(s))
<1> DEFINE Y == X \cup {"n", "r"}
<1>1. Len(s) \in Nat /\ \A i \in 1..Len(s) : s[i] \in Y
  OBVIOUS
<1>2. s \in Seq(Y)
  OBVIOUS
<1>3. PositionOf(s, <<"n", "n">>) = Lowest(NN(s))
  <2> DEFINE f == [i \in 1..Len(s) - 2 + 1 |-> SubSeq(s, i, i + 2 - 1)]
             w == <<"n", "n">>
             P == {i \in DOMAIN f : f[i] = w}
  <2>1. PositionOf(s, w) = IF P = {} THEN 0 ELSE Min(P)
    <3>1. Len(w) = 2
      OBVIOUS
    <3>2. QED BY <3>1 DEF PositionOf, FirstWhere
  <2>2. DOMAIN f = 1..Len(s) - 1
    BY <1>1
  <2>3. ASSUME NEW i \in 1..Len(s) - 1 PROVE f[i] = w <=> s[i] = "n" /\ s[i+1] = "n"
    <3>1. f[i] = SubSeq(s, i, i + 1)
      BY <1>1
    <3>2. i \in 1..Len(s) /\ i + 1 \in i..Len(s)
      BY <1>1
    <3> DEFINE r == <<s[i], s[i+1]>>
    <3>3. r \in Seq(Y) /\ Len(r) = (i + 1) - i + 1
      BY <1>1, <3>2
    <3>4. \A j \in 1..Len(r) : r[j] = s[i + j - 1]
      BY <1>1, <3>3, SMTT(30)
    <3> HIDE DEF r
    <3>5. SubSeq(s, i, i + 1) = r
      BY <1>2, <3>2, <3>3, <3>4, PartIs
    <3>6. QED BY <3>1, <3>5 DEF r
  <2> HIDE DEF f, w
  <2>4. P = NN(s)
    BY <2>2, <2>3 DEF NN
  <2> HIDE DEF P
  <2>5. PositionOf(s, w) = Lowest(NN(s))
    BY <2>1, <2>4 DEF Lowest
  <2>6. QED BY <2>5 DEF w
<1>4. PositionOf(s, <<"r", "n", "r", "n">>) = Lowest(RNRN(s))
  <2> DEFINE f == [i \in 1..Len(s) - 4 + 1 |-> SubSeq(s, i, i + 4 - 1)]
             w == <<"r", "n", "r", "n">>
             P == {i \in DOMAIN f : f[i] = w}
  <2>1. PositionOf(s, w) = IF P = {} THEN 0 ELSE Min(P)
    <3>1. Len(w) = 4
      OBVIOUS
    <3>2. QED BY <3>1 DEF PositionOf, FirstWhere
  <2>2. DOMAIN f = 1..Len(s) - 3
    BY <1>1
  <2>3. ASSUME NEW i \in 1..Len(s) - 3
        PROVE  f[i] = w <=> s[i] = "r" /\ s[i+1] = "n" /\ s[i+2] = "r" /\ s[i+3] = "n"
    <3>1. f[i] = SubSeq(s, i, i + 3)
      BY <1>1
    <3>2. i \in 1..Len(s) /\ i + 3 \in i..Len(s)
      BY <1>1
    <3> DEFINE r == <<s[i], s[i+1], s[i+2], s[i+3]>>
    <3>3. r \in Seq(Y) /\ Len(r) = (i + 3) - i + 1
      BY <1>1, <3>2
    <3>4. \A j \in 1..Len(r) : r[j] = s[i + j - 1]
      BY <1>1, <3>3, SMTT(30)
    <3> HIDE DEF r
    <3>5. SubSeq(s, i, i + 3) = r
      BY <1>2, <3>2, <3>3, <3>4, PartIs
    <3>6. QED BY <3>1, <3>5 DEF r
  <2> HIDE DEF f, w
  <2>4. P = RNRN(s)
    BY <2>2, <2>3 DEF RNRN
  <2> HIDE DEF P
  <2>5. PositionOf(s, w) = Lowest(RNRN(s))
    BY <2>1, <2>4 DEF Lowest
  <2>6. QED BY <2>5 DEF w
<1>5. QED BY <1>3, <1>4

\* What is left out of an event is no data.
LEMMA EventIs ==
  ASSUME NEW X, NEW s \in Seq(X)
  PROVE  Event(s) \in Seq(X)
<1> DEFINE S == {b \in {s[i] : i \in DOMAIN s} : b # "r"}
<1>1. Event(s) = Kept(s, S)
  BY DEF Event, Where
<1> HIDE DEF S
<1>2. QED BY <1>1, KeptIs

\* One event taken out of the buffer.
LEMMA DrainOneIs ==
  ASSUME NEW X, NEW s \in ParseState(X)
  PROVE  /\ DrainOne(s) = IF NoSep(s.buf) THEN s
                          ELSE [buf |-> RestOf(s.buf), events |-> Heard(s.events, FrameOf(s.buf))]
         /\ DrainOne(s) \in ParseState(X)
<1> DEFINE b == s.buf
<1>1. b \in Seq(X) /\ s.events \in Seq(Seq(X))
  BY DEF ParseState
<1>2. PositionOf(b, <<"n", "n">>) = Lowest(NN(b)) /\ PositionOf(b, <<"r", "n", "r", "n">>) = Lowest(RNRN(b))
  BY <1>1, PositionIs
<1>3. /\ \A i \in NN(b) : i # 0
      /\ \A i \in RNRN(b) : i # 0
  BY DEF NN, RNRN
<1>4. /\ Lowest(NN(b)) # 0 <=> NN(b) # {}
      /\ Lowest(RNRN(b)) # 0 <=> RNRN(b) # {}
  <2>1. NN(b) \in SUBSET Nat /\ RNRN(b) \in SUBSET Nat
    BY <1>1 DEF NN, RNRN
  <2>2. NN(b) # {} => Min(NN(b)) \in NN(b)
    BY <2>1, LeastIs
  <2>3. RNRN(b) # {} => Min(RNRN(b)) \in RNRN(b)
    BY <2>1, LeastIs
  <2>4. QED BY <1>3, <2>2, <2>3 DEF Lowest
<1> DEFINE lf == Lowest(NN(b))
           crlf == Lowest(RNRN(b))
           at == IF lf # 0 THEN lf ELSE crlf
<1>5. DrainOne(s) = IF at = 0 THEN s
        ELSE [buf |-> SubSeq(b, at + (IF lf # 0 THEN 2 ELSE 4), Len(b)),
              events |-> Heard(s.events, SubSeq(b, 1, at - 1))]
  BY <1>2 DEF DrainOne, Heard
<1>6. at = 0 <=> NoSep(b)
  BY <1>4 DEF NoSep
<1>7. ~NoSep(b) => at = Sep(b) /\ (IF lf # 0 THEN 2 ELSE 4) = Wide(b)
  BY <1>4 DEF NoSep, Sep, Wide, Lowest
<1> HIDE DEF lf, crlf, at
<1>8. DrainOne(s) = IF NoSep(b) THEN s
                    ELSE [buf |-> RestOf(b), events |-> Heard(s.events, FrameOf(b))]
  BY <1>5, <1>6, <1>7 DEF RestOf, FrameOf
<1>9. ASSUME ~NoSep(b) PROVE RestOf(b) \in Seq(X) /\ Heard(s.events, FrameOf(b)) \in Seq(Seq(X))
  <2>1. RestOf(b) \in Seq(X) /\ FrameOf(b) \in Seq(X)
    BY <1>1, <1>9, SplitIs DEF IsSplit
  <2>2. Event(FrameOf(b)) \in Seq(X)
    BY <2>1, EventIs
  <2>3. Append(s.events, Event(FrameOf(b))) \in Seq(Seq(X))
    BY <1>1, <2>2
  <2>4. QED BY <1>1, <2>1, <2>3 DEF Heard
<1>10. QED BY <1>8, <1>9 DEF ParseState

\* The buffer after each of its bytes is gone through.
Drains(f, b, ev, X) ==
  /\ f \in [0..Len(b) -> ParseState(X)] /\ f[0] = [buf |-> b, events |-> ev]
  /\ \A i \in 1..Len(b) : f[i] = DrainOne(f[i-1])
  /\ Drained(b, ev) = f[Len(b)]

\* The buffer is gone through, event by event.
LEMMA EventsAreTaken ==
  ASSUME NEW X, NEW b_ \in Seq(X), NEW ev \in Seq(Seq(X))
  PROVE  \E f : Drains(f, b_, ev, X)
<1> DEFINE n == Len(b_)
           T == ParseState(X)
           a == [buf |-> b_, events |-> ev]
           step == [i \in 1..n |-> [t \in T |-> DrainOne(t)]]
           body(j) == [u \in SUBSET (1..n) |->
                         IF u = {} THEN a ELSE DrainOne(j[u \ {Max(u)}])]
<1>1. n \in Nat /\ DOMAIN b_ = 1..n
  OBVIOUS
<1>2. a \in T /\ \A i \in 1..n, t \in T : DrainOne(t) \in T
  <2>1. a \in T
    BY DEF ParseState
  <2>2. \A t \in T : DrainOne(t) \in T
    BY DrainOneIs
  <2>3. QED BY <2>1, <2>2
<1>3. Drained(b_, ev) = (CHOOSE j : j = body(j))[1..n]
  BY <1>1 DEF Drained, FoldLeft, MapThenFoldSet
<1>4. AreSteps(step, n, T) /\ \A i \in 1..n, t \in T : step[i][t] = DrainOne(t)
  BY <1>2 DEF AreSteps
<1> HIDE DEF step, n, T, a
<1>5. \E j : j = body(j)
  <2>1. PICK it : it \in [SUBSET (1..n) -> T] /\ IsFold(it, n, T, a, step)
    BY <1>1, <1>2, <1>4, FoldExists, Zenon
  <2>2. \A u \in SUBSET (1..n) : it[u] = body(it)[u]
    BY <1>1, <1>4, <2>1 DEF IsFold
  <2> HIDE DEF body
  <2>3. it = body(it)
    BY <2>1, <2>2, Zenon DEF body
  <2>4. QED BY <2>3, Zenon
<1>6. PICK j : j = body(j) /\ Drained(b_, ev) = j[1..n]
  BY <1>3, <1>5
<1>7. \A u \in SUBSET (1..n) : j[u] = IF u = {} THEN a ELSE DrainOne(j[u \ {Max(u)}])
  BY <1>6
<1>8. j[{}] = a /\ \A i \in 1..n : j[1..i] = DrainOne(j[1..(i-1)])
  <2>1. {} \in SUBSET (1..n)
    OBVIOUS
  <2>2. j[{}] = a
    BY <1>7, <2>1
  <2>3. ASSUME NEW i \in 1..n PROVE j[1..i] = DrainOne(j[1..(i-1)])
    <3>1. 1..i \in SUBSET (1..n) /\ 1..i # {} /\ (1..i) \ {Max(1..i)} = 1..(i-1)
      BY <1>1, PrefixIs
    <3>2. QED BY <1>7, <3>1
  <2>4. QED BY <2>2, <2>3
<1>9. \A i \in 1..n : j[1..(i-1)] \in T => j[1..i] = step[i][j[1..(i-1)]]
  BY <1>4, <1>8
<1>10. PICK f : TakesSteps(f, n, T, a, step) /\ f[n] = j[1..n]
  BY <1>1, <1>2, <1>4, <1>8, <1>9, FoldTakesSteps
<1>11. f \in [0..n -> T] /\ f[0] = a /\ \A i \in 1..n : f[i] = DrainOne(f[i-1])
  <2>1. f \in [0..n -> T] /\ f[0] = a /\ \A i \in 1..n : f[i] = step[i][f[i-1]] /\ f[i-1] \in T
    BY <1>1, <1>10, StepsAreTaken
  <2>2. QED BY <1>4, <2>1
<1>12. Drains(f, b_, ev, X)
  BY <1>6, <1>10, <1>11 DEF Drains, n, T, a
<1>13. QED BY <1>12

\* At the end there is no empty line left.
LEMMA EventsRunOut ==
  ASSUME NEW X, NEW b \in Seq(X), NEW ev, NEW f, Drains(f, b, ev, X)
  PROVE  /\ \A i \in 0..Len(b) : NoSep(f[i].buf) \/ Len(f[i].buf) <= Len(b) - i
         /\ NoSep(f[Len(b)].buf)
<1> DEFINE n == Len(b)
           Left(i) == NoSep(f[i].buf) \/ Len(f[i].buf) <= n - i
           D == {i \in 0..n : Left(i)}
<1>1. n \in Nat
  OBVIOUS
<1>2. 0 \in D
  BY <1>1 DEF Drains
<1>3. ASSUME NEW i \in 1..n, i - 1 \in D PROVE i \in D
  <2> DEFINE s == f[i-1]
             c == s.buf
  <2>1. s \in ParseState(X) /\ i - 1 \in 0..n /\ Left(i-1)
    BY <1>1, <1>3 DEF Drains
  <2>2. f[i] = DrainOne(s)
    BY DEF Drains
  <2>3. c \in Seq(X) /\ (NoSep(c) \/ Len(c) <= n - (i - 1))
    BY <2>1 DEF ParseState
  <2> HIDE DEF s
  <2>4. CASE NoSep(c)
    <3>1. f[i] = s
      BY <2>1, <2>2, <2>4, DrainOneIs
    <3>2. QED BY <2>4, <3>1
  <2>5. CASE ~NoSep(c)
    <3>1. f[i].buf = RestOf(c)
      BY <2>1, <2>2, <2>5, DrainOneIs
    <3> HIDE DEF c
    <3>2. IsSplit(c, Sep(c), Wide(c), FrameOf(c), RestOf(c), X)
      BY <2>3, <2>5, SplitIs
    <3> DEFINE p == Sep(c)
               w == Wide(c)
               m == Len(c)
    <3>3. p \in 1..m /\ w \in {2, 4} /\ Len(RestOf(c)) = m - (p + w - 1) /\ m \in Nat
      BY <2>3, <3>2 DEF IsSplit
    <3>4. m <= n - (i - 1)
      BY <2>3, <2>5
    <3> HIDE DEF p, w, m, n
    <3>5. Len(RestOf(c)) <= n - i
      BY <1>1, <3>3, <3>4
    <3>6. QED BY <3>1, <3>5 DEF n
  <2>6. QED BY <2>4, <2>5
<1> HIDE DEF D
<1>4. 0..n \subseteq D
  BY <1>1, <1>2, <1>3, Induction
<1>5. \A i \in 0..n : Left(i)
  BY <1>4 DEF D
<1>6. NoSep(f[n].buf)
  <2> DEFINE c == f[n].buf
  <2>1. n \in 0..n
    BY <1>1
  <2>2. c \in Seq(X)
    BY <2>1 DEF Drains, ParseState
  <2>3. NoSep(c) \/ Len(c) <= n - n
    BY <1>5, <2>1
  <2> HIDE DEF c
  <2>4. CASE Len(c) <= n - n
    <3>1. Len(c) \in Nat /\ n - n = 0
      BY <1>1, <2>2
    <3>2. Len(c) = 0
      BY <2>4, <3>1
    <3>3. QED BY <3>2 DEF NoSep, NN, RNRN, c
  <2>5. QED BY <2>3, <2>4 DEF c
<1>7. QED BY <1>5, <1>6

\* What is drained is a buffer and events.
LEMMA EventsAreDrained ==
  ASSUME NEW X, NEW b \in Seq(X), NEW ev \in Seq(Seq(X))
  PROVE  Drained(b, ev) \in ParseState(X)
<1>1. PICK f : Drains(f, b, ev, X)
  BY EventsAreTaken
<1>2. Len(b) \in 0..Len(b)
  OBVIOUS
<1>3. QED BY <1>1, <1>2 DEF Drains

\* The pieces of a stream, one after the other.
Nothing == [buf |-> <<>>, events |-> <<>>]
TakePiece(s, piece) == Drained(s.buf \o piece, s.events)
Taken(pieces) == FoldLeft(LAMBDA s, piece : TakePiece(s, piece), Nothing, pieces)
Takes(f, pieces, X) ==
  /\ f \in [0..Len(pieces) -> ParseState(X)] /\ f[0] = Nothing
  /\ \A i \in 1..Len(pieces) : f[i] = TakePiece(f[i-1], pieces[i])
  /\ Taken(pieces) = f[Len(pieces)]

\* The pieces are taken one after the other.
LEMMA PiecesAreTaken ==
  ASSUME NEW X, NEW p_ \in Seq(Seq(X))
  PROVE  \E f : Takes(f, p_, X)
<1> DEFINE n == Len(p_)
           T == ParseState(X)
           a == Nothing
           step == [i \in 1..n |-> [t \in T |-> TakePiece(t, p_[i])]]
           body(j) == [u \in SUBSET (1..n) |->
                         IF u = {} THEN a ELSE TakePiece(j[u \ {Max(u)}], p_[Max(u)])]
<1>1. n \in Nat /\ DOMAIN p_ = 1..n
  OBVIOUS
<1>2. a \in T /\ \A i \in 1..n, t \in T : TakePiece(t, p_[i]) \in T
  <2>1. a \in T
    BY DEF ParseState, Nothing
  <2>2. \A i \in 1..n : p_[i] \in Seq(X)
    OBVIOUS
  <2>3. ASSUME NEW t \in T, NEW q \in Seq(X) PROVE TakePiece(t, q) \in T
    <3>1. t.buf \o q \in Seq(X) /\ t.events \in Seq(Seq(X))
      BY DEF ParseState
    <3>2. QED BY <3>1, EventsAreDrained DEF TakePiece
  <2>4. QED BY <2>1, <2>2, <2>3
<1>3. Taken(p_) = (CHOOSE j : j = body(j))[1..n]
  BY <1>1 DEF Taken, FoldLeft, MapThenFoldSet
<1>4. AreSteps(step, n, T) /\ \A i \in 1..n, t \in T : step[i][t] = TakePiece(t, p_[i])
  BY <1>2 DEF AreSteps
<1> HIDE DEF step, n, T, a
<1>5. \E j : j = body(j)
  <2>1. PICK it : it \in [SUBSET (1..n) -> T] /\ IsFold(it, n, T, a, step)
    BY <1>1, <1>2, <1>4, FoldExists, Zenon
  <2>2. \A u \in SUBSET (1..n) : it[u] = body(it)[u]
    BY <1>1, <1>4, <2>1 DEF IsFold
  <2> HIDE DEF body
  <2>3. it = body(it)
    BY <2>1, <2>2, Zenon DEF body
  <2>4. QED BY <2>3, Zenon
<1>6. PICK j : j = body(j) /\ Taken(p_) = j[1..n]
  BY <1>3, <1>5
<1>7. \A u \in SUBSET (1..n) : j[u] = IF u = {} THEN a ELSE TakePiece(j[u \ {Max(u)}], p_[Max(u)])
  BY <1>6
<1>8. j[{}] = a /\ \A i \in 1..n : j[1..i] = TakePiece(j[1..(i-1)], p_[i])
  BY <1>1, <1>7, PrefixIs
<1>9. \A i \in 1..n : j[1..(i-1)] \in T => j[1..i] = step[i][j[1..(i-1)]]
  BY <1>4, <1>8
<1>10. PICK f : TakesSteps(f, n, T, a, step) /\ f[n] = j[1..n]
  BY <1>1, <1>2, <1>4, <1>8, <1>9, FoldTakesSteps
<1>11. f \in [0..n -> T] /\ f[0] = a /\ \A i \in 1..n : f[i] = TakePiece(f[i-1], p_[i])
  <2>1. f \in [0..n -> T] /\ f[0] = a /\ \A i \in 1..n : f[i] = step[i][f[i-1]] /\ f[i-1] \in T
    BY <1>1, <1>10, StepsAreTaken
  <2>2. QED BY <1>4, <2>1
<1>12. Takes(f, p_, X)
  BY <1>6, <1>10, <1>11 DEF Takes, n, T, a
<1>13. QED BY <1>12

\* The pieces are the parts of the stream between its cuts.
IsCut(e, K, pieces, stream, X) ==
  /\ K \in Nat \ {0} /\ pieces \in Seq(Seq(X)) /\ Len(pieces) = K
  /\ e \in [0..K -> 0..Len(stream)] /\ e[0] = 0 /\ e[K] = Len(stream)
  /\ \A i \in 1..K : e[i-1] <= e[i] /\ pieces[i] = SubSeq(stream, e[i-1] + 1, e[i])

\* The pieces are a cut of the stream.
LEMMA PiecesAre ==
  ASSUME NEW X, NEW g \in AnyCuttable(X)
  PROVE  \E e, K : IsCut(e, K, Pieces(g), g.stream, X)
<1> DEFINE s == g.stream
           n == Len(s)
           A == g.cuts \cup {n}
           K == Cardinality(A)
           chosen(i) == CHOOSE c \in A : Nth(A, c) = i
           ends == [i \in 1..K |-> chosen(i)]
           e == [i \in 0..K |-> IF i = 0 THEN 0 ELSE chosen(i)]
           p == Pieces(g)
<1>1. s \in Seq(X) /\ n \in Nat /\ g.cuts \subseteq 1..n - 1
  BY DEF AnyCuttable
<1>2. A \in SUBSET (0..n) /\ n \in A /\ \A c \in A : c <= n /\ c \in Nat
  BY <1>1
<1>3. p = [i \in DOMAIN ends |-> SubSeq(s, IF i = 1 THEN 1 ELSE ends[i-1] + 1, ends[i])]
  BY DEF Pieces, Nth, NotAbove
<1> HIDE DEF s, A
<1>4. /\ IsFiniteSet(A) /\ K \in Nat
      /\ \A i \in 1..K : \E c \in A : Nth(A, c) = i
      /\ \A c \in A : IsFiniteSet(NotAbove(A, c)) /\ Nth(A, c) \in Nat
  BY <1>1, <1>2, RanksAre
<1>5. K # 0
  BY <1>2, <1>4, FS_EmptySet
<1>6. ASSUME NEW i \in 1..K PROVE chosen(i) \in A /\ Nth(A, chosen(i)) = i
  BY <1>4
<1> HIDE DEF chosen, K, n
<1>7. e \in [0..K -> 0..n] /\ e[0] = 0
  <2>1. \A i \in 1..K : chosen(i) \in 0..n
    BY <1>2, <1>6
  <2>2. 0 \in 0..K /\ 0 \in 0..n /\ \A i \in 0..K : i # 0 => i \in 1..K
    BY <1>1, <1>4
  <2>3. QED BY <2>1, <2>2
<1>8. \A i \in 1..K : e[i] = chosen(i) /\ e[i] = ends[i]
  BY <1>4
<1>9. e[K] = n
  <2> DEFINE c == chosen(K)
  <2>1. K \in 1..K
    BY <1>4, <1>5
  <2>2. c \in A /\ Nth(A, c) = K
    BY <1>6, <2>1
  <2> HIDE DEF c
  <2>3. NotAbove(A, c) \in SUBSET A /\ Cardinality(A) = Cardinality(NotAbove(A, c))
    BY <2>2 DEF NotAbove, Nth, K
  <2>4. A = NotAbove(A, c)
    BY <1>4, <2>3, FS_Subset
  <2>5. n <= c
    BY <1>2, <2>4 DEF NotAbove
  <2>6. c = n
    BY <1>1, <1>2, <2>2, <2>5
  <2>7. QED BY <1>8, <2>1, <2>6 DEF c
<1>10. ASSUME NEW i \in 1..K PROVE e[i-1] <= e[i]
  <2>1. CASE i = 1
    BY <1>2, <1>6, <1>7, <1>8, <2>1
  <2>2. CASE i # 1
    <3> DEFINE c == chosen(i-1)
               d == chosen(i)
    <3>1. i - 1 \in 1..K
      BY <1>4, <2>2
    <3>2. c \in A /\ d \in A /\ Nth(A, c) = i - 1 /\ Nth(A, d) = i /\ e[i-1] = c /\ e[i] = d
      BY <1>6, <1>8, <3>1
    <3> HIDE DEF c, d
    <3>3. c \in Nat /\ d \in Nat
      BY <1>2, <3>2
    <3>4. CASE c > d
      <4>1. NotAbove(A, d) \in SUBSET NotAbove(A, c)
        <5>1. \A k \in A : k <= d => k <= c
          BY <1>2, <3>3, <3>4
        <5>2. QED BY <5>1, Zenon DEF NotAbove
      <4>2. Nth(A, d) <= Nth(A, c)
        BY <1>4, <3>2, <4>1, FS_Subset DEF Nth
      <4>3. QED BY <1>4, <3>2, <4>2
    <3>5. CASE ~(c > d)
      BY <3>2, <3>3, <3>5
    <3>6. QED BY <3>4, <3>5
  <2>3. QED BY <2>1, <2>2
<1>11. \A i \in 1..K : p[i] = SubSeq(s, e[i-1] + 1, e[i])
  <2> SUFFICES ASSUME NEW i \in 1..K PROVE p[i] = SubSeq(s, e[i-1] + 1, e[i])
    OBVIOUS
  <2>1. p[i] = SubSeq(s, IF i = 1 THEN 1 ELSE ends[i-1] + 1, ends[i])
    BY <1>3
  <2>2. (IF i = 1 THEN 1 ELSE ends[i-1] + 1) = e[i-1] + 1
    <3>1. CASE i = 1
      BY <1>7, <3>1
    <3>2. CASE i # 1
      <4>1. i - 1 \in 1..K
        BY <1>4, <3>2
      <4>2. QED BY <1>8, <3>2, <4>1
    <3>3. QED BY <3>1, <3>2
  <2>3. e[i] = ends[i]
    BY <1>8
  <2> HIDE DEF e, ends, p
  <2>4. QED BY <2>1, <2>2, <2>3
<1> HIDE DEF e
<1>12. p \in Seq(Seq(X)) /\ Len(p) = K
  <2>1. DOMAIN p = 1..K
    BY <1>3
  <2>2. ASSUME NEW i \in 1..K PROVE p[i] \in Seq(X)
    <3>1. i \in 0..K /\ i - 1 \in 0..K
      BY <1>4
    <3>2. e[i] \in 0..n /\ e[i-1] \in 0..n
      BY <1>7, <3>1
    <3> DEFINE lo == e[i-1] + 1
               hi == e[i]
    <3>3. 1 <= lo /\ hi <= n /\ lo \in Int /\ hi \in Int
      BY <1>1, <3>2
    <3> HIDE DEF lo, hi
    <3>4. SubSeq(s, lo, hi) \in Seq(X)
      BY <1>1, <3>3, SubSeqProperties DEF n
    <3>5. QED BY <1>11, <3>4 DEF lo, hi
  <2>3. p = [i \in 1..K |-> p[i]]
    BY <1>3
  <2>4. p \in [1..K -> Seq(X)]
    BY <2>2, <2>3
  <2>5. QED BY <1>4, <2>4, SeqDef, LenProperties
<1>13. IsCut(e, K, p, s, X)
  BY <1>4, <1>5, <1>7, <1>9, <1>10, <1>11, <1>12 DEF IsCut, n
<1>14. QED BY <1>13 DEF p, s

\* Whatever is taken out of what is there is what is taken out of the whole stream.
Follows(s, r, f, n) ==
  \E k \in 0..n : f[k].buf = s.buf \o r /\ f[k].events = s.events
Whole(f, s, X) ==
  /\ s \in Seq(X) /\ OneWay(s) /\ Drains(f, s, <<>>, X)
  /\ \A k \in 0..Len(s) : OneWay(f[k].buf)

\* Any stream that ends its lines one way is drained to its end.
LEMMA WholeIs ==
  ASSUME NEW X, NEW s \in Seq(X), OneWay(s)
  PROVE  \E f : Whole(f, s, X)
<1> DEFINE n == Len(s)
<1>1. n \in Nat /\ <<>> \in Seq(Seq(X))
  OBVIOUS
<1>2. PICK f : Drains(f, s, <<>>, X)
  BY <1>1, EventsAreTaken
<1> DEFINE D == {i \in 0..n : OneWay(f[i].buf)}
<1>3. 0 \in D
  BY <1>1, <1>2 DEF Drains
<1>4. ASSUME NEW i \in 1..n, i - 1 \in D PROVE i \in D
  <2> DEFINE t == f[i-1]
             c == t.buf
  <2>1. t \in ParseState(X) /\ OneWay(c) /\ f[i] = DrainOne(t) /\ i \in 0..n
    BY <1>1, <1>2, <1>4 DEF Drains
  <2>2. c \in Seq(X)
    BY <2>1 DEF ParseState
  <2> HIDE DEF t
  <2>3. DrainOne(t) = IF NoSep(t.buf) THEN t
                      ELSE [buf |-> RestOf(t.buf), events |-> Heard(t.events, FrameOf(t.buf))]
    BY <2>1, DrainOneIs
  <2>4. CASE NoSep(c)
    BY <2>1, <2>3, <2>4
  <2>5. CASE ~NoSep(c)
    <3>1. f[i].buf = RestOf(c)
      BY <2>1, <2>3, <2>5
    <3>2. OneWay(RestOf(c))
      <4> HIDE DEF c
      <4>1. QED BY <2>1, <2>2, <2>5, RestEndsOneWay
    <3>3. QED BY <2>1, <3>1, <3>2
  <2>6. QED BY <2>4, <2>5
<1> HIDE DEF D
<1>5. 0..n \subseteq D
  BY <1>1, <1>3, <1>4, Induction
<1>6. \A i \in 0..n : OneWay(f[i].buf)
  BY <1>5 DEF D
<1>7. Whole(f, s, X)
  BY <1>2, <1>6 DEF Whole
<1>8. QED BY <1>7

\* All that is drained of the beginning.
LEMMA DrainedFollows ==
  ASSUME NEW X, NEW s, NEW f, Whole(f, s, X), NEW b \in Seq(X), NEW ev \in Seq(Seq(X)), NEW r \in Seq(X),
         Follows([buf |-> b, events |-> ev], r, f, Len(s))
  PROVE  Follows(Drained(b, ev), r, f, Len(s)) /\ NoSep(Drained(b, ev).buf)
<1> DEFINE n == Len(s)
           l == Len(b)
<1>1. n \in Nat /\ l \in Nat
  BY DEF Whole
<1>2. PICK m : Drains(m, b, ev, X)
  BY EventsAreTaken
<1>3. NoSep(m[l].buf) /\ Drained(b, ev) = m[l]
  BY <1>2, EventsRunOut DEF Drains
<1>4. NoSep(f[n].buf)
  BY EventsRunOut DEF Whole
<1> DEFINE D == {i \in 0..l : Follows(m[i], r, f, n)}
<1>5. 0 \in D
  <2>1. m[0] = [buf |-> b, events |-> ev]
    BY <1>2 DEF Drains
  <2>2. QED BY <1>1, <2>1
<1>6. ASSUME NEW i \in 1..l, i - 1 \in D PROVE i \in D
  <2> DEFINE t == m[i-1]
             c == t.buf
  <2>1. t \in ParseState(X) /\ Follows(t, r, f, n) /\ m[i] = DrainOne(t) /\ i \in 0..l
    <3>1. Follows(m[i-1], r, f, n) /\ i - 1 \in 0..l
      BY <1>6
    <3>2. m[i-1] \in ParseState(X) /\ m[i] = DrainOne(m[i-1])
      BY <1>2, <3>1 DEF Drains
    <3>3. QED BY <1>1, <3>1, <3>2
  <2>2. c \in Seq(X)
    BY <2>1 DEF ParseState
  <2> HIDE DEF t
  <2>3. DrainOne(t) = IF NoSep(t.buf) THEN t
                      ELSE [buf |-> RestOf(t.buf), events |-> Heard(t.events, FrameOf(t.buf))]
    BY <2>1, DrainOneIs
  <2>4. CASE NoSep(c)
    BY <2>1, <2>3, <2>4
  <2>5. CASE ~NoSep(c)
    <3>1. PICK k \in 0..n : f[k].buf = c \o r /\ f[k].events = t.events
      BY <2>1 DEF Follows
    <3>2. f[k] \in ParseState(X) /\ OneWay(c \o r)
      BY <3>1 DEF Whole, Drains
    <3>3. /\ ~NoSep(c \o r) /\ FrameOf(c \o r) = FrameOf(c)
          /\ RestOf(c) \o r = RestOf(c \o r)
      <4> HIDE DEF c
      <4>1. QED BY <2>2, <2>5, <3>2, SplitStays
    <3>4. k # n
      BY <1>4, <3>1, <3>3
    <3>5. k + 1 \in 1..n /\ k + 1 \in 0..n /\ (k + 1) - 1 = k
      BY <1>1, <3>4
    <3>6. f[k+1] = DrainOne(f[k])
      BY <3>5 DEF Whole, Drains
    <3> DEFINE u == f[k]
    <3>7. u \in ParseState(X) /\ u.buf = c \o r /\ u.events = t.events /\ f[k+1] = DrainOne(u)
      BY <3>1, <3>2, <3>6
    <3> HIDE DEF u
    <3>8. DrainOne(u) = IF NoSep(u.buf) THEN u
                        ELSE [buf |-> RestOf(u.buf), events |-> Heard(u.events, FrameOf(u.buf))]
      BY <3>7, DrainOneIs
    <3>9. f[k+1].buf = RestOf(c) \o r /\ f[k+1].events = Heard(t.events, FrameOf(c))
      BY <3>3, <3>7, <3>8
    <3>10. m[i].buf = RestOf(c) /\ m[i].events = Heard(t.events, FrameOf(c))
      BY <2>1, <2>3, <2>5
    <3>11. Follows(m[i], r, f, n)
      BY <3>5, <3>9, <3>10 DEF Follows
    <3>12. QED BY <2>1, <3>11
  <2>6. QED BY <2>4, <2>5
<1> HIDE DEF D
<1>7. 0..l \subseteq D
  BY <1>1, <1>5, <1>6, Induction
<1>8. l \in D
  <2>1. l \in 0..l
    BY <1>1
  <2>2. QED BY <1>7, <2>1
<1>9. Follows(m[l], r, f, n)
  BY <1>8 DEF D
<1>10. QED BY <1>3, <1>9

\* The buffer is not drained any further when nothing is left to be taken out.
LEMMA DrainedStays ==
  ASSUME NEW X, NEW s, NEW f, Whole(f, s, X), NEW k \in 0..Len(s), NoSep(f[k].buf)
  PROVE  f[k] = f[Len(s)]
<1> DEFINE n == Len(s)
           D == {i \in 0..n : i >= k => f[i] = f[k]}
<1>1. n \in Nat
  BY DEF Whole
<1>2. 0 \in D
  <2>1. CASE k = 0
    BY <1>1, <2>1
  <2>2. CASE k # 0
    BY <1>1, <2>2
  <2>3. QED BY <2>1, <2>2
<1>3. ASSUME NEW i \in 1..n, i - 1 \in D PROVE i \in D
  <2>1. i \in 0..n /\ i - 1 \in 0..n
    BY <1>1
  <2>2. CASE i - 1 >= k
    <3> DEFINE t == f[i-1]
    <3>1. t = f[k] /\ f[i] = DrainOne(t) /\ t \in ParseState(X)
      BY <1>3, <2>1, <2>2 DEF Whole, Drains
    <3> HIDE DEF t
    <3>2. DrainOne(t) = IF NoSep(t.buf) THEN t
                        ELSE [buf |-> RestOf(t.buf), events |-> Heard(t.events, FrameOf(t.buf))]
      BY <3>1, DrainOneIs
    <3>3. f[i] = f[k]
      BY <3>1, <3>2
    <3>4. QED BY <2>1, <3>3
  <2>3. CASE ~(i - 1 >= k)
    <3>1. i >= k => i = k
      BY <1>1, <2>3
    <3>2. QED BY <2>1, <3>1
  <2>4. QED BY <2>2, <2>3
<1> HIDE DEF D
<1>4. 0..n \subseteq D
  BY <1>1, <1>2, <1>3, Induction
<1>5. n \in D
  BY <1>1, <1>4
<1>6. n >= k
  BY <1>1
<1>7. QED BY <1>5, <1>6 DEF D

\* However a stream is cut, the same is taken out of it in the end.
LEMMA CutsDoNotMatter ==
  ASSUME NEW X, NEW g \in AnyCuttable(X), NEW f, Whole(f, g.stream, X)
  PROVE  Taken(Pieces(g)) = f[Len(g.stream)]
<1> DEFINE s == g.stream
           n == Len(s)
           p == Pieces(g)
<1>1. s \in Seq(X) /\ n \in Nat
  BY DEF AnyCuttable
<1>2. PICK e, K : IsCut(e, K, p, s, X)
  BY PiecesAre
<1> HIDE DEF s, p
<1>3. /\ K \in Nat \ {0} /\ p \in Seq(Seq(X)) /\ Len(p) = K
      /\ e \in [0..K -> 0..n] /\ e[0] = 0 /\ e[K] = n
      /\ \A i \in 1..K : e[i-1] <= e[i] /\ p[i] = SubSeq(s, e[i-1] + 1, e[i])
  BY <1>2 DEF IsCut
<1>4. PICK h : Takes(h, p, X)
  BY <1>3, PiecesAreTaken
<1>5. /\ h \in [0..K -> ParseState(X)] /\ h[0] = Nothing
      /\ \A i \in 1..K : h[i] = TakePiece(h[i-1], p[i])
      /\ Taken(p) = h[K]
  BY <1>3, <1>4 DEF Takes
<1>6. Whole(f, s, X)
  BY DEF s
<1> DEFINE left(i) == SubSeq(s, e[i] + 1, n)
           D == {i \in 0..K : Follows(h[i], left(i), f, n) /\ NoSep(h[i].buf)}
<1>7. 0 \in D
  <2>1. left(0) = s
    <3>1. left(0) = SubSeq(s, 0 + 1, Len(s))
      BY <1>3
    <3>2. \A x \in Seq(X) : SubSeq(x, 1, Len(x)) = x
      OBVIOUS
    <3> HIDE DEF left
    <3>3. QED BY <1>1, <3>1, <3>2
  <2>2. f[0].buf = s /\ f[0].events = <<>>
    BY <1>6 DEF Whole, Drains
  <2>3. h[0].buf = <<>> /\ h[0].events = <<>>
    BY <1>5 DEF Nothing
  <2>4. <<>> \o s = s
    BY <1>1
  <2>5. Follows(h[0], left(0), f, n)
    <3>1. 0 \in 0..n
      BY <1>1
    <3>2. QED BY <2>1, <2>2, <2>3, <2>4, <3>1 DEF Follows
  <2>6. NoSep(h[0].buf)
    BY <2>3 DEF NoSep, NN, RNRN
  <2>7. 0 \in 0..K
    BY <1>3
  <2>8. QED BY <2>5, <2>6, <2>7
<1>8. ASSUME NEW i \in 1..K, i - 1 \in D PROVE i \in D
  <2> DEFINE t == h[i-1]
             lo == e[i-1]
             hi == e[i]
             b == t.buf \o p[i]
             r == SubSeq(s, hi + 1, Len(s))
  <2>1. /\ t \in ParseState(X) /\ Follows(t, left(i-1), f, n) /\ i - 1 \in 0..K /\ i \in 0..K
        /\ h[i] = TakePiece(t, p[i]) /\ p[i] \in Seq(X)
    <3>1. Follows(h[i-1], left(i-1), f, n) /\ i - 1 \in 0..K
      BY <1>8
    <3>2. h[i-1] \in ParseState(X) /\ h[i] = TakePiece(h[i-1], p[i])
      BY <1>5, <3>1
    <3>3. p[i] \in Seq(X) /\ i \in 0..K
      BY <1>3
    <3>4. QED BY <3>1, <3>2, <3>3
  <2>2. lo \in 0..n /\ hi \in lo..n /\ p[i] = SubSeq(s, lo + 1, hi)
    <3>1. lo \in 0..n /\ hi \in 0..n
      BY <1>3, <2>1
    <3>2. lo <= hi /\ p[i] = SubSeq(s, lo + 1, hi)
      BY <1>3
    <3> HIDE DEF lo, hi
    <3>3. QED BY <1>1, <3>1, <3>2
  <2>3. t.buf \in Seq(X) /\ t.events \in Seq(Seq(X))
    BY <2>1 DEF ParseState
  <2>4. b \in Seq(X) /\ h[i] = Drained(b, t.events)
    BY <2>1, <2>3 DEF TakePiece
  <2>5. left(i-1) = SubSeq(s, lo + 1, Len(s)) /\ left(i) = r
    OBVIOUS
  <2> HIDE DEF t, lo, hi
  <2>6. r \in Seq(X) /\ t.buf \o SubSeq(s, lo + 1, Len(s)) = b \o r
    <3> DEFINE tb == t.buf
               pi == p[i]
    <3>1. tb \in Seq(X) /\ pi = SubSeq(s, lo + 1, hi) /\ lo \in 0..Len(s) /\ hi \in lo..Len(s)
      BY <2>2, <2>3
    <3> HIDE DEF tb
    <3>2. /\ SubSeq(s, hi + 1, Len(s)) \in Seq(X)
          /\ tb \o SubSeq(s, lo + 1, Len(s)) = (tb \o SubSeq(s, lo + 1, hi)) \o SubSeq(s, hi + 1, Len(s))
      <4>1. s \in Seq(X) /\ tb \in Seq(X) /\ lo \in 0..Len(s) /\ hi \in lo..Len(s)
        BY <1>1, <3>1
      <4>2. Parted(s, tb, lo, hi, X)
        BY <4>1, RestIs
      <4>3. QED BY <4>2 DEF Parted
    <3>3. QED BY <3>1, <3>2 DEF tb
  <2>7. PICK k \in 0..n : f[k].buf = t.buf \o left(i-1) /\ f[k].events = t.events
    BY <2>1 DEF Follows
  <2>8. f[k].buf = b \o r
    BY <2>5, <2>6, <2>7
  <2> DEFINE z == [buf |-> b, events |-> t.events]
  <2>9. z.buf = b /\ z.events = t.events
    OBVIOUS
  <2> HIDE DEF b, r, z
  <2>10. Follows(z, r, f, n)
    BY <2>7, <2>8, <2>9 DEF Follows
  <2>11. Follows(Drained(b, t.events), r, f, n) /\ NoSep(Drained(b, t.events).buf)
    BY <1>6, <2>3, <2>4, <2>6, <2>10, DrainedFollows DEF z
  <2>12. QED BY <2>1, <2>4, <2>5, <2>11
<1> HIDE DEF D
<1>9. 0..K \subseteq D
  BY <1>3, <1>7, <1>8, Induction
<1>10. K \in D
  <2>1. K \in 0..K
    BY <1>3
  <2>2. QED BY <1>9, <2>1
<1>11. PICK k \in 0..n : f[k].buf = h[K].buf \o left(K) /\ f[k].events = h[K].events
  BY <1>10 DEF D, Follows
<1>12. NoSep(h[K].buf)
  BY <1>10 DEF D
<1>13. f[k] \in ParseState(X) /\ h[K] \in ParseState(X)
  <2>1. K \in 0..K
    BY <1>3
  <2>2. QED BY <1>5, <1>6, <2>1 DEF Whole, Drains
<1>14. left(K) = <<>>
  <2>1. left(K) = SubSeq(s, n + 1, n)
    BY <1>3
  <2>2. SubSeq(s, n + 1, n) = <<>>
    <3>1. \A x \in Seq(X), m \in Nat : SubSeq(x, m + 1, m) = <<>>
      OBVIOUS
    <3>2. QED BY <1>1, <3>1
  <2>3. QED BY <2>1, <2>2
<1>15. h[K].buf \o <<>> = h[K].buf
  <2>1. h[K].buf \in Seq(X)
    BY <1>13 DEF ParseState
  <2>2. QED BY <2>1
<1>16. f[k] = h[K]
  <2>1. f[k].buf = h[K].buf
    BY <1>11, <1>14, <1>15
  <2> DEFINE u == f[k]
             v == h[K]
  <2>2. u \in ParseState(X) /\ v \in ParseState(X) /\ u.buf = v.buf /\ u.events = v.events
    BY <1>11, <1>13, <2>1
  <2> HIDE DEF u, v
  <2>3. u = v
    BY <2>2 DEF ParseState
  <2>4. QED BY <2>3 DEF u, v
<1>17. f[k] = f[n]
  BY <1>6, <1>12, <1>16, DrainedStays
<1>18. QED BY <1>5, <1>16, <1>17 DEF s, p

\* The data of a stream, of an event, and of what has none.
DataOf(s) == Where(s, LAMBDA b : b \in Data)

\* The data of a frame is that of its event.
LEMMA DataIs ==
  ASSUME NEW X, NEW s \in Seq(X)
  PROVE  /\ DataOf(s) = Kept(s, Data) /\ DataOf(s) \in Seq(X)
         /\ DataOf(Event(s)) = DataOf(s)
         /\ Blank(s) => DataOf(s) = <<>>
<1>1. \A t \in Seq(X) : DataOf(t) = Kept(t, Data)
  <2> SUFFICES ASSUME NEW t \in Seq(X) PROVE DataOf(t) = Kept(t, Data)
    OBVIOUS
  <2> DEFINE S == {b \in {t[i] : i \in DOMAIN t} : b \in Data}
  <2>1. DataOf(t) = Kept(t, S)
    BY DEF DataOf, Where
  <2>2. \A i \in 1..Len(t) : (t[i] \in S <=> t[i] \in Data) /\ (t[i] \in S => t[i] = t[i])
    OBVIOUS
  <2> HIDE DEF S
  <2>3. Kept(t, S) = Kept(t, Data)
    BY <2>2, KeptSame
  <2>4. QED BY <2>1, <2>3
<1>2. Kept(s, Data) \in Seq(X)
  BY KeptIs
<1> DEFINE T == {b \in {s[i] : i \in DOMAIN s} : b # "r"}
<1>3. Event(s) = Kept(s, T)
  BY DEF Event, Where
<1>4. DataOf(Event(s)) = DataOf(s)
  <2> DEFINE U == X \ {"r"}
  <2>1. \A i \in 1..Len(s) : (s[i] \in T <=> s[i] \in U) /\ (s[i] \in T => s[i] = s[i])
    OBVIOUS
  <2>2. Data \cap X \subseteq U
    BY DEF Data
  <2> HIDE DEF T, U
  <2>3. Kept(s, T) = Kept(s, U)
    BY <2>1, KeptSame
  <2>4. Kept(Kept(s, U), Data) = Kept(s, Data)
    BY <2>2, KeptOfKept
  <2>5. Event(s) \in Seq(X)
    BY EventIs
  <2>6. QED BY <1>1, <1>3, <2>3, <2>4, <2>5
<1>5. ASSUME Blank(s) PROVE DataOf(s) = <<>>
  <2>1. \A i \in 1..Len(s) : s[i] \notin Data
    BY <1>5 DEF Blank, Elements
  <2>2. Kept(s, Data) = <<>>
    BY <2>1, KeptNothing
  <2>3. QED BY <1>1, <2>2
<1>6. QED BY <1>1, <1>2, <1>4, <1>5

\* An event that is said keeps the data.
LEMMA SaidData ==
  ASSUME NEW X, NEW ev \in Seq(Seq(X)), NEW frame \in Seq(X)
  PROVE  /\ Heard(ev, frame) \in Seq(Seq(X))
         /\ DataOf(FlattenSeq(Heard(ev, frame))) = DataOf(FlattenSeq(ev)) \o DataOf(frame)
<1> DEFINE e == Event(frame)
           l == FlattenSeq(ev)
<1>1. e \in Seq(X)
  BY EventIs
<1>2. Append(ev, e) \in Seq(Seq(X))
  BY <1>1
<1>3. l \in Seq(X) /\ FlattenSeq(Append(ev, e)) = l \o e
  BY <1>1, FlattenOfAppend
<1> HIDE DEF e, l
<1>4. /\ DataOf(e) = DataOf(frame) /\ DataOf(l) \in Seq(X)
      /\ Blank(frame) => DataOf(frame) = <<>>
  BY <1>3, DataIs DEF e
<1>5. CASE Blank(frame)
  <2>1. Heard(ev, frame) = ev
    BY <1>5 DEF Heard
  <2>2. DataOf(l) \o <<>> = DataOf(l)
    BY <1>4
  <2>3. QED BY <1>4, <1>5, <2>1, <2>2 DEF l
<1>6. CASE ~Blank(frame)
  <2>1. Heard(ev, frame) = Append(ev, e)
    BY <1>6 DEF Heard, e
  <2>2. l \o e \in Seq(X)
    BY <1>1, <1>3
  <2>3. DataOf(l \o e) = Kept(l \o e, Data) /\ DataOf(l) = Kept(l, Data) /\ DataOf(e) = Kept(e, Data)
    BY <1>1, <1>3, <2>2, DataIs
  <2>4. Kept(l \o e, Data) = Kept(l, Data) \o Kept(e, Data)
    BY <1>1, <1>3, KeptOfJoined
  <2>5. QED BY <1>2, <1>3, <1>4, <2>1, <2>3, <2>4 DEF l
<1>7. QED BY <1>5, <1>6

\* What separates two events is no data.
LEMMA SplitData ==
  ASSUME NEW X, NEW b \in Seq(X), ~NoSep(b)
  PROVE  DataOf(b) = DataOf(FrameOf(b)) \o DataOf(RestOf(b))
<1> DEFINE p == Sep(b)
           w == Wide(b)
           f == FrameOf(b)
           r == RestOf(b)
           m == [i \in 1..w |-> b[p + i - 1]]
           a == f \o m
           n == Len(b)
<1>1. IsSplit(b, p, w, f, r, X)
  BY SplitIs
<1> HIDE DEF p, w, f, r
<1>2. /\ p \in 1..n /\ w \in {2, 4} /\ p + w - 1 <= n /\ n \in Nat
      /\ f \in Seq(X) /\ Len(f) = p - 1 /\ \A i \in 1..p - 1 : f[i] = b[i]
      /\ r \in Seq(X) /\ Len(r) = n - (p + w - 1)
      /\ \A i \in 1..Len(r) : r[i] = b[(p + w - 1) + i]
  BY <1>1 DEF IsSplit
<1>3. ASSUME NEW i \in 1..w PROVE b[p + i - 1] \notin Data /\ p + i - 1 \in 1..n
  <2>1. CASE w = 2
    <3>1. b[p] = "n" /\ b[p+1] = "n"
      BY <1>1, <2>1 DEF IsSplit
    <3>2. p + i - 1 = p \/ p + i - 1 = p + 1
      BY <1>2, <2>1
    <3>3. QED BY <1>2, <2>1, <3>1, <3>2 DEF Data
  <2>2. CASE w = 4
    <3>1. b[p] = "r" /\ b[p+1] = "n" /\ b[p+2] = "r" /\ b[p+3] = "n"
      BY <1>1, <2>2 DEF IsSplit
    <3>2. p + i - 1 = p \/ p + i - 1 = p + 1 \/ p + i - 1 = p + 2 \/ p + i - 1 = p + 3
      BY <1>2, <2>2
    <3>3. QED BY <1>2, <2>2, <3>1, <3>2 DEF Data
  <2>3. QED BY <1>2, <2>1, <2>2
<1>4. m \in Seq(X) /\ Len(m) = w
  <2>1. \A i \in 1..w : b[p + i - 1] \in X
    BY <1>3
  <2>2. m \in [1..w -> X] /\ w \in Nat
    BY <1>2, <2>1
  <2>3. QED BY <2>2, SeqDef, LenProperties
<1>5. Kept(m, Data) = <<>>
  <2>1. \A i \in 1..Len(m) : m[i] \notin Data
    BY <1>3, <1>4
  <2> HIDE DEF m
  <2>2. QED BY <1>4, <2>1, KeptNothing
<1>6. \A i \in 1..w : m[i] = b[p + i - 1]
  OBVIOUS
<1> HIDE DEF m
<1>7. /\ a \in Seq(X) /\ Len(a) = p + w - 1
      /\ \A i \in 1..p - 1 : a[i] = b[i]
      /\ \A i \in 1..w : a[(p - 1) + i] = b[p + i - 1]
  <2>1. /\ a \in Seq(X) /\ Len(a) = Len(f) + Len(m)
        /\ \A i \in 1..Len(f) : a[i] = f[i]
        /\ \A i \in 1..Len(m) : a[Len(f) + i] = m[i]
    <3>1. f \in Seq(X) /\ m \in Seq(X)
      BY <1>2, <1>4
    <3>2. QED BY <3>1, ConcatIs
  <2> HIDE DEF a, n
  <2>2. Len(f) = p - 1 /\ Len(m) = w /\ p \in Nat /\ w \in Nat
    BY <1>2, <1>4
  <2>3. \A i \in 1..p - 1 : a[i] = b[i]
    <3>1. \A i \in 1..p - 1 : a[i] = f[i] /\ f[i] = b[i]
      BY <1>2, <2>1, <2>2
    <3>2. QED BY <3>1
  <2>4. \A i \in 1..w : a[(p - 1) + i] = b[p + i - 1]
    <3>1. \A i \in 1..w : a[(p - 1) + i] = m[i]
      BY <2>1, <2>2
    <3>2. QED BY <1>6, <3>1
  <2>5. a \in Seq(X) /\ Len(a) = p + w - 1
    BY <2>1, <2>2
  <2>6. QED BY <2>3, <2>4, <2>5
<1> HIDE DEF a
<1>8. a \o r = b
  <2>1. \A i \in 1..Len(a) : b[i] = a[i]
    <3> SUFFICES ASSUME NEW i \in 1..Len(a) PROVE b[i] = a[i]
      OBVIOUS
    <3>1. CASE i <= p - 1
      BY <1>2, <1>7, <3>1
    <3>2. CASE i > p - 1
      <4> DEFINE j == i - (p - 1)
      <4>1. j \in 1..w /\ (p - 1) + j = i /\ p + j - 1 = i
        BY <1>2, <1>7, <3>2
      <4> HIDE DEF j
      <4>2. QED BY <1>7, <4>1
    <3>3. QED BY <1>2, <1>7, <3>1, <3>2
  <2>2. \A i \in 1..Len(r) : b[Len(a) + i] = r[i]
    BY <1>2, <1>7
  <2>3. Len(b) = Len(a) + Len(r)
    BY <1>2, <1>7
  <2>4. QED BY <1>2, <1>7, <2>1, <2>2, <2>3, JoinedIs
<1>9. Kept(a, Data) = Kept(f, Data)
  <2>1. Kept(a, Data) = Kept(f, Data) \o Kept(m, Data)
    <3>1. f \in Seq(X) /\ m \in Seq(X)
      BY <1>2, <1>4
    <3>2. QED BY <3>1, KeptOfJoined DEF a
  <2>2. Kept(f, Data) \in Seq(X)
    BY <1>2, KeptIs
  <2>3. Kept(f, Data) \o <<>> = Kept(f, Data)
    BY <2>2
  <2>4. QED BY <1>5, <2>1, <2>3
<1>10. Kept(b, Data) = Kept(f, Data) \o Kept(r, Data)
  <2>1. Kept(a \o r, Data) = Kept(a, Data) \o Kept(r, Data)
    <3>1. a \in Seq(X) /\ r \in Seq(X)
      BY <1>2, <1>7
    <3>2. QED BY <3>1, KeptOfJoined
  <2>2. QED BY <1>8, <1>9, <2>1
<1>11. DataOf(b) = Kept(b, Data) /\ DataOf(f) = Kept(f, Data) /\ DataOf(r) = Kept(r, Data)
  BY <1>2, DataIs
<1>12. QED BY <1>10, <1>11 DEF f, r

\* No event of a frame without an empty line has one.
LEMMA EventsAreWhole ==
  ASSUME NEW X, NEW s \in Seq(X), Clean(s)
  PROVE  NN(Event(s)) = {}
<1> DEFINE S == {b \in {s[i] : i \in DOMAIN s} : b # "r"}
           e == Kept(s, S)
           n == Len(s)
<1>1. Event(s) = e
  BY DEF Event, Where
<1>2. \A i \in 1..n : s[i] \in S <=> s[i] # "r"
  OBVIOUS
<1> HIDE DEF S
<1>3. PICK g : IsSelection(g, e, s, n, S)
  BY KeptSelects
<1>4. e \in Seq(X) /\ n \in Nat
  BY KeptIs
<1> HIDE DEF e
<1>5. ASSUME NEW i \in NN(e) PROVE FALSE
  <2>1. i \in 1..Len(e) /\ i + 1 \in 1..Len(e) /\ e[i] = "n" /\ e[i+1] = "n"
    BY <1>4 DEF NN
  <2> DEFINE p == g[i]
             q == g[i+1]
  <2>2. p \in 1..n /\ q \in 1..n /\ p < q /\ s[p] = "n" /\ s[q] = "n"
    <3>1. i < i + 1
      BY <1>4, <2>1
    <3>2. QED BY <1>3, <2>1, <3>1 DEF IsSelection
  <2>3. \A m \in 1..n : p < m /\ m < q => s[m] = "r"
    <3> SUFFICES ASSUME NEW m \in 1..n, p < m, m < q, s[m] # "r" PROVE FALSE
      OBVIOUS
    <3>1. s[m] \in S
      BY <1>2
    <3>2. PICK j \in 1..Len(e) : g[j] = m
      BY <1>3, <3>1 DEF IsSelection
    <3>3. CASE j < i
      <4>1. g[j] < p
        BY <1>3, <2>1, <3>2, <3>3 DEF IsSelection
      <4>2. QED BY <2>2, <3>2, <4>1
    <3>4. CASE j = i
      BY <2>2, <3>2, <3>4
    <3>5. CASE j = i + 1
      BY <2>2, <3>2, <3>5
    <3>6. CASE j > i + 1
      <4>1. q < g[j]
        BY <1>3, <2>1, <3>2, <3>6 DEF IsSelection
      <4>2. QED BY <2>2, <3>2, <4>1
    <3>7. QED BY <1>4, <2>1, <3>2, <3>3, <3>4, <3>5, <3>6
  <2> HIDE DEF p, q
  <2>4. CASE q = p + 1
    <3>1. p \in NN(s)
      BY <1>4, <2>2, <2>4 DEF NN
    <3>2. QED BY <3>1 DEF Clean
  <2>5. CASE q # p + 1
    <3>1. p + 1 \in 1..n /\ p + 1 < q
      BY <1>4, <2>2, <2>5
    <3>2. s[p+1] = "r"
      BY <2>2, <2>3, <3>1
    <3>3. \A k \in 1..n : /\ s[k] = "n" => k > 1 /\ s[k-1] = "r"
                          /\ s[k] = "r" => k = n \/ s[k+1] = "n"
      BY <3>1, <3>2 DEF Clean
    <3>4. p + 1 # n /\ (p + 1) + 1 = p + 2 /\ p + 2 \in 1..n
      BY <1>4, <2>2, <3>1
    <3>5. s[p+2] = "n"
      BY <3>1, <3>2, <3>3, <3>4
    <3>6. p > 1 /\ s[p-1] = "r"
      BY <2>2, <3>3
    <3> DEFINE h == p - 1
    <3>7. h \in 1..n - 3 /\ h + 1 = p /\ h + 2 = p + 1 /\ h + 3 = p + 2
      BY <1>4, <2>2, <3>4, <3>6
    <3>8. h \in RNRN(s)
      BY <2>2, <3>2, <3>5, <3>6, <3>7 DEF RNRN
    <3>9. QED BY <3>8 DEF Clean
  <2>6. QED BY <2>4, <2>5
<1>6. QED BY <1>1, <1>5

\* What was parsed after so many steps has the data of the stream, and no event of
\* it spans an empty line.
Parsed(f, k, s, X) ==
  /\ DataOf(FlattenSeq(f[k].events)) \o DataOf(f[k].buf) = DataOf(s)
  /\ \A i \in 1..Len(f[k].events) : NN(f[k].events[i]) = {}

\* A stream drained to its end was parsed as it should.
LEMMA StreamIsParsed ==
  ASSUME NEW X, NEW s, NEW f, Whole(f, s, X)
  PROVE  Parsed(f, Len(s), s, X)
<1> DEFINE n == Len(s)
           D == {k \in 0..n : Parsed(f, k, s, X)}
<1>1. n \in Nat /\ s \in Seq(X)
  BY DEF Whole
<1>2. 0 \in D
  <2> DEFINE t == f[0]
  <2>1. t.buf = s /\ t.events = <<>>
    BY DEF Whole, Drains
  <2>2. FlattenSeq(<<>>) = <<>>
    BY FlattenOfNone
  <2>3. DataOf(<<>>) = <<>>
    <3>1. <<>> \in Seq(X) /\ Blank(<<>>)
      BY DEF Blank, Elements
    <3>2. QED BY <3>1, DataIs
  <2>4. <<>> \o DataOf(s) = DataOf(s)
    <3>1. DataOf(s) \in Seq(X)
      BY <1>1, DataIs
    <3>2. QED BY <3>1
  <2>5. \A i \in 1..Len(<<>>) : FALSE
    OBVIOUS
  <2>6. Parsed(f, 0, s, X)
    BY <2>1, <2>2, <2>3, <2>4, <2>5 DEF Parsed
  <2>7. QED BY <1>1, <2>6
<1>3. ASSUME NEW i \in 1..n, i - 1 \in D PROVE i \in D
  <2> DEFINE t == f[i-1]
             c == t.buf
             ev == t.events
             frame == FrameOf(c)
             rest == RestOf(c)
  <2>1. t \in ParseState(X) /\ OneWay(c) /\ f[i] = DrainOne(t) /\ i \in 0..n /\ i - 1 \in 0..n
    <3>1. i - 1 \in 0..n /\ i \in 0..n
      BY <1>1
    <3>2. QED BY <3>1 DEF Whole, Drains
  <2>2. c \in Seq(X) /\ ev \in Seq(Seq(X))
    BY <2>1 DEF ParseState
  <2>3. /\ DataOf(FlattenSeq(ev)) \o DataOf(c) = DataOf(s)
        /\ \A j \in 1..Len(ev) : NN(ev[j]) = {}
    BY <1>3 DEF Parsed
  <2> HIDE DEF t
  <2>4. DrainOne(t) = IF NoSep(t.buf) THEN t
                      ELSE [buf |-> RestOf(t.buf), events |-> Heard(t.events, FrameOf(t.buf))]
    BY <2>1, DrainOneIs
  <2>5. CASE NoSep(c)
    <3>1. f[i] = t
      BY <2>1, <2>4, <2>5
    <3>2. Parsed(f, i, s, X)
      BY <2>3, <3>1 DEF Parsed
    <3>3. QED BY <2>1, <3>2
  <2>6. CASE ~NoSep(c)
    <3>1. f[i].buf = rest /\ f[i].events = Heard(ev, frame)
      BY <2>1, <2>4, <2>6
    <3> HIDE DEF c, ev
    <3>2. frame \in Seq(X) /\ rest \in Seq(X)
      BY <2>2, <2>6, SplitIs DEF IsSplit
    <3>3. DataOf(c) = DataOf(frame) \o DataOf(rest)
      BY <2>2, <2>6, SplitData
    <3>4. Clean(frame)
      BY <2>1, <2>2, <2>6, FramesAreClean DEF c
    <3> HIDE DEF frame, rest
    <3>5. /\ Heard(ev, frame) \in Seq(Seq(X))
          /\ DataOf(FlattenSeq(Heard(ev, frame))) = DataOf(FlattenSeq(ev)) \o DataOf(frame)
      BY <2>2, <3>2, SaidData
    <3>6. NN(Event(frame)) = {}
      BY <3>2, <3>4, EventsAreWhole
    <3>7. FlattenSeq(ev) \in Seq(X)
      BY <2>2, FlattenOfAppend, <3>2
    <3> DEFINE x == DataOf(FlattenSeq(ev))
               y == DataOf(frame)
               z == DataOf(rest)
    <3>8. x \in Seq(X) /\ y \in Seq(X) /\ z \in Seq(X)
      BY <3>2, <3>7, DataIs
    <3>9. (x \o y) \o z = x \o (y \o z)
      <4> HIDE DEF x, y, z
      <4>1. QED BY <3>8
    <3>10. DataOf(FlattenSeq(f[i].events)) \o DataOf(f[i].buf) = DataOf(s)
      BY <2>3, <3>1, <3>3, <3>5, <3>9
    <3>11. \A j \in 1..Len(Heard(ev, frame)) : NN(Heard(ev, frame)[j]) = {}
      <4>1. CASE Blank(frame)
        BY <2>3, <4>1 DEF Heard
      <4>2. CASE ~Blank(frame)
        <5>1. Heard(ev, frame) = Append(ev, Event(frame))
          BY <4>2 DEF Heard
        <5>2. Event(frame) \in Seq(X)
          BY <3>2, EventIs
        <5> DEFINE v == Event(frame)
        <5> HIDE DEF v
        <5>3. \A j \in 1..Len(Append(ev, v)) : (j \in 1..Len(ev) /\ Append(ev, v)[j] = ev[j]) \/ Append(ev, v)[j] = v
          BY <2>2, <5>2 DEF v
        <5>4. QED BY <2>3, <3>6, <5>1, <5>3 DEF v
      <4>3. QED BY <4>1, <4>2
    <3>12. Parsed(f, i, s, X)
      BY <3>1, <3>10, <3>11 DEF Parsed
    <3>13. QED BY <2>1, <3>12
  <2>7. QED BY <2>5, <2>6
<1> HIDE DEF D
<1>4. 0..n \subseteq D
  BY <1>1, <1>2, <1>3, Induction
<1>5. n \in D
  BY <1>1, <1>4
<1>6. QED BY <1>5 DEF D

\* However a text that ends its lines one way is cut, the events are the same; every
\* character is in one event, and none spans an empty line.
IsParsed(g, a) ==
  /\ a = ParseText([g EXCEPT !.cuts = {}])
  /\ DataOf(FlattenSeq(a)) = DataOf(g.stream)
  /\ \A i \in DOMAIN a : PositionOf(a[i], <<"n", "n">>) = 0
LEMMA TextIsParsed ==
  ASSUME NEW X, NEW g \in AnyCuttable(X)
  PROVE  IsParsed(g, ParseText(g))
<1> DEFINE s == g.stream
           n == Len(s)
           uncut == [g EXCEPT !.cuts = {}]
           a == ParseText(g)
<1>1. s \in Seq(X) /\ OneWay(s) /\ n \in Nat
  BY DEF AnyCuttable
<1>2. uncut \in AnyCuttable(X) /\ uncut.stream = s
  <2> DEFINE c == g.cuts
  <2>1. g = [stream |-> s, cuts |-> c]
    BY DEF AnyCuttable
  <2> HIDE DEF s, c
  <2>2. uncut = [stream |-> s, cuts |-> {}]
    BY <2>1
  <2>3. QED BY <1>1, <2>2 DEF AnyCuttable
<1>3. PICK f : Whole(f, s, X)
  BY <1>1, WholeIs
<1> DEFINE e == f[n]
<1>4. /\ \A h : ParseText(h) = Heard(Taken(Pieces(h)).events, Taken(Pieces(h)).buf)
  BY DEF ParseText, Flushed, Heard, Taken, TakePiece, Nothing
<1>5. Taken(Pieces(g)) = e
  BY <1>3, CutsDoNotMatter
<1>6. Taken(Pieces(uncut)) = e
  <2> HIDE DEF uncut
  <2>1. Whole(f, uncut.stream, X)
    BY <1>2, <1>3
  <2>2. Taken(Pieces(uncut)) = f[Len(uncut.stream)]
    BY <1>2, <2>1, CutsDoNotMatter
  <2>3. QED BY <1>2, <2>2
<1>7. a = Heard(e.events, e.buf) /\ a = ParseText(uncut)
  BY <1>4, <1>5, <1>6
<1>8. e \in ParseState(X) /\ OneWay(e.buf)
  <2>1. n \in 0..n
    BY <1>1
  <2>2. QED BY <1>3, <2>1 DEF Whole, Drains
<1>9. NoSep(e.buf)
  BY <1>1, <1>3, EventsRunOut DEF Whole
<1>10. Parsed(f, n, s, X)
  BY <1>3, StreamIsParsed
<1>11. /\ DataOf(FlattenSeq(e.events)) \o DataOf(e.buf) = DataOf(s)
       /\ \A i \in 1..Len(e.events) : NN(e.events[i]) = {}
  BY <1>10 DEF Parsed
<1> DEFINE b == e.buf
           ev == e.events
<1>12. b \in Seq(X) /\ ev \in Seq(Seq(X)) /\ OneWay(b) /\ NoSep(b)
  BY <1>8, <1>9 DEF ParseState
<1> HIDE DEF b, ev, a, s
<1>13. Clean(b)
  BY <1>12, FramesAreClean
<1>14. NN(Event(b)) = {}
  BY <1>12, <1>13, EventsAreWhole
<1>15. /\ Heard(ev, b) \in Seq(Seq(X))
       /\ DataOf(FlattenSeq(Heard(ev, b))) = DataOf(FlattenSeq(ev)) \o DataOf(b)
  BY <1>12, SaidData
<1>16. a \in Seq(Seq(X)) /\ DataOf(FlattenSeq(a)) = DataOf(s)
  BY <1>7, <1>11, <1>15 DEF b, ev
<1>17. ASSUME NEW i \in DOMAIN a PROVE PositionOf(a[i], <<"n", "n">>) = 0
  <2>1. i \in 1..Len(a) /\ a[i] \in Seq(X)
    BY <1>16
  <2>2. NN(a[i]) = {}
    <3>1. a = Heard(ev, b)
      BY <1>7 DEF b, ev
    <3>2. \A j \in 1..Len(ev) : NN(ev[j]) = {}
      BY <1>11 DEF ev
    <3>3. CASE Blank(b)
      <4>1. a = ev
        BY <3>1, <3>3 DEF Heard
      <4>2. QED BY <2>1, <3>2, <4>1
    <3>4. CASE ~Blank(b)
      <4> DEFINE v == Event(b)
      <4>1. v \in Seq(X) /\ NN(v) = {}
        BY <1>12, <1>14, EventIs
      <4>2. a = Append(ev, v)
        BY <3>1, <3>4 DEF Heard
      <4> HIDE DEF v
      <4>3. (i \in 1..Len(ev) /\ a[i] = ev[i]) \/ a[i] = v
        BY <1>12, <2>1, <4>1, <4>2
      <4>4. QED BY <3>2, <4>1, <4>3
    <3>5. QED BY <3>3, <3>4
  <2>3. QED BY <2>1, <2>2, PositionIs DEF Lowest
<1>18. IsParsed(g, a)
  <2>1. DataOf(FlattenSeq(a)) = DataOf(g.stream)
    BY <1>16 DEF s
  <2>2. a = ParseText([g EXCEPT !.cuts = {}])
    BY <1>7
  <2>3. QED BY <1>17, <2>1, <2>2 DEF IsParsed
<1>19. QED BY <1>18 DEF a

\* What is read of a stream that ends its lines one way ends them so, and is the
\* stream when no cut goes through a character.
LEMMA TextOfStream ==
  ASSUME NEW X, NEW g \in AnyCuttable(X)
  PROVE  /\ [g EXCEPT !.stream = AsText(g)] \in AnyCuttable(X \cup {"?"})
         /\ [g EXCEPT !.stream = AsText(g)] = [stream |-> AsText(g), cuts |-> g.cuts]
         /\ WholeCharacters(g) => AsText(g) = g.stream
<1> DEFINE s == g.stream
           n == Len(s)
           u == AsText(g)
<1>1. /\ s \in Seq(X) /\ OneWay(s) /\ n \in Nat /\ g = [stream |-> s, cuts |-> g.cuts]
      /\ g.cuts \in SUBSET Nat /\ g.cuts \subseteq 1..n - 1
  BY DEF AnyCuttable
<1>2. /\ u \in [1..n -> X \cup {"?"}]
      /\ \A i \in 1..n : u[i] = s[i] \/ (s[i] \in {"h", "t"} /\ u[i] = "?")
  BY <1>1 DEF AsText
<1>3. u \in Seq(X \cup {"?"}) /\ Len(u) = n
  BY <1>1, <1>2
<1>4. \A i \in 1..n : (u[i] = "n" <=> s[i] = "n") /\ (u[i] = "r" <=> s[i] = "r")
  BY <1>2
<1>5. OneWay(u)
  <2>1. \A i \in 1..n : (i > 1 => i - 1 \in 1..n) /\ (i < n => i + 1 \in 1..n)
    BY <1>1
  <2> HIDE DEF s, u, n
  <2>2. QED BY <1>1, <1>3, <1>4, <2>1 DEF OneWay, n
<1>6. ASSUME WholeCharacters(g) PROVE u = s
  <2>1. \A i \in 1..n : (i - 1) + 1 = i
    BY <1>1
  <2>2. \A i \in 1..n : u[i] = s[i]
    BY <1>1, <1>6, <2>1 DEF AsText, WholeCharacters
  <2> HIDE DEF u, s
  <2>3. QED BY <1>1, <1>3, <2>2, SeqEqual
<1> HIDE DEF s, u
<1>7. [g EXCEPT !.stream = u] = [stream |-> u, cuts |-> g.cuts]
  BY <1>1
<1>8. [g EXCEPT !.stream = u] \in AnyCuttable(X \cup {"?"})
  BY <1>1, <1>3, <1>5, <1>7 DEF AnyCuttable
<1>9. QED BY <1>6, <1>7, <1>8 DEF u, s

\* However a stream that ends its lines one way is cut, the events are those of the
\* text its pieces are read as, and those of the stream itself when no cut goes
\* through a character: ParseStream keeps what SoundFrames promises.
THEOREM FramesAreSound ==
  ASSUME NEW X, NEW g \in AnyCuttable(X)
  PROVE  SoundFrames(g, ParseStream(g))
<1> DEFINE u == AsText(g)
           h == [g EXCEPT !.stream = u]
           a == ParseStream(g)
           none == [g EXCEPT !.cuts = {}]
<1>1. h \in AnyCuttable(X \cup {"?"}) /\ h = [stream |-> u, cuts |-> g.cuts]
  BY TextOfStream
<1>2. a = ParseText(h)
  BY DEF ParseStream
<1> HIDE DEF a, u, h
<1>3. IsParsed(h, a)
  BY <1>1, <1>2, TextIsParsed
<1>4. [h EXCEPT !.cuts = {}] = [stream |-> u, cuts |-> {}] /\ h.stream = u
  BY <1>1
<1>5. a = ParseText([stream |-> u, cuts |-> {}])
  BY <1>3, <1>4 DEF IsParsed
<1>6. ASSUME WholeCharacters(g) PROVE a = ParseStream(none)
  <2> DEFINE s == g.stream
             c == g.cuts
  <2>1. OneWay(s) /\ s \in Seq(X)
    BY DEF AnyCuttable
  <2>2. u = s
    BY <1>6, TextOfStream DEF u
  <2>3. none = [stream |-> u, cuts |-> {}]
    <3>1. g = [stream |-> s, cuts |-> c]
      BY DEF AnyCuttable
    <3> HIDE DEF s, c
    <3>2. none = [stream |-> s, cuts |-> {}]
      BY <3>1
    <3>3. QED BY <2>2, <3>2
  <2> HIDE DEF s, c
  <2>4. none \in AnyCuttable(X)
    BY <2>1, <2>2, <2>3 DEF AnyCuttable
  <2> HIDE DEF none, u
  <2>5. [none EXCEPT !.stream = AsText(none)] = [stream |-> u, cuts |-> {}]
    BY <2>3, <2>4, TextOfStream DEF WholeCharacters
  <2>6. QED BY <1>5, <2>5 DEF ParseStream
<1>7. QED BY <1>3, <1>4, <1>5, <1>6 DEF SoundFrames, IsParsed, DataOf, WholeCharacters, a, u

-----------------------------------------------------------------------------
PieceOf(g, i) == (IF i = 1 THEN <<>> ELSE <<Gap>>) \o Sentence(g, i)
WholeText(g) == FlattenSeq([i \in DOMAIN g.lengths |-> PieceOf(g, i)])

\* What stands between two sentences.
LEMMA GapIsSpace == Gap = Space
  BY DEF Gap, Space

\* A sentence, and the space before it.
LEMMA PieceIs ==
  ASSUME NEW g \in AnyChunkable, NEW i \in 1..Len(g.lengths)
  PROVE  LET gap == IF i = 1 THEN 0 ELSE 1
         IN /\ Sentence(g, i) \in Seq(Char) /\ Len(Sentence(g, i)) = g.lengths[i]
            /\ \A k \in 1..g.lengths[i] : Sentence(g, i)[k] = <<i, k>>
            /\ PieceOf(g, i) \in Seq(Char) /\ Len(PieceOf(g, i)) = gap + g.lengths[i]
            /\ \A k \in 1..g.lengths[i] : PieceOf(g, i)[gap + k] = <<i, k>>
            /\ i # 1 => PieceOf(g, i)[1] = Gap
<1> DEFINE s == Sentence(g, i)
           l == g.lengths[i]
           b == IF i = 1 THEN <<>> ELSE <<Gap>>
           gap == IF i = 1 THEN 0 ELSE 1
<1>1. l \in Nat /\ i \in Nat
  BY DEF AnyChunkable
<1>2. s \in [1..l -> Char]
  BY <1>1 DEF Sentence, Char
<1>3. s \in Seq(Char) /\ Len(s) = l
  BY <1>1, <1>2, SeqDef, LenProperties
<1>4. \A k \in 1..l : s[k] = <<i, k>>
  BY DEF Sentence
<1>5. b \in Seq(Char) /\ Len(b) = gap /\ (i # 1 => b[1] = Gap)
  <2>1. Gap \in Char
    BY DEF Gap, Char
  <2>2. QED BY <2>1
<1> HIDE DEF s, b
<1>6. /\ b \o s \in Seq(Char) /\ Len(b \o s) = Len(b) + Len(s)
      /\ \A k \in 1..Len(b) : (b \o s)[k] = b[k]
      /\ \A k \in 1..Len(s) : (b \o s)[Len(b) + k] = s[k]
  <2>1. b \in Seq(Char) /\ s \in Seq(Char)
    BY <1>3, <1>5
  <2>2. QED BY <2>1, ConcatIs
<1>7. PieceOf(g, i) = b \o s
  BY DEF PieceOf, b, s
<1> HIDE DEF l
<1>8. \A k \in 1..l : (b \o s)[gap + k] = <<i, k>>
  BY <1>3, <1>4, <1>5, <1>6
<1>9. i # 1 => (b \o s)[1] = Gap
  BY <1>5, <1>6
<1>10. QED BY <1>3, <1>4, <1>5, <1>6, <1>7, <1>8, <1>9 DEF s, l

\* The text is made of its sentences.
LEMMA TextOf ==
  ASSUME NEW g \in AnyChunkable
  PROVE  \E c, n : IsText(WholeText(g), c, n, g)
<1> DEFINE n == Len(g.lengths)
           ps == [i \in DOMAIN g.lengths |-> PieceOf(g, i)]
           W == WholeText(g)
<1>1. n \in Nat \ {0} /\ DOMAIN g.lengths = 1..n /\ \A i \in 1..n : g.lengths[i] \in Nat /\ g.lengths[i] >= 1
  BY DEF AnyChunkable
<1>2. \A i \in 1..n : PieceOf(g, i) \in Seq(Char)
  BY PieceIs
<1>3. ps \in Seq(Seq(Char)) /\ Len(ps) = n /\ \A i \in 1..n : ps[i] = PieceOf(g, i)
  <2>1. ps \in [1..n -> Seq(Char)] /\ n \in Nat
    BY <1>1, <1>2
  <2>2. QED BY <1>1, <2>1, SeqDef, LenProperties
<1>4. W = FlattenSeq(ps)
  BY DEF WholeText
<1> HIDE DEF W, ps, n
<1>5. PICK f : f \in [0..n -> Seq(Char)] /\ Joins(f, ps) /\ W = f[n]
  BY <1>3, <1>4, FlattenStepwise
<1> DEFINE c == [i \in 0..n |-> Len(f[i])]
           gap(i) == IF i = 1 THEN 0 ELSE 1
<1>6. c \in [0..n -> Nat] /\ c[0] = 0 /\ \A i \in 0..n : c[i] = Len(f[i])
  <2>1. 0 \in 0..n /\ f[0] = <<>>
    BY <1>1, <1>5 DEF Joins
  <2>2. QED BY <1>5, <2>1
<1> HIDE DEF c
<1>7. ASSUME NEW i \in 1..n
      PROVE  /\ i - 1 \in 0..n /\ i \in 0..n /\ f[i] = f[i-1] \o PieceOf(g, i)
             /\ c[i] = c[i-1] + gap(i) + g.lengths[i]
  <2>1. i - 1 \in 0..n /\ i \in 0..n
    BY <1>1
  <2>2. f[i] = f[i-1] \o PieceOf(g, i)
    BY <1>3, <1>5 DEF Joins
  <2> DEFINE u == f[i-1]
             p == PieceOf(g, i)
  <2>3. u \in Seq(Char)
    BY <1>5, <2>1
  <2>4. p \in Seq(Char) /\ Len(p) = gap(i) + g.lengths[i]
    BY PieceIs DEF n
  <2> HIDE DEF u, p
  <2>5. Len(u \o p) = Len(u) + Len(p) /\ Len(u) \in Nat
    <3>1. u \in Seq(Char) /\ p \in Seq(Char)
      BY <2>3, <2>4
    <3>2. QED BY <3>1, ConcatIs
  <2>6. c[i] = Len(u \o p) /\ c[i-1] = Len(u)
    BY <1>6, <2>1, <2>2 DEF u, p
  <2>7. g.lengths[i] \in Nat
    BY <1>1
  <2>8. QED BY <2>1, <2>2, <2>4, <2>5, <2>6, <2>7
<1>8. \A i, j \in 0..n : i <= j => c[i] <= c[j]
  <2> SUFFICES ASSUME NEW i \in 0..n PROVE \A j \in 0..n : i <= j => c[i] <= c[j]
    OBVIOUS
  <2> DEFINE D == {j \in 0..n : i <= j => c[i] <= c[j]}
  <2>1. 0 \in D
    BY <1>1, <1>6
  <2>2. ASSUME NEW j \in 1..n, j - 1 \in D PROVE j \in D
    <3>1. c[j-1] <= c[j] /\ c[j] \in Nat /\ c[j-1] \in Nat /\ c[i] \in Nat
      BY <1>1, <1>6, <1>7
    <3>2. j \in 0..n /\ (i <= j - 1 => c[i] <= c[j-1])
      BY <1>7, <2>2
    <3>3. i <= j => i = j \/ i <= j - 1
      OBVIOUS
    <3>4. QED BY <3>1, <3>2, <3>3
  <2> HIDE DEF D
  <2>3. n \in Nat
    BY <1>1
  <2>4. 0..n \subseteq D
    BY <2>1, <2>2, <2>3, Induction
  <2>5. QED BY <2>4 DEF D
<1>9. EndsAt(c, n, g)
  BY <1>1, <1>6, <1>7, <1>8 DEF EndsAt, n
<1> DEFINE D == {i \in 0..n : TextIs(f[i], c, i, g)}
<1>10. 0 \in D
  <2>1. f[0] = <<>> /\ 0 \in 0..n
    BY <1>1, <1>5 DEF Joins
  <2>2. /\ f[0] \in Seq(Char) /\ Len(f[0]) = c[0]
        /\ \A j \in 1..0 : \A k \in 1..g.lengths[j] : f[0][c[j] - g.lengths[j] + k] = <<j, k>>
        /\ \A j \in 2..0 : f[0][c[j-1] + 1] = Gap
    BY <1>6, <2>1
  <2>3. TextIs(f[0], c, 0, g)
    BY <2>2, Zenon DEF TextIs
  <2>4. QED BY <2>1, <2>3
<1>11. ASSUME NEW i \in 1..n, i - 1 \in D PROVE i \in D
  <2> DEFINE u == f[i-1]
             p == PieceOf(g, i)
             t == u \o p
             l == g.lengths[i]
  <2>1. TextIs(u, c, i - 1, g)
    BY <1>11
  <2>2. /\ p \in Seq(Char) /\ Len(p) = gap(i) + l
        /\ \A k \in 1..l : p[gap(i) + k] = <<i, k>>
        /\ i # 1 => p[1] = Gap
    BY PieceIs DEF n
  <2>3. f[i] = t /\ c[i] = c[i-1] + gap(i) + l /\ i - 1 \in 0..n /\ i \in 0..n
    BY <1>7
  <2>4. u \in Seq(Char) /\ Len(u) = c[i-1] /\ c[i-1] \in Nat /\ c[i] \in Nat /\ l \in Nat /\ l >= 1
    BY <1>1, <1>5, <1>6, <2>3
  <2> HIDE DEF u, p
  <2>5. /\ t \in Seq(Char) /\ Len(t) = Len(u) + Len(p)
        /\ \A k \in 1..Len(u) : t[k] = u[k]
        /\ \A k \in 1..Len(p) : t[Len(u) + k] = p[k]
    <3>1. u \in Seq(Char) /\ p \in Seq(Char)
      BY <2>2, <2>4
    <3>2. QED BY <3>1, ConcatIs
  <2> HIDE DEF t
  <2>6. ASSUME NEW j \in 1..i, NEW k \in 1..g.lengths[j] PROVE t[c[j] - g.lengths[j] + k] = <<j, k>>
    <3>1. CASE j = i
      <4> DEFINE b == gap(i)
                 z == Len(u)
                 y == c[i]
      <4>1. b \in Nat /\ z \in Nat /\ Len(p) = b + l /\ k \in 1..l
        BY <2>2, <2>4, <3>1
      <4>2. y = z + b + l
        BY <2>3, <2>4
      <4> HIDE DEF b, z, y, l
      <4>3. y - l + k = z + (b + k) /\ b + k \in 1..Len(p)
        BY <2>4, <4>1, <4>2
      <4>4. t[z + (b + k)] = p[b + k] /\ p[b + k] = <<i, k>>
        BY <2>2, <2>5, <4>1, <4>3 DEF b, z
      <4>5. QED BY <3>1, <4>3, <4>4 DEF y, l
    <3>2. CASE j # i
      <4> DEFINE m == g.lengths[j]
                 at == c[j] - m + k
      <4>1. j \in 1..i-1 /\ j \in 1..n /\ j \in 0..n /\ j <= i - 1
        BY <1>1, <3>2
      <4>2. u[at] = <<j, k>>
        BY <2>1, <4>1 DEF TextIs
      <4>3. c[j] = c[j-1] + gap(j) + m /\ c[j-1] \in Nat /\ m \in Nat
        BY <1>1, <1>6, <1>7, <4>1
      <4>4. c[j] <= c[i-1] /\ c[j] \in Nat
        BY <1>6, <1>8, <2>3, <4>1
      <4>5. k \in 1..m
        OBVIOUS
      <4> HIDE DEF m
      <4>6. at \in 1..Len(u)
        <5> DEFINE x == c[j-1]
                   y == c[j]
                   z == Len(u)
                   b == gap(j)
        <5>1. b \in Nat
          OBVIOUS
        <5>2. y = x + b + m /\ x \in Nat /\ m \in Nat /\ y <= z /\ y \in Nat /\ z \in Nat
          BY <2>4, <4>3, <4>4
        <5>3. at = y - m + k
          OBVIOUS
        <5> HIDE DEF x, y, z, b, at
        <5>4. at \in 1..z
          BY <4>5, <5>1, <5>2, <5>3
        <5>5. QED BY <5>4 DEF z
      <4>7. t[at] = u[at]
        BY <2>5, <4>6
      <4>8. QED BY <4>2, <4>7 DEF m
    <3>3. QED BY <3>1, <3>2
  <2>7. ASSUME NEW j \in 2..i PROVE t[c[j-1] + 1] = Gap
    <3>1. CASE j = i
      <4>1. Len(u) + 1 = c[j-1] + 1 /\ 1 \in 1..Len(p) /\ i # 1
        BY <2>2, <2>4, <3>1
      <4>2. QED BY <2>2, <2>5, <4>1
    <3>2. CASE j # i
      <4> DEFINE at == c[j-1] + 1
      <4>1. j \in 2..i-1 /\ j \in 1..n /\ j \in 0..n /\ j <= i - 1 /\ j # 1
        BY <1>1, <3>2
      <4>2. u[at] = Gap
        BY <2>1, <4>1 DEF TextIs
      <4>3. c[j] = c[j-1] + 1 + g.lengths[j] /\ c[j-1] \in Nat /\ g.lengths[j] \in Nat
        BY <1>1, <1>6, <1>7, <4>1
      <4>4. c[j] <= c[i-1] /\ c[j] \in Nat
        BY <1>6, <1>8, <2>3, <4>1
      <4>5. at \in 1..Len(u)
        <5> DEFINE x == c[j-1]
                   y == c[j]
                   m == g.lengths[j]
                   z == Len(u)
        <5>1. y = x + 1 + m /\ x \in Nat /\ m \in Nat /\ y <= z /\ z \in Nat
          BY <2>4, <4>3, <4>4
        <5> HIDE DEF x, y, m, z
        <5>2. x + 1 \in 1..z
          BY <5>1
        <5>3. QED BY <5>2 DEF x, z
      <4>6. QED BY <2>5, <4>2, <4>5
    <3>3. QED BY <3>1, <3>2
  <2>8. Len(t) = c[i]
    BY <2>2, <2>3, <2>4, <2>5
  <2>9. TextIs(t, c, i, g)
    BY <2>5, <2>6, <2>7, <2>8 DEF TextIs
  <2>10. QED BY <2>3, <2>9
<1> HIDE DEF D
<1>12. 0..n \subseteq D
  <2>1. n \in Nat
    BY <1>1
  <2>2. QED BY <1>10, <1>11, <2>1, Induction
<1>13. n \in D
  BY <1>1, <1>12
<1>14. TextIs(W, c, n, g)
  BY <1>5, <1>13 DEF D
<1>15. IsText(W, c, n, g)
  BY <1>9, <1>14 DEF IsText
<1>16. QED BY <1>15 DEF W

\* Trimmed, it has the same but for spaces.
LEMMA TrimmedIs ==
  ASSUME NEW X, NEW x \in Seq(X), x # <<>>
  PROVE  /\ Trimmed(x) \in Seq(X) /\ Len(Trimmed(x)) <= Len(x)
         /\ \A a : a # Gap => (a \in Elements(Trimmed(x)) <=> a \in Elements(x))
<1> DEFINE n == Len(x)
           b == IF x[1] = Gap THEN 2 ELSE 1
           e == IF x[n] = Gap THEN n - 1 ELSE n
           y == Trimmed(x)
<1>1. n \in Nat \ {0} /\ b \in {1, 2} /\ e \in {n - 1, n}
  <2>1. n # 0
    BY EmptySeq
  <2>2. QED BY <2>1
<1>2. y = SubSeq(x, b, e)
  BY GapIsSpace DEF Trimmed
<1>3. (b = 2 => x[1] = Gap) /\ (e = n - 1 => x[n] = Gap)
  BY <1>1
<1> HIDE DEF b, e, y, n
<1>4. CASE b <= e
  <2>1. y \in Seq(X) /\ Len(y) = e - b + 1 /\ \A k \in 1..e - b + 1 : y[k] = x[b + k - 1]
    BY <1>1, <1>2, <1>4, SubSeqProperties DEF n
  <2>2. Len(y) <= n
    BY <1>1, <2>1
  <2>3. ASSUME NEW a, a # Gap, a \in Elements(y) PROVE a \in Elements(x)
    <3>1. PICK k \in 1..e - b + 1 : a = y[k]
      BY <2>1, <2>3 DEF Elements
    <3>2. b + k - 1 \in 1..n
      BY <1>1
    <3>3. a = x[b + k - 1]
      BY <2>1, <3>1
    <3>4. QED BY <3>2, <3>3 DEF Elements, n
  <2>4. ASSUME NEW a, a # Gap, a \in Elements(x) PROVE a \in Elements(y)
    <3>1. PICK k \in 1..n : a = x[k]
      BY <2>4 DEF Elements, n
    <3>2. k >= b /\ k <= e
      BY <1>1, <1>3, <2>4, <3>1
    <3> DEFINE m == k - b + 1
    <3>3. m \in 1..e - b + 1 /\ b + m - 1 = k
      BY <1>1, <3>2
    <3> HIDE DEF m
    <3>4. y[m] = a
      BY <2>1, <3>1, <3>3
    <3>5. DOMAIN y = 1..e - b + 1
      BY <2>1
    <3>6. QED BY <3>3, <3>4, <3>5 DEF Elements
  <2>5. QED BY <2>1, <2>2, <2>3, <2>4 DEF y, n
<1>5. CASE ~(b <= e)
  <2>1. y = <<>>
    BY <1>1, <1>2, <1>5, SubSeqProperties DEF n
  <2>2. \A k \in 1..n : x[k] = Gap
    BY <1>1, <1>3, <1>5
  <2>3. \A a : a # Gap => a \notin Elements(x)
    BY <2>2 DEF Elements, n
  <2>4. Elements(y) = {}
    BY <2>1 DEF Elements
  <2>5. Len(y) <= n /\ y \in Seq(X)
    BY <1>1, <2>1
  <2>6. QED BY <2>3, <2>4, <2>5 DEF y, n
<1>6. QED BY <1>4, <1>5

WindowOf(s, q, t, w) == SubSeq(s, (w - 1) * q + 1, Min({(w - 1) * q + t, Len(s)}))
AllWindows(s, q, t, N) == [w \in 1..N |-> Trimmed(WindowOf(s, q, t, w))]
IsWindow(x, W, l, h, t) == x \in Seq(Char) /\ Len(x) <= t /\ Spans(x, W, l, h)
LastOf(lo, hi, b, t) == IF lo + b + t - 1 <= hi THEN lo + b + t - 1 ELSE hi

\* A window, trimmed, is a window of the text.
LEMMA WindowIs ==
  ASSUME NEW W \in Seq(Char), NEW lo \in Nat, NEW hi \in Nat, 1 <= lo, lo <= hi, hi <= Len(W),
         NEW t \in Nat, t >= 1, NEW q, NEW N, NEW st, IsStarts(st, N, hi - lo + 1, t, q), NEW w \in 1..N
  PROVE  IsWindow(Trimmed(WindowOf(SubSeq(W, lo, hi), q, t, w)), W, lo + st[w], LastOf(lo, hi, st[w], t), t)
<1> DEFINE s == SubSeq(W, lo, hi)
           L == hi - lo + 1
           b == (w - 1) * q
           e == Min({b + t, L})
           r == SubSeq(s, b + 1, e)
           x == Trimmed(r)
<1>1. st[w] = b /\ b \in Nat /\ b < L
  BY DEF IsStarts
<1>2. Len(s) = L
  BY CutIs
<1> HIDE DEF b
<1>3. e = IF b + t <= L THEN b + t ELSE L
  BY <1>1, OfTwo
<1> HIDE DEF e
<1>4. b + 1 \in Nat /\ e \in Nat /\ 1 <= b + 1 /\ b + 1 <= e /\ e <= hi - lo + 1 /\ e - (b + 1) + 1 <= t
  BY <1>1, <1>3
<1>5. /\ r \in Seq(Char) /\ Len(r) = e - (b + 1) + 1
      /\ Spans(r, W, lo + (b + 1) - 1, lo + e - 1)
  <2> DEFINE f == b + 1
  <2>1. f \in Nat /\ e \in Nat /\ 1 <= f /\ f <= e /\ e <= hi - lo + 1
    BY <1>4
  <2> HIDE DEF f
  <2>2. LET v == SubSeq(SubSeq(W, lo, hi), f, e)
        IN v \in Seq(Char) /\ Len(v) = e - f + 1 /\ Spans(v, W, lo + f - 1, lo + e - 1)
    BY <2>1, CutOfCut
  <2>3. QED BY <2>2 DEF f
<1> HIDE DEF r
<1>6. r # <<>>
  <2>1. Len(r) # 0
    BY <1>4, <1>5
  <2>2. QED BY <2>1
<1>7. /\ x \in Seq(Char) /\ Len(x) <= Len(r)
      /\ \A a : a # Gap => (a \in Elements(x) <=> a \in Elements(r))
  <2>1. r \in Seq(Char)
    BY <1>5
  <2>2. QED BY <1>6, <2>1, TrimmedIs
<1> HIDE DEF x
<1>8. lo + (b + 1) - 1 = lo + b /\ lo + e - 1 = LastOf(lo, hi, b, t)
  BY <1>1, <1>3 DEF LastOf
<1>9. Spans(x, W, lo + b, LastOf(lo, hi, b, t))
  <2>1. Spans(r, W, lo + b, LastOf(lo, hi, b, t))
    BY <1>5, <1>8
  <2>2. QED BY <1>7, <2>1, Zenon DEF Spans
<1>10. Len(x) <= t
  BY <1>4, <1>5, <1>7
<1>11. x = Trimmed(WindowOf(s, q, t, w))
  BY <1>2 DEF x, r, e, b, WindowOf
<1>12. QED BY <1>1, <1>7, <1>9, <1>10, <1>11 DEF IsWindow

\* The windows that are not only a space.
NonEmpty(ws) == {x \in {ws[i] : i \in DOMAIN ws} : x # <<>>}

\* The windows of a part that is too long are good parts of it.
LEMMA WindowsAreParts ==
  ASSUME NEW g \in AnyChunkable, NEW W \in Seq(Char), NEW lo \in Nat, NEW hi \in Nat,
         1 <= lo, lo <= hi, hi <= Len(W), hi - lo + 1 > Bound(g)
  PROVE  PartsOf(Windows(SubSeq(W, lo, hi), g), W, lo, hi, g)
<1> DEFINE s == SubSeq(W, lo, hi)
           L == hi - lo + 1
           t == g.target
           o == g.overlap
           q == Stride(g)
           N == (L - t + q - 1) \div q + 1
           st == [w \in 1..N |-> (w - 1) * q]
           ws == AllWindows(s, q, t, N)
           a == Windows(s, g)
           l(w) == lo + st[w]
           h(w) == LastOf(lo, hi, st[w], t)
<1>1. /\ t \in Nat \ {0} /\ o \in Nat /\ Bound(g) \in Nat /\ Bound(g) > t
      /\ q \in 1..t /\ (o < t => q = t - o) /\ (o = t => q = 1)
  BY BoundsAre
<1>2. Len(s) = L /\ L \in Nat /\ L > t
  BY <1>1, CutIs
<1>3. a = Kept(ws, NonEmpty(ws))
  BY <1>2 DEF Windows, Where, NonEmpty, AllWindows, WindowOf, Stride
<1>4. IsStarts(st, N, L, t, q)
  <2> HIDE DEF q, t, L
  <2>1. L \in Nat /\ t \in Nat /\ q \in 1..t /\ L > t
    BY <1>1, <1>2
  <2>2. QED BY <2>1, WindowStarts
<1> HIDE DEF st, N, a
<1>5. \A w \in 1..N : ws[w] = Trimmed(WindowOf(s, q, t, w))
  BY DEF AllWindows
<1>6. \A w \in 1..N : IsWindow(ws[w], W, l(w), h(w), t)
  <2> SUFFICES ASSUME NEW w \in 1..N PROVE IsWindow(ws[w], W, l(w), h(w), t)
    OBVIOUS
  <2>1. t \in Nat /\ t >= 1
    BY <1>1
  <2> HIDE DEF t, q, ws
  <2>2. IsWindow(Trimmed(WindowOf(SubSeq(W, lo, hi), q, t, w)), W, lo + st[w], LastOf(lo, hi, st[w], t), t)
    BY <1>4, <2>1, WindowIs
  <2>3. QED BY <1>5, <2>2
<1>7. N \in Nat \ {0} /\ \A w \in 1..N : ws[w] \in Seq(Char)
  BY <1>4, <1>6 DEF IsStarts, IsWindow
<1>8. ws \in Seq(Seq(Char)) /\ Len(ws) = N
  <2>1. ws = [w \in 1..N |-> ws[w]]
    BY DEF AllWindows
  <2>2. ws \in [1..N -> Seq(Char)] /\ N \in Nat
    BY <1>7, <2>1
  <2>3. QED BY <2>2, SeqDef, LenProperties
<1> HIDE DEF ws, s, q, t, o
<1>9. a \in Seq(Seq(Char)) /\ ToSet(a) = ToSet(ws) \cap NonEmpty(ws)
  <2>1. ws \in Seq(Seq(Char))
    BY <1>8
  <2>2. QED BY <1>3, <2>1, KeptIs
<1>10. PICK k : Places(a, ws, Len(ws), k)
  <2>1. ws \in Seq(Seq(Char))
    BY <1>8
  <2>2. QED BY <1>3, <2>1, KeptInOrder
<1>11. /\ k \in [1..Len(a) -> 1..N] /\ \A i \in 1..Len(a) : a[i] = ws[k[i]]
       /\ \A i, j \in 1..Len(a) : i < j => k[i] < k[j]
  BY <1>8, <1>10 DEF Places
<1>12. \A i \in 1..Len(a) : IsWindow(a[i], W, l(k[i]), h(k[i]), t)
  BY <1>6, <1>11
<1>13. \A w \in 1..N : /\ st[w] \in Nat /\ st[w] < L /\ st[w] <= L - t + q - 1
                       /\ \A v \in 1..N : v <= w => st[v] <= st[w]
  BY <1>4 DEF IsStarts
<1>14. \A w \in 1..N : h(w) = IF lo + st[w] + t - 1 <= hi THEN lo + st[w] + t - 1 ELSE hi
  BY DEF LastOf
<1>15. \A i \in 1..Len(a) : Len(a[i]) <= Bound(g)
  <2> SUFFICES ASSUME NEW i \in 1..Len(a) PROVE Len(a[i]) <= Bound(g)
    OBVIOUS
  <2>1. Len(a[i]) <= t /\ a[i] \in Seq(Char)
    BY <1>12 DEF IsWindow
  <2>2. QED BY <1>1, <2>1
<1>16. ASSUME NEW p \in lo..hi PROVE W[p] = Gap \/ \E i \in 1..Len(a) : W[p] \in Elements(a[i])
  <2>1. p - lo \in 0..L-1
    OBVIOUS
  <2>2. PICK w \in 1..N : st[w] <= p - lo /\ p - lo < st[w] + t
    BY <1>4, <2>1 DEF IsStarts
  <2>3. p \in l(w)..h(w)
    BY <1>1, <1>13, <1>14, <2>2, SMTT(30)
  <2> DEFINE x == ws[w]
  <2>4. Spans(x, W, l(w), h(w)) /\ x \in Seq(Char)
    BY <1>6 DEF IsWindow
  <2> HIDE DEF l, h
  <2>5. W[p] = Gap \/ W[p] \in Elements(x)
    BY <2>3, <2>4 DEF Spans
  <2>6. ASSUME W[p] \in Elements(x) PROVE \E i \in 1..Len(a) : W[p] \in Elements(a[i])
    <3>1. x # <<>>
      BY <2>6 DEF Elements
    <3>2. x \in ToSet(ws) /\ x \in NonEmpty(ws)
      <4>1. w \in DOMAIN ws
        BY <1>8
      <4>2. x \in {ws[i] : i \in DOMAIN ws}
        BY <4>1
      <4>3. QED BY <3>1, <4>2, Zenon DEF ToSet, NonEmpty
    <3>3. x \in ToSet(a)
      BY <1>9, <3>2
    <3>4. PICK i \in 1..Len(a) : a[i] = x
      BY <1>9, <3>3 DEF ToSet
    <3>5. QED BY <2>6, <3>4
  <2>7. QED BY <2>5, <2>6
<1>17. ASSUME NEW i \in 1..Len(a), NEW j \in 1..Len(a), i < j PROVE InFront(a[i], a[j], W)
  <2> DEFINE v == k[i]
             w == k[j]
  <2>1. v \in 1..N /\ w \in 1..N /\ v < w
    BY <1>11, <1>17
  <2>2. st[v] <= st[w] /\ st[v] \in Nat /\ st[w] \in Nat
    BY <1>13, <2>1
  <2>3. Spans(a[i], W, l(v), h(v)) /\ Spans(a[j], W, l(w), h(w))
    BY <1>12 DEF IsWindow
  <2>4. l(v) <= l(w) /\ h(v) <= h(w)
    <3> DEFINE b == st[v]
               d == st[w]
    <3>1. h(v) = IF lo + b + t - 1 <= hi THEN lo + b + t - 1 ELSE hi
      BY <1>14, <2>1
    <3>2. h(w) = IF lo + d + t - 1 <= hi THEN lo + d + t - 1 ELSE hi
      BY <1>14, <2>1
    <3>3. l(v) = lo + b /\ l(w) = lo + d /\ b <= d /\ b \in Nat /\ d \in Nat
      BY <2>2
    <3> HIDE DEF l, h, b, d
    <3>4. QED BY <1>1, <3>1, <3>2, <3>3
  <2> HIDE DEF l, h
  <2>5. QED BY <2>3, <2>4, InFrontIs
<1>18. ASSUME o <= t, NEW i \in 1..Len(a) PROVE Within(a[i], W, lo, hi, g)
  <2> DEFINE w == k[i]
             b == st[w]
  <2>1. w \in 1..N
    BY <1>11
  <2>2. Spans(a[i], W, l(w), h(w))
    BY <1>12 DEF IsWindow
  <2>3. b \in Nat /\ b < L /\ b <= L - t + q - 1
    BY <1>13, <2>1
  <2>4. h(w) = IF lo + b + t - 1 <= hi THEN lo + b + t - 1 ELSE hi
    BY <1>14, <2>1
  <2>5. l(w) = lo + b
    OBVIOUS
  <2> HIDE DEF l, h, b
  <2>6. lo <= l(w) /\ h(w) <= hi
    BY <2>3, <2>4, <2>5
  <2>7. l(w) <= hi - o + 1
    BY <1>1, <1>18, <2>3, <2>5
  <2>8. h(w) >= hi \/ h(w) >= lo + t - 1
    BY <1>1, <2>3, <2>4
  <2>9. QED BY <2>2, <2>6, <2>7, <2>8 DEF Within, o, t
<1>19. PartsOf(a, W, lo, hi, g)
  BY <1>9, <1>15, <1>16, <1>17, <1>18 DEF PartsOf, PartsInTurn, o, t
<1>20. QED BY <1>19 DEF a, s

\* The parts of what was grouped between two places.
PartOf(g, s) == IF Len(s) > Bound(g) THEN Windows(s, g) ELSE <<s>>

\* So are those of any part that does not end with a gap.
LEMMA GroupPartsAre ==
  ASSUME NEW g \in AnyChunkable, NEW W \in Seq(Char), NEW lo \in Nat, NEW hi \in Nat,
         1 <= lo, lo <= hi, hi <= Len(W), W[hi] # Gap
  PROVE  PartsOf(PartOf(g, Trimmed(SubSeq(W, lo, hi))), W, lo, hi, g)
<1> DEFINE s == SubSeq(W, lo, hi)
           n == Len(s)
           b == IF s[1] = Gap THEN 2 ELSE 1
           tl == lo + b - 1
           x == Trimmed(s)
           a == PartOf(g, x)
           B == Bound(g)
           t == g.target
           o == g.overlap
<1>1. s \in Seq(Char) /\ n = hi - lo + 1 /\ \A k \in 1..hi - lo + 1 : s[k] = W[lo + k - 1]
  BY CutIs
<1>2. /\ s[1] = W[lo] /\ s[n] = W[hi]
  <2>1. 1 \in 1..hi - lo + 1 /\ n \in 1..hi - lo + 1 /\ lo + 1 - 1 = lo /\ lo + n - 1 = hi
    BY <1>1
  <2>2. QED BY <1>1, <2>1
<1>3. /\ b \in {1, 2} /\ (b = 2 => W[lo] = Gap /\ lo < hi)
      /\ tl \in Nat /\ lo <= tl /\ tl <= hi /\ 1 <= tl /\ tl <= lo + 1 /\ (tl # lo => W[lo] = Gap)
  <2>1. b \in {1, 2} /\ (b = 2 => W[lo] = Gap)
    BY <1>2
  <2>2. W[lo] = Gap => lo < hi
    OBVIOUS
  <2> HIDE DEF b
  <2>3. QED BY <2>1, <2>2
<1>4. x = SubSeq(s, b, n)
  BY <1>2, GapIsSpace DEF Trimmed
<1> HIDE DEF b
<1>5. x = SubSeq(W, tl, hi)
  <2>1. b \in Nat /\ n \in Nat /\ 1 <= b /\ b <= n /\ n <= hi - lo + 1 /\ lo + n - 1 = hi
    BY <1>1, <1>3
  <2> HIDE DEF n
  <2>2. LET r == SubSeq(SubSeq(W, lo, hi), b, n)
        IN /\ r \in Seq(Char) /\ Len(r) = n - b + 1 /\ Spans(r, W, lo + b - 1, lo + n - 1)
           /\ r = SubSeq(W, lo + b - 1, lo + n - 1)
    BY <2>1, CutOfCut
  <2>3. QED BY <1>4, <2>1, <2>2
<1> HIDE DEF x, tl, s
<1>6. x \in Seq(Char) /\ Len(x) = hi - tl + 1 /\ Spans(x, W, tl, hi)
  BY <1>3, <1>5, CutIs
<1>7. t \in Nat \ {0} /\ o \in Nat /\ B \in Nat /\ B >= t + o
  BY BoundsAre
<1> HIDE DEF B, t, o
<1>8. CASE Len(x) > B
  <2>1. a = Windows(SubSeq(W, tl, hi), g)
    BY <1>5, <1>8 DEF PartOf, B
  <2>2. PartsOf(a, W, tl, hi, g)
    <3>1. hi - tl + 1 > Bound(g)
      BY <1>6, <1>8 DEF B
    <3>2. QED BY <1>3, <2>1, <3>1, WindowsAreParts
  <2> HIDE DEF a
  <2>3. \A p \in lo..hi : W[p] = Gap \/ \E i \in 1..Len(a) : W[p] \in Elements(a[i])
    <3> SUFFICES ASSUME NEW p \in lo..hi
                 PROVE  W[p] = Gap \/ \E i \in 1..Len(a) : W[p] \in Elements(a[i])
      OBVIOUS
    <3>1. (p = lo /\ tl # lo) \/ p \in tl..hi
      BY <1>3
    <3>2. QED BY <1>3, <2>2, <3>1 DEF PartsOf
  <2>4. ASSUME o <= t, NEW i \in 1..Len(a) PROVE Within(a[i], W, lo, hi, g)
    <3>1. Within(a[i], W, tl, hi, g)
      BY <2>2, <2>4 DEF PartsOf, o, t
    <3>2. PICK l, h : /\ Spans(a[i], W, l, h) /\ tl <= l /\ h <= hi
                      /\ l <= tl \/ l <= hi - o + 1
                      /\ h >= hi \/ h >= tl + t - 1
      BY <3>1 DEF Within, o, t
    <3>3. l \in Nat /\ h \in Nat
      BY <3>2 DEF Spans
    <3>4. tl <= hi - o + 1
      BY <1>3, <1>6, <1>7, <1>8
    <3>5. lo <= l /\ h <= hi /\ (l <= lo \/ l <= hi - o + 1) /\ (h >= hi \/ h >= lo + t - 1)
      BY <1>3, <1>7, <3>2, <3>3, <3>4
    <3>6. QED BY <3>2, <3>5 DEF Within, o, t
  <2>5. QED BY <2>2, <2>3, <2>4 DEF PartsOf, o, t, a, x, s
<1>9. CASE ~(Len(x) > B)
  <2>1. a = <<x>>
    BY <1>9 DEF PartOf, B
  <2> HIDE DEF a
  <2>2. a \in Seq(Seq(Char)) /\ Len(a) = 1 /\ a[1] = x
    BY <1>6, <2>1
  <2>3. Spans(x, W, lo, hi)
    <3>1. ASSUME NEW c, c # Gap PROVE c \in Elements(x) <=> \E p \in lo..hi : W[p] = c
      <4>1. c \in Elements(x) <=> \E p \in tl..hi : W[p] = c
        BY <1>6, <3>1 DEF Spans
      <4>2. ASSUME NEW p \in lo..hi, W[p] = c PROVE p \in tl..hi
        BY <1>3, <3>1, <4>2
      <4>3. \A p \in tl..hi : p \in lo..hi
        BY <1>3
      <4>4. QED BY <4>1, <4>2, <4>3
    <3>2. QED BY <3>1 DEF Spans
  <2>4. Len(a[1]) <= B
    BY <1>3, <1>6, <1>7, <1>9, <2>2
  <2>5. \A p \in lo..hi : W[p] = Gap \/ W[p] \in Elements(x)
    BY <2>3 DEF Spans
  <2>6. Within(x, W, lo, hi, g)
    BY <2>3 DEF Within
  <2>7. PartsInTurn(a, W)
    BY <2>2 DEF PartsInTurn
  <2>8. PartsOf(a, W, lo, hi, g)
    <3>1. \A i \in 1..Len(a) : i = 1
      BY <2>2
    <3>2. QED BY <2>2, <2>4, <2>5, <2>6, <2>7, <3>1 DEF PartsOf, B
  <2>9. QED BY <2>8 DEF a, x, s
<1>10. QED BY <1>8, <1>9

\* A sentence is a cut of the text.
LEMMA SentenceIsCut ==
  ASSUME NEW g \in AnyChunkable, NEW W, NEW c, NEW n, IsText(W, c, n, g), NEW i \in 1..n
  PROVE  /\ c[i] \in 1..Len(W) /\ W[c[i]] # Gap
         /\ c[i] - g.lengths[i] + 1 \in Nat /\ 1 <= c[i] - g.lengths[i] + 1
         /\ Sentence(g, i) = SubSeq(W, c[i] - g.lengths[i] + 1, c[i])
<1> DEFINE l == g.lengths[i]
           e == c[i]
           s == Sentence(g, i)
           lo == e - l + 1
<1>1. n = Len(g.lengths)
  BY EndIs
<1>2. l \in Nat /\ l >= 1 /\ e \in Nat /\ e >= l /\ e <= Len(W) /\ W \in Seq(Char)
  <2> DEFINE h == c[i-1]
  <2>1. /\ e \in Nat /\ h \in Nat /\ l \in Nat /\ l >= 1 /\ (i # 1 => e = h + 1 + l)
        /\ (i = 1 => e = l) /\ e <= Len(W) /\ W \in Seq(Char)
    BY EndIs
  <2> HIDE DEF h, e, l
  <2>2. QED BY <2>1
<1>3. lo \in Nat /\ 1 <= lo /\ lo <= e /\ e <= Len(W) /\ e \in Nat /\ e - lo + 1 = l
  <2> HIDE DEF e, l
  <2>1. QED BY <1>2
<1>4. \A k \in 1..l : W[e - l + k] = <<i, k>>
  BY DEF IsText, TextIs
<1>5. s \in Seq(Char) /\ Len(s) = l /\ \A k \in 1..l : s[k] = <<i, k>>
  BY <1>1, PieceIs
<1> HIDE DEF l, e, s
<1>6. W[e] # Gap
  <2>1. l \in 1..l /\ e - l + l = e
    BY <1>2 DEF e
  <2>2. W[e] = <<i, l>>
    BY <1>4, <2>1
  <2>3. QED BY <2>2 DEF Gap
<1>7. SubSeq(W, lo, e) = s
  <2>1. lo \in 1..Len(W) /\ e \in lo..Len(W)
    BY <1>2, <1>3
  <2>2. \A k \in 1..Len(s) : s[k] = W[lo + k - 1]
    <3> SUFFICES ASSUME NEW k \in 1..Len(s) PROVE s[k] = W[lo + k - 1]
      OBVIOUS
    <3>1. lo + k - 1 = e - l + k
      BY <1>2, <1>3 DEF e
    <3>2. QED BY <1>4, <1>5, <3>1
  <2>3. Len(s) = e - lo + 1
    BY <1>3, <1>5
  <2> HIDE DEF lo
  <2>4. W \in Seq(Char) /\ s \in Seq(Char)
    BY <1>2, <1>5
  <2>5. QED BY <2>1, <2>2, <2>3, <2>4, PartIs
<1>8. e \in 1..Len(W)
  BY <1>2, <1>3 DEF e
<1>9. QED BY <1>3, <1>6, <1>7, <1>8 DEF s, e, l

\* With a space and the next sentence a cut is prolonged.
Longer(W, lo, h, e, z) == (SubSeq(W, lo, h) \o <<Gap>>) \o z = SubSeq(W, lo, e)

\* One more sentence prolongs what was cut of the text.
LEMMA CutIsProlonged ==
  ASSUME NEW g \in AnyChunkable, NEW W, NEW c, NEW n, IsText(W, c, n, g), NEW i \in 2..n,
         NEW lo \in Nat, 1 <= lo, lo <= c[i-1]
  PROVE  Longer(W, lo, c[i-1], c[i], Sentence(g, i))
<1> DEFINE l == g.lengths[i]
           h == c[i-1]
           e == c[i]
           s == Sentence(g, i)
           u == SubSeq(W, lo, h)
           v == <<Gap>>
           uv == u \o v
           r == uv \o s
<1>0. n \in Nat
  BY DEF IsText, EndsAt
<1>1. i \in 1..n /\ n = Len(g.lengths) /\ i # 1
  <2>1. i \in 1..n /\ i # 1
    BY <1>0
  <2>2. QED BY <2>1, EndIs
<1>2. e = h + 1 + l /\ h \in Nat /\ e \in Nat /\ l \in Nat /\ l >= 1 /\ W \in Seq(Char) /\ e <= Len(W)
  BY <1>1, EndIs
<1>3. e \in 1..Len(W) /\ h <= Len(W)
  <2>1. Len(W) \in Nat
    BY <1>2
  <2> HIDE DEF h, e, l
  <2>2. QED BY <1>2, <2>1
<1>4. s \in Seq(Char) /\ Len(s) = l /\ \A k \in 1..l : s[k] = <<i, k>>
  BY <1>1, PieceIs
<1>5. W[h + 1] = Gap /\ \A k \in 1..l : W[e - l + k] = <<i, k>>
  BY <1>1 DEF IsText, TextIs
<1> HIDE DEF l, h, e, s
<1>6. u \in Seq(Char) /\ Len(u) = h - lo + 1 /\ \A k \in 1..h - lo + 1 : u[k] = W[lo + k - 1]
  BY <1>2, <1>3, CutIs DEF h
<1>7. v \in Seq(Char) /\ Len(v) = 1 /\ v[1] = Gap
  BY DEF Char, Gap
<1> HIDE DEF u, v
<1>8. /\ uv \in Seq(Char) /\ Len(uv) = Len(u) + Len(v)
      /\ \A k \in 1..Len(u) : uv[k] = u[k]
      /\ \A k \in 1..Len(v) : uv[Len(u) + k] = v[k]
  <2>1. u \in Seq(Char) /\ v \in Seq(Char)
    BY <1>6, <1>7
  <2>2. QED BY <2>1, ConcatIs
<1> HIDE DEF uv
<1>9. /\ r \in Seq(Char) /\ Len(r) = Len(uv) + Len(s)
      /\ \A k \in 1..Len(uv) : r[k] = uv[k]
      /\ \A k \in 1..Len(s) : r[Len(uv) + k] = s[k]
  <2>1. uv \in Seq(Char) /\ s \in Seq(Char)
    BY <1>4, <1>8
  <2>2. QED BY <2>1, ConcatIs
<1> HIDE DEF r
<1>10. Len(uv) = h - lo + 2 /\ Len(r) = e - lo + 1 /\ lo <= h
  <2>1. lo <= h
    BY DEF h
  <2>2. QED BY <1>2, <1>4, <1>6, <1>7, <1>8, <1>9, <2>1
<1>11. ASSUME NEW k \in 1..Len(r) PROVE r[k] = W[lo + k - 1]
  <2>1. CASE k <= h - lo + 1
    <3>1. k \in 1..Len(u) /\ k \in 1..Len(uv) /\ k \in 1..h - lo + 1
      BY <1>2, <1>6, <1>10, <2>1
    <3>2. QED BY <1>6, <1>8, <1>9, <3>1
  <2>2. CASE k = h - lo + 2
    <3>1. k \in 1..Len(uv) /\ k = Len(u) + 1 /\ 1 \in 1..Len(v) /\ lo + k - 1 = h + 1
      BY <1>2, <1>6, <1>7, <1>10, <2>2
    <3>2. uv[k] = Gap
      BY <1>7, <1>8, <3>1
    <3>3. QED BY <1>5, <1>9, <3>1, <3>2
  <2>3. CASE k > h - lo + 2
    <3> DEFINE m == k - (h - lo + 2)
    <3>1. m \in 1..l /\ k = Len(uv) + m /\ lo + k - 1 = e - l + m
      BY <1>2, <1>10, <2>3
    <3> HIDE DEF m
    <3>2. r[k] = s[m]
      BY <1>4, <1>9, <3>1
    <3>3. QED BY <1>4, <1>5, <3>1, <3>2
  <2>4. QED BY <1>2, <2>1, <2>2, <2>3
<1>12. SubSeq(W, lo, e) = r
  <2>1. lo \in 1..Len(W) /\ e \in lo..Len(W)
    BY <1>2, <1>3, <1>10
  <2>2. W \in Seq(Char) /\ r \in Seq(Char)
    BY <1>2, <1>9
  <2>3. Len(r) = e - lo + 1
    BY <1>10
  <2>4. QED BY <1>11, <2>1, <2>2, <2>3, PartIs
<1>13. QED BY <1>12 DEF Longer, r, uv, u, v, s, h, e

\* The grouping of the sentences, one after the other.
GroupState == [out : Seq(Seq(Char)), buf : Seq(Char)]
Empty == [out |-> <<>>, buf |-> <<>>]
IsFull(g, s, i) == Len(s.buf) + g.lengths[i] + 1 > g.target /\ s.buf # <<>>
HeadOf(g, s, i) == IF IsFull(g, s, i) THEN Tail_(s.buf, Min({g.overlap, Len(s.buf)})) ELSE s.buf
GapOf(head) == IF head = <<>> \/ head[Len(head)] = Gap THEN <<>> ELSE <<Gap>>
GroupStep(g, s, i) ==
  [out |-> IF IsFull(g, s, i) THEN Append(s.out, s.buf) ELSE s.out,
   buf |-> HeadOf(g, s, i) \o GapOf(HeadOf(g, s, i)) \o Sentence(g, i)]
Grouped(g) == FoldLeft(LAMBDA s, i : GroupStep(g, s, i), Empty, [i \in DOMAIN g.lengths |-> i])
Groups(f, g) ==
  /\ f \in [0..Len(g.lengths) -> GroupState] /\ f[0] = Empty
  /\ \A i \in 1..Len(g.lengths) : f[i] = GroupStep(g, f[i-1], i)
  /\ Grouped(g) = f[Len(g.lengths)]

\* The tail of a sequence.
LEMMA TailIs ==
  ASSUME NEW X, NEW b \in Seq(X), NEW m \in 0..Len(b)
  PROVE  Tail_(b, m) \in Seq(X) /\ (m = 0 <=> Tail_(b, m) = <<>>)
<1>1. Tail_(b, m) = SubSeq(b, Len(b) - m + 1, Len(b)) /\ Len(b) \in Nat
  BY DEF Tail_
<1>2. Tail_(b, m) \in Seq(X) /\ Len(Tail_(b, m)) = m
  BY <1>1, SubSeqProperties
<1>3. QED BY <1>2, EmptySeq

\* A step leaves parts and a buffer.
LEMMA GroupStepTyped ==
  ASSUME NEW g \in AnyChunkable, NEW s \in GroupState, NEW i \in 1..Len(g.lengths)
  PROVE  GroupStep(g, s, i) \in GroupState
<1> DEFINE b == s.buf
           m == Min({g.overlap, Len(b)})
           h == HeadOf(g, s, i)
           p == GapOf(h)
           z == Sentence(g, i)
<1>1. b \in Seq(Char) /\ s.out \in Seq(Seq(Char)) /\ Len(b) \in Nat /\ g.overlap \in Nat
  BY DEF GroupState, AnyChunkable
<1>2. m \in 0..Len(b)
  <2> DEFINE o == g.overlap
             k == Len(b)
  <2>1. o \in Int /\ k \in Int
    BY <1>1
  <2> HIDE DEF o, k
  <2>2. Min({o, k}) = IF o <= k THEN o ELSE k
    BY <2>1, OfTwo
  <2>3. QED BY <1>1, <2>2 DEF o, k
<1> HIDE DEF m, b
<1>3. Tail_(b, m) \in Seq(Char)
  BY <1>1, <1>2, TailIs
<1>4. h \in Seq(Char)
  BY <1>1, <1>3 DEF HeadOf, b, m
<1> HIDE DEF h
<1>5. p \in Seq(Char)
  <2>1. Gap \in Char
    BY DEF Gap, Char
  <2>2. QED BY <2>1 DEF GapOf
<1>6. z \in Seq(Char)
  BY PieceIs
<1> HIDE DEF p, z
<1>7. h \o p \o z \in Seq(Char)
  BY <1>4, <1>5, <1>6
<1>8. (IF IsFull(g, s, i) THEN Append(s.out, b) ELSE s.out) \in Seq(Seq(Char))
  BY <1>1
<1>9. QED BY <1>7, <1>8 DEF GroupStep, GroupState, h, p, z, b

\* The sentences are grouped one after the other.
LEMMA GroupsAreMade ==
  ASSUME NEW g \in AnyChunkable
  PROVE  \E f : Groups(f, g)
<1> DEFINE n == Len(g.lengths)
           T == GroupState
           a == Empty
           step == [i \in 1..n |-> [t \in T |-> GroupStep(g, t, i)]]
           body(j) == [u \in SUBSET (1..n) |->
                         IF u = {} THEN a ELSE GroupStep(g, j[u \ {Max(u)}], [i \in DOMAIN g.lengths |-> i][Max(u)])]
<1>1. n \in Nat /\ DOMAIN g.lengths = 1..n
  BY DEF AnyChunkable
<1>2. a \in T /\ \A i \in 1..n, t \in T : GroupStep(g, t, i) \in T
  <2>1. a \in T
    BY DEF GroupState, Empty
  <2>2. QED BY <2>1, GroupStepTyped
<1>3. Grouped(g) = (CHOOSE j : j = body(j))[1..n]
  BY <1>1 DEF Grouped, FoldLeft, MapThenFoldSet
<1>4. AreSteps(step, n, T) /\ \A i \in 1..n, t \in T : step[i][t] = GroupStep(g, t, i)
  BY <1>2 DEF AreSteps
<1> HIDE DEF step, n, T, a
<1>5. \E j : j = body(j)
  <2>1. PICK it : it \in [SUBSET (1..n) -> T] /\ IsFold(it, n, T, a, step)
    BY <1>1, <1>2, <1>4, FoldExists, Zenon
  <2>2. \A u \in SUBSET (1..n) : it[u] = body(it)[u]
    BY <1>1, <1>4, <2>1 DEF IsFold
  <2> HIDE DEF body
  <2>3. it = body(it)
    BY <2>1, <2>2, Zenon DEF body
  <2>4. QED BY <2>3, Zenon
<1>6. PICK j : j = body(j) /\ Grouped(g) = j[1..n]
  BY <1>3, <1>5
<1>7. \A u \in SUBSET (1..n) : j[u] = IF u = {} THEN a ELSE GroupStep(g, j[u \ {Max(u)}], [i \in DOMAIN g.lengths |-> i][Max(u)])
  BY <1>6
<1>8. j[{}] = a /\ \A i \in 1..n : j[1..i] = GroupStep(g, j[1..(i-1)], i)
  <2>1. ASSUME NEW i \in 1..n PROVE j[1..i] = GroupStep(g, j[1..(i-1)], i)
    <3>1. 1..i \in SUBSET (1..n) /\ 1..i # {} /\ Max(1..i) = i /\ (1..i) \ {i} = 1..(i-1)
      BY <1>1, PrefixIs
    <3>2. [k \in DOMAIN g.lengths |-> k][Max(1..i)] = i
      BY <1>1, <3>1
    <3>3. QED BY <1>7, <3>1, <3>2
  <2>2. QED BY <1>7, <2>1
<1>9. \A i \in 1..n : j[1..(i-1)] \in T => j[1..i] = step[i][j[1..(i-1)]]
  BY <1>4, <1>8
<1>10. PICK f : TakesSteps(f, n, T, a, step) /\ f[n] = j[1..n]
  BY <1>1, <1>2, <1>4, <1>8, <1>9, FoldTakesSteps
<1>11. f \in [0..n -> T] /\ f[0] = a /\ \A i \in 1..n : f[i] = GroupStep(g, f[i-1], i)
  BY <1>1, <1>4, <1>10, StepsAreTaken
<1>12. Groups(f, g)
  BY <1>6, <1>10, <1>11 DEF Groups, n, T, a
<1>13. QED BY <1>12

\* The sentences are grouped, the groups are parted, and the parts are put together.
AllParts(g, q) == FlattenSeq([i \in DOMAIN q |-> PartOf(g, Trimmed(q[i]))])

\* The chunks are the parts of the groups, one after the other.
LEMMA ChunksAre ==
  ASSUME NEW g
  PROVE  /\ GroupSentences(g) = Append(Grouped(g).out, Grouped(g).buf)
         /\ ChunkParagraph(g) = IF Len(WholeText(g)) <= g.target THEN <<WholeText(g)>>
                                ELSE AllParts(g, GroupSentences(g))
<1>1. GroupSentences(g) = Append(Grouped(g).out, Grouped(g).buf)
  BY DEF GroupSentences, Grouped, GroupStep, HeadOf, GapOf, IsFull, Empty, Gap, Space
<1>2. ChunkParagraph(g) = IF Len(WholeText(g)) <= g.target THEN <<WholeText(g)>>
                          ELSE AllParts(g, GroupSentences(g))
  BY GapIsSpace DEF ChunkParagraph, WholeText, PieceOf, AllParts, PartOf, Bound
<1>3. QED BY <1>1, <1>2

\* What is grouped is a cut of the text up to the last sentence taken.
Grows(s, r, W, lo, lo2, hi, e, g) ==
  /\ r.buf = SubSeq(W, lo2, e) /\ lo2 \in Nat /\ 1 <= lo2 /\ lo2 <= e
  /\ \/ r.out = s.out /\ lo2 = lo
     \/ r.out = Append(s.out, s.buf) /\ NextPlace(W, lo, hi, lo2, g)

\* The first sentence begins the first group.
LEMMA FirstGroup ==
  ASSUME NEW g \in AnyChunkable, NEW W, NEW c, NEW n, IsText(W, c, n, g)
  PROVE  /\ 1 \in 1..n /\ GroupStep(g, Empty, 1).out = <<>> /\ 1 <= c[1]
         /\ GroupStep(g, Empty, 1).buf = SubSeq(W, 1, c[1])
<1> DEFINE k == 1
<1>1. k \in 1..n
  BY DEF IsText, EndsAt
<1>2. c[k] = g.lengths[k] /\ g.lengths[k] \in Nat /\ g.lengths[k] >= 1 /\ n = Len(g.lengths)
  <2>1. k = 1
    OBVIOUS
  <2> HIDE DEF k
  <2>2. QED BY <1>1, <2>1, EndIs
<1>3. Sentence(g, k) = SubSeq(W, c[k] - g.lengths[k] + 1, c[k]) /\ Sentence(g, k) \in Seq(Char)
  <2> HIDE DEF k
  <2>1. Sentence(g, k) = SubSeq(W, c[k] - g.lengths[k] + 1, c[k])
    BY <1>1, SentenceIsCut
  <2>2. Sentence(g, k) \in Seq(Char)
    BY <1>1, <1>2, PieceIs
  <2>3. QED BY <2>1, <2>2
<1>4. c[k] - g.lengths[k] + 1 = 1
  BY <1>2
<1>5. ~IsFull(g, Empty, 1) /\ HeadOf(g, Empty, 1) = <<>> /\ GapOf(<<>>) = <<>>
  BY DEF IsFull, HeadOf, GapOf, Empty
<1>6. GroupStep(g, Empty, 1).buf = <<>> \o <<>> \o Sentence(g, 1)
  BY <1>5 DEF GroupStep
<1>7. <<>> \o <<>> \o Sentence(g, 1) = Sentence(g, 1)
  BY <1>3
<1>8. GroupStep(g, Empty, 1).out = <<>>
  BY <1>5 DEF GroupStep, Empty
<1>9. QED BY <1>1, <1>2, <1>3, <1>4, <1>6, <1>7, <1>8

\* A step that closes a group begins the next with its tail, one that does not goes on.
LEMMA NextGroup ==
  ASSUME NEW g \in AnyChunkable, NEW W, NEW c, NEW n, IsText(W, c, n, g), NEW i \in 2..n,
         NEW s \in GroupState, NEW lo \in Nat, 1 <= lo, lo <= c[i-1], s.buf = SubSeq(W, lo, c[i-1])
  PROVE  \E lo2 : Grows(s, GroupStep(g, s, i), W, lo, lo2, c[i-1], c[i], g)
<1> DEFINE hi == c[i-1]
           e == c[i]
           l == g.lengths[i]
           o == g.overlap
           t == g.target
           b == s.buf
           k == Len(b)
           m == Min({o, k})
           r == GroupStep(g, s, i)
           z == Sentence(g, i)
           h == HeadOf(g, s, i)
<1>0. n \in Nat
  BY DEF IsText, EndsAt
<1>1. i \in 1..n /\ i # 1 /\ i - 1 \in 1..n
  BY <1>0
<1>2. e = hi + 1 + l /\ hi \in Nat /\ e \in Nat /\ l \in Nat /\ l >= 1 /\ W \in Seq(Char) /\ e <= Len(W)
  BY <1>1, EndIs
<1>3. hi \in 1..Len(W) /\ W[hi] # Gap
  BY <1>1, SentenceIsCut
<1>4. z = SubSeq(W, e - l + 1, e) /\ z \in Seq(Char)
  <2>1. z = SubSeq(W, e - l + 1, e)
    BY <1>1, SentenceIsCut
  <2>2. n = Len(g.lengths)
    BY <1>1, EndIs
  <2>3. z \in Seq(Char)
    BY <1>1, <2>2, PieceIs
  <2>4. QED BY <2>1, <2>3
<1>5. W[hi + 1] = Gap
  BY DEF IsText, TextIs
<1>6. t \in Nat \ {0} /\ o \in Nat
  BY BoundsAre
<1>7. (SubSeq(W, lo, hi) \o <<Gap>>) \o z = SubSeq(W, lo, e)
  <2>1. Longer(W, lo, c[i-1], c[i], Sentence(g, i))
    BY CutIsProlonged
  <2>2. QED BY <2>1 DEF Longer
<1>8. lo <= hi /\ b = SubSeq(W, lo, hi)
  OBVIOUS
<1> HIDE DEF hi, e, l, o, t, b, r, z, h
<1>9. b \in Seq(Char) /\ k = hi - lo + 1 /\ \A j \in 1..hi - lo + 1 : b[j] = W[lo + j - 1]
  BY <1>2, <1>3, <1>8, CutIs
<1>10. b # <<>> /\ b[Len(b)] = W[hi]
  <2>1. k \in 1..hi - lo + 1 /\ lo + k - 1 = hi /\ k # 0
    BY <1>2, <1>8, <1>9
  <2>2. QED BY <1>9, <2>1
<1>11. r.buf = h \o GapOf(h) \o z /\ r.out = IF IsFull(g, s, i) THEN Append(s.out, b) ELSE s.out
  BY DEF GroupStep, r, h, z, b
<1>12. h = IF IsFull(g, s, i) THEN Tail_(b, m) ELSE b
  BY DEF HeadOf, h, b, o
<1>13. CASE ~IsFull(g, s, i)
  <2>1. h = b /\ r.out = s.out
    BY <1>11, <1>12, <1>13
  <2>2. GapOf(h) = <<Gap>>
    BY <1>3, <1>10, <2>1 DEF GapOf
  <2>3. r.buf = SubSeq(W, lo, e)
    BY <1>7, <1>8, <1>11, <2>1, <2>2
  <2>4. lo <= e
    BY <1>2, <1>8
  <2>5. Grows(s, r, W, lo, lo, hi, e, g)
    BY <2>1, <2>3, <2>4 DEF Grows
  <2>6. QED BY <2>5 DEF r, hi, e
<1>14. CASE IsFull(g, s, i)
  <2>1. h = Tail_(b, m) /\ r.out = Append(s.out, b)
    BY <1>11, <1>12, <1>14
  <2>2. m = IF o <= k THEN o ELSE k
    <3>1. o \in Int /\ k \in Int
      BY <1>6, <1>9
    <3> HIDE DEF k
    <3>2. QED BY <3>1, OfTwo
  <2>3. k \in Nat /\ k >= 1
    BY <1>2, <1>8, <1>9
  <2>4. h = SubSeq(b, k - m + 1, k)
    BY <2>1 DEF Tail_
  <2> HIDE DEF k, m
  <2>5. CASE o = 0
    <3> DEFINE lo2 == e - l + 1
    <3>1. m = 0
      BY <2>2, <2>3, <2>5
    <3>2. h = <<>>
      <4>1. m \in 0..Len(b) /\ b \in Seq(Char)
        BY <1>9, <2>3, <3>1 DEF k
      <4>2. QED BY <2>1, <3>1, <4>1, TailIs
    <3>3. GapOf(h) = <<>>
      BY <3>2 DEF GapOf
    <3>4. <<>> \o <<>> \o z = z
      BY <1>4
    <3>5. r.buf = SubSeq(W, lo2, e)
      BY <1>4, <1>11, <3>2, <3>3, <3>4
    <3>6. lo2 = hi + 2 /\ lo2 \in Nat /\ 1 <= lo2 /\ lo2 <= e /\ lo <= lo2
      BY <1>2, <1>8
    <3> HIDE DEF lo2
    <3>7. NextPlace(W, lo, hi, lo2, g)
      <4>1. hi - o + 1 <= lo2 /\ hi <= lo2 + t - 1 /\ lo2 <= hi + 2
        BY <1>2, <1>6, <2>5, <3>6
      <4>2. QED BY <1>5, <3>6, <4>1 DEF NextPlace, o, t
    <3>8. Grows(s, r, W, lo, lo2, hi, e, g)
      BY <2>1, <3>5, <3>6, <3>7 DEF Grows, b
    <3>9. QED BY <3>8 DEF r, hi, e
  <2>6. CASE o # 0
    <3> DEFINE lo2 == hi - m + 1
    <3>1. m \in Nat /\ 1 <= m /\ m <= k /\ m <= o
      BY <1>6, <2>2, <2>3, <2>6
    <3>2. lo2 \in Nat /\ lo <= lo2 /\ lo2 <= hi /\ 1 <= lo2 /\ lo2 <= e /\ hi - lo2 + 1 = m
      BY <1>2, <1>8, <1>9, <3>1 DEF k
    <3>3. h = SubSeq(W, lo2, hi)
      <4> DEFINE x == k - m + 1
      <4>1. x \in Nat /\ k \in Nat /\ 1 <= x /\ x <= k /\ k <= hi - lo + 1 /\ lo + x - 1 = lo2 /\ lo + k - 1 = hi
        BY <1>2, <1>8, <1>9, <2>3, <3>1 DEF k
      <4>2. hi \in Nat /\ hi <= Len(W) /\ W \in Seq(Char)
        BY <1>2, <1>3
      <4>3. h = SubSeq(SubSeq(W, lo, hi), x, k)
        BY <1>8, <2>4
      <4> HIDE DEF x
      <4>4. LET v == SubSeq(SubSeq(W, lo, hi), x, k)
            IN /\ v \in Seq(Char) /\ Len(v) = k - x + 1 /\ Spans(v, W, lo + x - 1, lo + k - 1)
               /\ v = SubSeq(W, lo + x - 1, lo + k - 1)
        BY <1>8, <4>1, <4>2, CutOfCut
      <4>5. QED BY <4>1, <4>3, <4>4
    <3> HIDE DEF lo2
    <3>4. h \in Seq(Char) /\ Len(h) = m /\ h[m] = W[hi] /\ h # <<>>
      <4>1. /\ SubSeq(W, lo2, hi) \in Seq(Char) /\ Len(SubSeq(W, lo2, hi)) = hi - lo2 + 1
            /\ \A j \in 1..hi - lo2 + 1 : SubSeq(W, lo2, hi)[j] = W[lo2 + j - 1]
        BY <1>2, <1>3, <3>2, CutIs
      <4>2. m \in 1..hi - lo2 + 1 /\ lo2 + m - 1 = hi
        BY <1>2, <3>1, <3>2
      <4>3. h \in Seq(Char) /\ Len(h) = m
        BY <3>2, <3>3, <4>1
      <4>4. h[m] = W[lo2 + m - 1]
        BY <3>3, <4>1, <4>2
      <4>5. Len(h) # 0
        BY <3>1, <4>3
      <4>6. h # <<>>
        BY <4>5
      <4>7. QED BY <4>2, <4>3, <4>4, <4>6
    <3>5. GapOf(h) = <<Gap>>
      BY <1>3, <3>4 DEF GapOf
    <3>6. (SubSeq(W, lo2, hi) \o <<Gap>>) \o z = SubSeq(W, lo2, e)
      <4>1. lo2 \in Nat /\ 1 <= lo2 /\ lo2 <= c[i-1]
        BY <3>2 DEF hi
      <4>2. Longer(W, lo2, c[i-1], c[i], Sentence(g, i))
        BY <4>1, CutIsProlonged
      <4>3. QED BY <4>2 DEF Longer, hi, e, z
    <3>7. r.buf = SubSeq(W, lo2, e)
      BY <1>11, <3>3, <3>5, <3>6
    <3>8. NextPlace(W, lo, hi, lo2, g)
      <4>1. hi - o + 1 <= lo2 /\ lo2 <= hi + 2 /\ lo2 # hi + 2 /\ (o <= t => hi <= lo2 + t - 1)
        BY <1>2, <1>6, <3>1, <3>2
      <4>2. QED BY <3>2, <4>1 DEF NextPlace, o, t
    <3>9. Grows(s, r, W, lo, lo2, hi, e, g)
      BY <2>1, <3>2, <3>7, <3>8 DEF Grows, b
    <3>10. QED BY <3>9 DEF r, hi, e
  <2>7. QED BY <2>5, <2>6
<1>15. QED BY <1>13, <1>14

\* A group that is closed adds its parts.
Partable(g, q) ==
  q \in Seq(Seq(Char)) /\ \A i \in 1..Len(q) : PartOf(g, Trimmed(q[i])) \in Seq(Seq(Char))

\* The parts of one more group go to the end.
LEMMA GroupIsAdded ==
  ASSUME NEW g, NEW q, Partable(g, q), NEW b \in Seq(Char), PartOf(g, Trimmed(b)) \in Seq(Seq(Char))
  PROVE  Partable(g, Append(q, b)) /\ AllParts(g, Append(q, b)) = AllParts(g, q) \o PartOf(g, Trimmed(b))
<1> DEFINE n == Len(q)
           r == Append(q, b)
           pb == PartOf(g, Trimmed(b))
           u == [i \in DOMAIN q |-> PartOf(g, Trimmed(q[i]))]
           v == [i \in DOMAIN r |-> PartOf(g, Trimmed(r[i]))]
<1>1. q \in Seq(Seq(Char)) /\ n \in Nat /\ DOMAIN q = 1..n /\ \A i \in 1..n : PartOf(g, Trimmed(q[i])) \in Seq(Seq(Char))
  <2>1. q \in Seq(Seq(Char)) /\ \A i \in 1..n : PartOf(g, Trimmed(q[i])) \in Seq(Seq(Char))
    BY Zenon DEF Partable
  <2>2. QED BY <2>1
<1>2. r \in Seq(Seq(Char)) /\ Len(r) = n + 1 /\ DOMAIN r = 1..n+1 /\ r[n+1] = b /\ \A i \in 1..n : r[i] = q[i]
  BY <1>1
<1>3. u \in Seq(Seq(Seq(Char))) /\ Len(u) = n /\ \A i \in 1..n : u[i] = PartOf(g, Trimmed(q[i]))
  <2>1. u \in [1..n -> Seq(Seq(Char))]
    BY <1>1
  <2>2. QED BY <1>1, <2>1, SeqDef, LenProperties
<1> HIDE DEF r
<1>4. \A i \in 1..n+1 : PartOf(g, Trimmed(r[i])) = IF i = n + 1 THEN pb ELSE PartOf(g, Trimmed(q[i]))
  <2>1. \A i \in 1..n+1 : i # n + 1 => i \in 1..n
    BY <1>1
  <2>2. QED BY <1>2, <2>1
<1>5. \A i \in 1..n+1 : PartOf(g, Trimmed(r[i])) \in Seq(Seq(Char))
  <2>1. \A i \in 1..n+1 : i # n + 1 => i \in 1..n
    BY <1>1
  <2>2. QED BY <1>1, <1>4, <2>1
<1>6. Partable(g, r)
  BY <1>2, <1>5 DEF Partable
<1>7. v \in Seq(Seq(Seq(Char))) /\ Len(v) = n + 1 /\ \A i \in 1..n+1 : v[i] = PartOf(g, Trimmed(r[i]))
  <2>1. v \in [1..n+1 -> Seq(Seq(Char))] /\ n + 1 \in Nat
    BY <1>1, <1>2, <1>5
  <2>2. QED BY <1>2, <2>1, SeqDef, LenProperties
<1>8. AllParts(g, r) = FlattenSeq(v) /\ AllParts(g, q) = FlattenSeq(u)
  BY DEF AllParts
<1> HIDE DEF u, v, pb, n
<1>9. pb \in Seq(Seq(Char)) /\ u \in Seq(Seq(Seq(Char)))
  BY <1>3 DEF pb
<1>10. v = Append(u, pb)
  <2>1. \A i \in 1..n+1 : i # n + 1 => i \in 1..n
    BY <1>1
  <2>2. /\ Append(u, pb) \in Seq(Seq(Seq(Char))) /\ Len(Append(u, pb)) = n + 1
        /\ \A i \in 1..n : Append(u, pb)[i] = u[i]
        /\ Append(u, pb)[n+1] = pb
    BY <1>3, <1>9
  <2>3. \A i \in 1..n+1 : v[i] = Append(u, pb)[i]
    BY <1>3, <1>4, <1>7, <2>1, <2>2
  <2>4. QED BY <1>7, <2>2, <2>3, SeqEqual
<1>11. FlattenSeq(Append(u, pb)) = FlattenSeq(u) \o pb
  BY <1>9, FlattenOfAppend
<1>12. QED BY <1>6, <1>8, <1>10, <1>11 DEF r, pb

\* What was grouped up to the end of a sentence.
GroupedTo(s, W, e, lo, h, g) ==
  /\ s \in GroupState /\ lo \in Nat /\ h \in Nat /\ 1 <= lo /\ lo <= e /\ h <= e
  /\ s.buf = SubSeq(W, lo, e)
  /\ Partable(g, s.out) /\ GoodParts(AllParts(g, s.out), W, lo, h, g)

\* The parts are good when a group is closed.
LEMMA GroupIsClosed ==
  ASSUME NEW g \in AnyChunkable, NEW W, NEW c, NEW n, IsText(W, c, n, g), NEW i \in 1..n,
         NEW s, NEW lo, NEW h, GroupedTo(s, W, c[i], lo, h, g), NEW lo2, NextPlace(W, lo, c[i], lo2, g)
  PROVE  /\ Partable(g, Append(s.out, s.buf))
         /\ GoodParts(AllParts(g, Append(s.out, s.buf)), W, lo2, c[i], g)
<1> DEFINE hi == c[i]
           b == s.buf
           p == PartOf(g, Trimmed(b))
<1>1. /\ s \in GroupState /\ lo \in Nat /\ h \in Nat /\ 1 <= lo /\ lo <= hi /\ h <= hi
      /\ b = SubSeq(W, lo, hi)
      /\ Partable(g, s.out) /\ GoodParts(AllParts(g, s.out), W, lo, h, g)
  BY DEF GroupedTo
<1>2. hi \in Nat /\ hi <= Len(W) /\ W \in Seq(Char) /\ W[hi] # Gap
  <2>1. hi \in Nat /\ hi <= Len(W) /\ W \in Seq(Char)
    BY EndIs
  <2>2. W[hi] # Gap
    BY SentenceIsCut
  <2>3. QED BY <2>1, <2>2
<1> HIDE DEF hi, b
<1>3. PartsOf(p, W, lo, hi, g)
  BY <1>1, <1>2, GroupPartsAre
<1>4. b \in Seq(Char) /\ p \in Seq(Seq(Char))
  BY <1>1, <1>3 DEF GroupState, PartsOf, b
<1> HIDE DEF p
<1>5. Partable(g, Append(s.out, b)) /\ AllParts(g, Append(s.out, b)) = AllParts(g, s.out) \o p
  <2>1. Partable(g, s.out) /\ b \in Seq(Char) /\ PartOf(g, Trimmed(b)) \in Seq(Seq(Char))
    BY <1>1, <1>4 DEF p
  <2>2. QED BY <2>1, GroupIsAdded DEF p
<1>6. GoodParts(AllParts(g, s.out) \o p, W, lo2, hi, g)
  <2>1. NextPlace(W, lo, hi, lo2, g)
    BY DEF hi
  <2>2. QED BY <1>1, <1>2, <1>3, <2>1, PartsAreAdded
<1>7. QED BY <1>5, <1>6 DEF b, hi

\* Sentence after sentence the parts of the text are good ones.
LEMMA GroupsAreGood ==
  ASSUME NEW g \in AnyChunkable, NEW W, NEW c, NEW n, IsText(W, c, n, g), NEW f, Groups(f, g)
  PROVE  \E lo, h : GroupedTo(f[n], W, c[n], lo, h, g)
<1>1. n = Len(g.lengths) /\ n \in Nat \ {0}
  BY DEF IsText, EndsAt
<1>2. f \in [0..n -> GroupState] /\ f[0] = Empty /\ \A i \in 1..n : f[i] = GroupStep(g, f[i-1], i)
  BY <1>1 DEF Groups
<1> DEFINE D == {i \in 0..n : i = 0 \/ \E lo, h : GroupedTo(f[i], W, c[i], lo, h, g)}
<1>3. 0 \in D
  BY <1>1
<1>4. ASSUME NEW i \in 1..n, i - 1 \in D PROVE i \in D
  <2>1. i \in 0..n /\ i - 1 \in 0..n
    BY <1>1
  <2>2. f[i] \in GroupState /\ f[i-1] \in GroupState /\ f[i] = GroupStep(g, f[i-1], i)
    BY <1>2, <2>1
  <2>3. CASE i = 1
    <3> DEFINE r == GroupStep(g, Empty, 1)
    <3>1. f[i] = r
      BY <1>2, <2>2, <2>3
    <3>2. r.out = <<>> /\ 1 <= c[1] /\ r.buf = SubSeq(W, 1, c[1]) /\ c[1] \in Nat
      <4>1. c[i] \in Nat
        BY EndIs
      <4>2. QED BY <2>3, <4>1, FirstGroup
    <3>3. Partable(g, <<>>) /\ AllParts(g, <<>>) = <<>>
      <4>1. AllParts(g, <<>>) = FlattenSeq(<<>>)
        BY DEF AllParts
      <4>2. FlattenSeq(<<>>) = <<>>
        BY FlattenOfNone
      <4>3. Partable(g, <<>>)
        BY DEF Partable
      <4>4. QED BY <4>1, <4>2, <4>3
    <3>4. GoodParts(<<>>, W, 1, 0, g)
      <4>1. g.target \in Nat \ {0}
        BY BoundsAre
      <4>2. \A p \in 1..1-1 : FALSE
        OBVIOUS
      <4>3. Len(<<>>) = 0 /\ <<>> \in Seq(Seq(Char)) /\ \A k \in 1..0 : FALSE
        OBVIOUS
      <4>4. 0 <= 1 + g.target - 1
        BY <4>1
      <4>5. PartsInTurn(<<>>, W)
        BY <4>3 DEF PartsInTurn
      <4>6. QED BY <4>2, <4>3, <4>4, <4>5, Zenon DEF GoodParts
    <3> HIDE DEF r
    <3>5. 1 \in Nat /\ 0 \in Nat /\ 1 <= 1 /\ 0 <= c[1]
      BY <3>2
    <3>6. r \in GroupState
      BY <2>2, <3>1
    <3>7. GroupedTo(r, W, c[1], 1, 0, g)
      BY <3>2, <3>3, <3>4, <3>5, <3>6 DEF GroupedTo
    <3>8. QED BY <2>1, <2>3, <3>1, <3>7
  <2>4. CASE i # 1
    <3> DEFINE s == f[i-1]
               r == f[i]
               j == i - 1
               hi == c[j]
               e == c[i]
    <3>1. i \in 2..n /\ j \in 1..n /\ j # 0
      BY <1>1, <2>4
    <3>2. PICK lo, h : GroupedTo(s, W, hi, lo, h, g)
      BY <1>4, <3>1
    <3>3. lo \in Nat /\ h \in Nat /\ 1 <= lo /\ lo <= hi /\ h <= hi /\ s.buf = SubSeq(W, lo, hi)
          /\ Partable(g, s.out) /\ GoodParts(AllParts(g, s.out), W, lo, h, g)
      BY <3>2 DEF GroupedTo
    <3>4. PICK lo2 : Grows(s, GroupStep(g, s, i), W, lo, lo2, hi, e, g)
      <4>1. s \in GroupState /\ lo \in Nat /\ 1 <= lo /\ lo <= c[i-1] /\ s.buf = SubSeq(W, lo, c[i-1])
        BY <2>2, <3>3
      <4> HIDE DEF s
      <4>2. QED BY <3>1, <4>1, NextGroup
    <3>5. r = GroupStep(g, s, i) /\ r \in GroupState
      BY <2>2
    <3>6. hi \in Nat /\ e \in Nat /\ hi <= e
      <4>1. e = hi + 1 + g.lengths[i] /\ hi \in Nat /\ e \in Nat /\ g.lengths[i] \in Nat
        BY <3>1, EndIs
      <4>2. QED BY <4>1
    <3> HIDE DEF s, r, hi, e
    <3>7. r.buf = SubSeq(W, lo2, e) /\ lo2 \in Nat /\ 1 <= lo2 /\ lo2 <= e
      BY <3>4, <3>5 DEF Grows
    <3>8. CASE r.out = s.out /\ lo2 = lo
      <4>1. h <= e
        BY <3>3, <3>6
      <4>2. GroupedTo(r, W, e, lo2, h, g)
        BY <3>3, <3>5, <3>7, <3>8, <4>1 DEF GroupedTo
      <4>3. QED BY <2>1, <4>2 DEF r, e
    <3>9. CASE r.out = Append(s.out, s.buf) /\ NextPlace(W, lo, hi, lo2, g)
      <4>1. Partable(g, r.out) /\ GoodParts(AllParts(g, r.out), W, lo2, hi, g)
        <5>1. GroupedTo(s, W, c[j], lo, h, g) /\ NextPlace(W, lo, c[j], lo2, g) /\ j \in 1..n
          BY <3>1, <3>2, <3>9 DEF hi
        <5> HIDE DEF j
        <5>2. Partable(g, Append(s.out, s.buf)) /\ GoodParts(AllParts(g, Append(s.out, s.buf)), W, lo2, c[j], g)
          BY <5>1, GroupIsClosed
        <5>3. QED BY <3>9, <5>2 DEF hi
      <4>2. GroupedTo(r, W, e, lo2, hi, g)
        BY <3>5, <3>6, <3>7, <4>1 DEF GroupedTo
      <4>3. QED BY <2>1, <4>2 DEF r, e
    <3>10. QED BY <3>4, <3>5, <3>8, <3>9 DEF Grows
  <2>5. QED BY <2>3, <2>4
<1> HIDE DEF D
<1>5. n \in Nat
  BY <1>1
<1>6. 0..n \subseteq D
  BY <1>3, <1>4, <1>5, Induction
<1>7. n \in D /\ n # 0
  BY <1>1, <1>6
<1>8. QED BY <1>7 DEF D

\* The parts of the whole text are good ones.
LEMMA PartsAreGood ==
  ASSUME NEW g \in AnyChunkable, NEW W, NEW c, NEW n, IsText(W, c, n, g), W = WholeText(g)
  PROVE  GoodParts(ChunkParagraph(g), W, Len(W) + 1, Len(W), g)
<1>1. n \in Nat \ {0} /\ n \in 1..n /\ n = Len(g.lengths)
  BY DEF IsText, EndsAt
<1>2. W \in Seq(Char) /\ Len(W) = c[n] /\ Len(W) \in Nat
  <2>1. W \in Seq(Char) /\ Len(W) = c[n]
    BY <1>1, EndIs
  <2>2. QED BY <2>1
<1>3. c[n] >= 1 /\ W[c[n]] # Gap
  <2>1. c[n] \in 1..Len(W) /\ W[c[n]] # Gap
    BY <1>1, SentenceIsCut
  <2>2. QED BY <1>2, <2>1
<1>4. g.target \in Nat \ {0} /\ g.overlap \in Nat /\ Bound(g) \in Nat /\ g.target <= Bound(g)
  BY BoundsAre
<1>5. CASE Len(W) <= g.target
  <2> DEFINE a == <<W>>
             L == Len(W)
  <2>1. ChunkParagraph(g) = a
    BY <1>5, ChunksAre
  <2>2. a \in Seq(Seq(Char)) /\ Len(a) = 1 /\ a[1] = W /\ \A i \in 1..1 : i = 1
    BY <1>2
  <2>3. L <= Bound(g) /\ L \in Nat /\ L >= 1
    BY <1>2, <1>3, <1>4, <1>5
  <2>4. L + 1 - 1 = L /\ L <= (L + 1) + g.target - 1 /\ 1 <= L + 1
    BY <1>4, <2>3
  <2>5. \A p \in 1..L : W[p] \in Elements(W)
    BY <1>2 DEF Elements
  <2>6. Spans(W, W, 1, L)
    <3>1. \A x : x \in Elements(W) <=> \E p \in 1..L : W[p] = x
      BY <1>2 DEF Elements
    <3>2. QED BY <2>3, <3>1 DEF Spans
  <2> HIDE DEF a, L
  <2>7. UpToThere(W, W, L + 1, L)
    <3>1. L <= L
      BY <2>3
    <3>2. QED BY <2>4, <2>6, <3>1 DEF UpToThere
  <2>8. PartsInTurn(a, W)
    BY <2>2 DEF PartsInTurn
  <2>9. \A p \in 1..(L + 1) - 1 : W[p] = Gap \/ \E i \in 1..Len(a) : W[p] \in Elements(a[i])
    <3>1. 1 \in 1..Len(a) /\ \A p \in 1..L : W[p] \in Elements(a[1])
      BY <2>2, <2>5
    <3>2. \A p \in 1..(L + 1) - 1 : p \in 1..L
      BY <2>3
    <3>3. QED BY <3>1, <3>2
  <2>10. \A i \in 1..Len(a) : Len(a[i]) <= Bound(g) /\ UpToThere(a[i], W, L + 1, L)
    BY <2>2, <2>3, <2>7 DEF L
  <2>11. GoodParts(a, W, L + 1, L, g)
    BY <2>2, <2>4, <2>8, <2>9, <2>10 DEF GoodParts
  <2>12. QED BY <2>1, <2>11 DEF L
<1>6. CASE ~(Len(W) <= g.target)
  <2>1. PICK f : Groups(f, g)
    BY GroupsAreMade
  <2>2. PICK lo, h : GroupedTo(f[n], W, c[n], lo, h, g)
    BY <2>1, GroupsAreGood
  <2>3. Grouped(g) = f[n]
    BY <1>1, <2>1 DEF Groups
  <2>4. ChunkParagraph(g) = AllParts(g, Append(f[n].out, f[n].buf))
    BY <1>6, <2>3, ChunksAre
  <2> DEFINE lo2 == Len(W) + 1
  <2>5. NextPlace(W, lo, c[n], lo2, g)
    <3>1. lo \in Nat /\ lo <= c[n]
      BY <2>2 DEF GroupedTo
    <3> DEFINE hi == c[n]
               o == g.overlap
               t == g.target
    <3>2. hi \in Nat /\ lo2 = hi + 1
      BY <1>2
    <3> HIDE DEF hi, lo2, o, t
    <3>3. lo2 \in Nat /\ lo <= lo2 /\ lo2 <= hi + 2 /\ hi - o + 1 <= lo2 /\ lo2 # hi + 2 /\ hi <= lo2 + t - 1
      BY <1>4, <3>1, <3>2 DEF o, t, hi
    <3>4. QED BY <3>3 DEF NextPlace, hi, o, t
  <2>6. GoodParts(AllParts(g, Append(f[n].out, f[n].buf)), W, lo2, c[n], g)
    <3> HIDE DEF lo2
    <3>1. QED BY <1>1, <2>2, <2>5, GroupIsClosed
  <2>7. QED BY <1>2, <2>4, <2>6
<1>7. QED BY <1>5, <1>6

\* The parts of a paragraph hold every character of it, none is longer than the target
\* and the overlap, and unless the overlap is longer than the target they are in the
\* order of the text, whatever its sentences: ChunkParagraph keeps SoundChunks.
THEOREM ChunksAreSound ==
  ASSUME NEW g \in AnyChunkable
  PROVE  SoundChunks(g, ChunkParagraph(g))
<1> DEFINE a == ChunkParagraph(g)
           W == WholeText(g)
           L == Len(W)
<1>1. PICK c, n : IsText(W, c, n, g)
  BY TextOf
<1> HIDE DEF W
<1>2. GoodParts(a, W, L + 1, L, g)
  <2>1. W = WholeText(g)
    BY DEF W
  <2>2. QED BY <1>1, <2>1, PartsAreGood
<1>3. DOMAIN g.lengths = 1..n /\ n \in Nat /\ L \in Nat
  <2>1. n = Len(g.lengths) /\ n \in Nat \ {0} /\ W \in Seq(Char)
    BY <1>1 DEF IsText, EndsAt, TextIs
  <2>2. QED BY <2>1 DEF AnyChunkable
<1> HIDE DEF a
<1>4. /\ a \in Seq(Seq(Char))
      /\ \A i \in 1..Len(a) : Len(a[i]) <= Bound(g)
      /\ \A p \in 1..L + 1 - 1 : W[p] = Gap \/ \E i \in 1..Len(a) : W[p] \in Elements(a[i])
      /\ g.overlap <= g.target => PartsInTurn(a, W)
  BY <1>2 DEF GoodParts
<1>5. DOMAIN a = 1..Len(a) /\ 1..L + 1 - 1 = 1..L
  BY <1>3, <1>4
<1>6. ASSUME NEW i \in 1..n, NEW k \in 1..g.lengths[i]
      PROVE  \E m \in DOMAIN a : <<i, k>> \in Elements(a[m])
  <2> DEFINE e == c[i]
             l == g.lengths[i]
             p == e - l + k
  <2>1. W[p] = <<i, k>>
    BY <1>1 DEF IsText, TextIs
  <2>2. p \in 1..L
    <3>1. e \in 1..L /\ e - l + 1 \in Nat /\ 1 <= e - l + 1
      BY <1>1, SentenceIsCut
    <3>2. l \in Nat
      BY <1>1, EndIs
    <3>3. k \in 1..l
      OBVIOUS
    <3> HIDE DEF e, l, L
    <3>4. QED BY <1>3, <3>1, <3>2, <3>3
  <2>3. <<i, k>> # Gap
    BY DEF Gap
  <2>4. QED BY <1>4, <1>5, <2>1, <2>2, <2>3
<1>7. ASSUME NEW m \in DOMAIN a PROVE Len(a[m]) <= g.target + Max({g.overlap, 1})
  BY <1>4, <1>5 DEF Bound
<1>8. ASSUME g.overlap <= g.target, NEW m \in DOMAIN a, NEW r \in DOMAIN a, m < r,
             NEW i \in 1..n, NEW k \in 1..n, <<i, 1>> \in Elements(a[r]), <<k, 1>> \in Elements(a[m]), i < k
      PROVE  <<i, 1>> \in Elements(a[m]) /\ <<k, 1>> \in Elements(a[r])
  <2> DEFINE x == a[m]
             y == a[r]
  <2>1. InFront(x, y, W)
    BY <1>4, <1>5, <1>8 DEF PartsInTurn
  <2>2. <<i, 1>> # Gap /\ <<k, 1>> # Gap /\ <<i, 1>>[1] = i /\ <<k, 1>>[1] = k
    BY DEF Gap
  <2>3. <<i, 1>> \in Elements(y) /\ <<k, 1>> \in Elements(x)
    BY <1>8
  <2> HIDE DEF x, y
  <2>4. PICK l, h, u, v : Spans(x, W, l, h) /\ Spans(y, W, u, v) /\ l <= u /\ h <= v
    BY <2>1 DEF InFront
  <2>5. l \in Nat /\ h \in Nat /\ u \in Nat /\ v \in Nat /\ 1 <= l /\ h <= L /\ 1 <= u /\ v <= L
    BY <2>4 DEF Spans
  <2>6. PICK p \in u..v : W[p] = <<i, 1>>
    BY <2>2, <2>3, <2>4 DEF Spans
  <2>7. PICK q \in l..h : W[q] = <<k, 1>>
    BY <2>2, <2>3, <2>4 DEF Spans
  <2>8. p \in 1..L /\ q \in 1..L
    BY <1>3, <2>5
  <2>9. p < q
    <3>1. p \in 1..Len(W) /\ q \in 1..Len(W) /\ W[p][1] = i /\ W[q][1] = k /\ W[p] # Gap /\ W[q] # Gap
      BY <2>2, <2>6, <2>7, <2>8
    <3>2. QED BY <1>1, <1>8, <3>1, TextInTurn
  <2>10. p \in l..h /\ q \in u..v
    BY <2>4, <2>5, <2>9
  <2>11. <<i, 1>> \in Elements(x) /\ <<k, 1>> \in Elements(y)
    BY <2>2, <2>4, <2>6, <2>7, <2>10 DEF Spans
  <2>12. QED BY <2>11 DEF x, y
<1>9. ASSUME g.overlap <= g.target, NEW m \in DOMAIN a, NEW r \in DOMAIN a, m < r,
             NEW i \in DOMAIN g.lengths, NEW k \in DOMAIN g.lengths,
             <<i, 1>> \in Elements(a[r]), <<k, 1>> \in Elements(a[m])
      PROVE  k <= i \/ (<<i, 1>> \in Elements(a[m]) /\ <<k, 1>> \in Elements(a[r]))
  <2>1. i \in 1..n /\ k \in 1..n /\ (k <= i \/ i < k)
    BY <1>3
  <2>2. QED BY <1>8, <1>9, <2>1
<1>10. SoundChunks(g, a)
  BY <1>3, <1>6, <1>7, <1>9, Zenon DEF SoundChunks
<1>11. QED BY <1>10 DEF a

-----------------------------------------------------------------------------
\* What the runs give is among all that the theorems above are about.
LEMMA UpToIsSeq ==
  ASSUME NEW T, NEW S \in SUBSET T, NEW n \in Nat
  PROVE  UpTo(S, n) \subseteq Seq(T)
<1> SUFFICES ASSUME NEW s \in UpTo(S, n) PROVE s \in Seq(T)
  OBVIOUS
<1>1. PICK k \in 0..n : s \in [1..k -> S]
  BY DEF UpTo
<1>2. k \in Nat /\ s \in [1..k -> T]
  BY <1>1
<1>3. QED BY <1>2

\* recommend: no two models of the catalogue have one id.
LEMMA RecommendableIsGiven ==
  ASSUME NEW g \in Recommendable
  PROVE  SoundRecommendation(g, Recommend(g))
<1> DEFINE C == {"agent", "coding", "slm", "roleplay"}
           P == {"chat", "retrieval"}
           M == {"stable", "beta", "experimental", "deprecated"}
<1>1. \A e \in Catalogue : e \in AnyModel(C, P, M)
  <2> DEFINE A == AnyModel(C, P, M)
  <2>1. /\ Model(1, "agent", "chat", "stable", 7, <<4000, 8000>>, <<8000, 16000>>, 4000, "verified") \in A
        /\ Model(2, "agent", "chat", "stable", 7, <<4000, 8000>>, <<8000, 16000>>, 4000, "verified") \in A
        /\ Model(3, "coding", "chat", "beta", 3, <<Nil, 6000>>, <<8000, 8000>>, 6000, "community") \in A
        /\ Model(4, "slm", "chat", "stable", 5, <<Nil, Nil>>, <<4000, 8000>>, 1000, "community") \in A
        /\ Model(5, "roleplay", "chat", "experimental", 9, <<12000, 16000>>, <<32000, 32000>>, 15000, "verified") \in A
        /\ Model(6, "agent", "retrieval", "stable", 9, <<Nil, Nil>>, <<1000, 1000>>, 500, "verified") \in A
        /\ Model(7, "agent", "chat", "deprecated", 9, <<Nil, Nil>>, <<1000, 1000>>, 500, "verified") \in A
    BY SMTT(30) DEF Model, AnyModel, Nil
  <2> HIDE DEF A
  <2>2. \A e \in Catalogue : e \in A
    BY <2>1, SMT DEF Catalogue
  <2>3. QED BY <2>2 DEF A
<1>2. \A d, e \in Catalogue : d.id = e.id => d = e
  BY DEF Catalogue, Model
<1> HIDE DEF C, P, M
<1>3. /\ g = [entries |-> g.entries, host |-> g.host, target |-> g.target, intent |-> g.intent]
      /\ g.entries \in UpTo(Catalogue, 3) /\ IsInjective(g.entries)
      /\ g.host \in Hosts /\ g.target \in {"agent", "coding"} /\ g.intent \in BOOLEAN
  BY DEF Recommendable
<1>4. g.entries \in Seq(Catalogue) /\ g.entries \in Seq(AnyModel(C, P, M))
  BY <1>1, <1>3, UpToIsSeq
<1>5. Different(g.entries)
  <2>1. DOMAIN g.entries = 1..Len(g.entries) /\ \A i \in 1..Len(g.entries) : g.entries[i] \in Catalogue
    BY <1>4
  <2>2. QED BY <1>2, <1>3, <2>1 DEF Different, IsInjective
<1>6. g.host \in AnyHost
  BY <1>3 DEF Hosts, AnyHost, Nil
<1>7. g.target \in C
  BY <1>3 DEF C
<1>8. g \in AnyRecommendable(C, P, M)
  BY <1>3, <1>4, <1>5, <1>6, <1>7 DEF AnyRecommendable
<1>9. QED BY <1>8, RecommendationIsSound

\* detect: the rules of four kinds.
LEMMA DetectableIsGiven ==
  ASSUME NEW g \in Detectable
  PROVE  SoundDetection(g, Detect_(g))
<1> DEFINE How == {"http.get", "registry.read", "shell.which", "fs.exists"}
           On == {"any", "windows"}
<1>1. DetectRules \subseteq AnyRule(How, On)
  BY DEF DetectRules, AnyRule, Version, Versions, Nil
<1> HIDE DEF How, On
<1>2. UpTo(DetectRules, 2) \subseteq Seq(AnyRule(How, On))
  BY <1>1, UpToIsSeq
<1>3. g \in [rules : Seq(AnyRule(How, On)), platform : {"windows", "linux"}]
  BY <1>2 DEF Detectable
<1>4. QED BY <1>3, DetectionIsSound

\* gpus: cards at four places.
LEMMA ProbeableIsGiven ==
  ASSUME NEW g \in Probeable
  PROVE  SoundProbe(g, Probe_(g))
<1> DEFINE B == {"a", "b", "c", "d"}
           V == {"nvidia", "amd", "intel"}
<1>1. \A c \in Cards : c \in AnyCard(B, V)
  BY DEF Cards, Card, AnyCard
<1>2. \A c, d \in Cards : c.pci = d.pci => c = d
  BY DEF Cards, Card
<1>3. "none" \notin B
  OBVIOUS
<1> HIDE DEF B, V
<1>4. g.cards \in UpTo(Cards, 3)
  BY DEF Probeable
<1>5. g.cards \in Seq(Cards) /\ g.cards \in Seq(AnyCard(B, V))
  BY <1>1, <1>4, UpToIsSeq
<1>6. Apart(g.cards)
  BY <1>2, <1>5 DEF Apart
<1>7. g \in AnyProbeable(B, V)
  BY <1>5, <1>6 DEF Probeable, AnyProbeable
<1>8. QED BY <1>3, <1>7, GpusAreSound

\* checks: one card or two.
LEMMA CheckableIsGiven ==
  ASSUME NEW g \in Checkable
  PROVE  SoundChecks(g, Check(g))
<1> DEFINE B == {"x", "y"}
           V == {"nvidia", "apple", "amd"}
           R == {"running", "error"}
           x == Card("x", "nvidia", 6)
           y == Card("y", "amd", 8)
<1>1. Gpus \subseteq AnyCard(B, V)
  BY DEF Gpus, Card, AnyCard
<1>2. x \in AnyCard(B, V) /\ y \in AnyCard(B, V)
  BY DEF Card, AnyCard
<1>3. g.gpus \in UpTo(Gpus, 1) \/ g.gpus = <<x, y>> \/ g.gpus = <<y, x>>
  BY DEF Checkable
<1> HIDE DEF B, V, x, y
<1>4. g.gpus \in Seq(AnyCard(B, V))
  <2>1. UpTo(Gpus, 1) \subseteq Seq(AnyCard(B, V))
    BY <1>1, UpToIsSeq
  <2>2. <<x, y>> \in Seq(AnyCard(B, V)) /\ <<y, x>> \in Seq(AnyCard(B, V))
    BY <1>2
  <2>3. QED BY <1>3, <2>1, <2>2
<1>5. /\ g = [windows |-> g.windows, ram |-> g.ram, free |-> g.free, gpus |-> g.gpus,
              driver |-> g.driver, webview2 |-> g.webview2, vcredist |-> g.vcredist,
              cuda |-> g.cuda, vulkan |-> g.vulkan, runtime |-> g.runtime]
      /\ g.windows \in BOOLEAN /\ g.ram \in Nat /\ g.free \in Nat \cup {Nil}
      /\ g.driver \in Nat \cup {Nil} /\ g.webview2 \in BOOLEAN /\ g.vcredist \in BOOLEAN
      /\ g.cuda \in BOOLEAN /\ g.vulkan \in BOOLEAN /\ g.runtime \in R
  BY DEF Checkable, Nil
<1> HIDE DEF R
<1>6. g \in AnyCheckable(B, V, R)
  BY <1>4, <1>5, Zenon DEF AnyCheckable
<1>7. QED BY <1>6, ChecksAreSound

\* summary: the model that was chosen is one of the cascade.
LEMMA SummableIsGiven ==
  ASSUME NEW g \in Summable
  PROVE  SoundSummary(g, Summarise(g))
<1>1. "qwen" = Cascade[2] /\ 2 \in DOMAIN Cascade
  BY DEF Cascade
<1>2. g.chosen \in {"none"} \cup Elements(Cascade)
  BY <1>1 DEF Summable, Elements
<1>3. QED BY <1>2, SummaryIsSound

\* trending: the rows of the board are of different models.
LEMMA RankableIsGiven ==
  ASSUME NEW g \in Rankable
  PROVE  SoundRanking(g, RankCandidates(g))
<1> DEFINE A == {"x", "y"}
           N == {"m", "n"}
<1>1. \A r \in Board : r \in AnyRow(A, N)
  BY DEF Board, Row, AnyRow
<1>2. \A r, q \in Board : r.author = q.author /\ r.name = q.name => r = q
  BY DEF Board, Row
<1> HIDE DEF A, N
<1>3. /\ g.models \in UpTo(Hub, 3) /\ IsInjective(g.models)
      /\ g.rows \in UpTo(Board, 3) /\ IsInjective(g.rows)
      /\ g.downloads \in Nat /\ g.korean \in Nat /\ g.gguf \in BOOLEAN
  BY DEF Rankable
<1>4. g.models \in Seq(Hub) /\ g.rows \in Seq(Board) /\ g.rows \in Seq(AnyRow(A, N))
  BY <1>1, <1>3, UpToIsSeq
<1>5. \A i, j \in DOMAIN g.rows : g.rows[i].author = g.rows[j].author /\ g.rows[i].name = g.rows[j].name => i = j
  <2>1. \A i \in DOMAIN g.rows : g.rows[i] \in Board
    BY <1>4
  <2>2. QED BY <1>2, <1>3, <2>1 DEF IsInjective
<1>6. g = [models |-> g.models, downloads |-> g.downloads, rows |-> g.rows, gguf |-> g.gguf, korean |-> g.korean]
  BY DEF Rankable
<1>7. g \in AnyRankable(A, N)
  BY <1>3, <1>4, <1>5, <1>6 DEF AnyRankable
<1>8. QED BY <1>7, RankingIsSound

\* The other computations of the desktop.
LEMMA ComputableIsGiven ==
  /\ \A g \in Importable : SoundImport(g, ParseLine(g))
  /\ \A g \in Evaluable : SoundSuite(g, RunSuite(g))
  /\ \A g \in Retainable : SoundCleanup(g, Cleanup(g))
  /\ \A g \in Packable : SoundPlan(g, Pack(g))
  /\ \A g \in Chunkable : SoundChunks(g, ChunkParagraph(g))
  /\ \A g \in Samplable : SoundSample(g, Sample(g))
<1>1. ASSUME NEW g \in Importable PROVE SoundImport(g, ParseLine(g))
  <2> DEFINE R == {"human", "assistant", "function", "narrator", "missing"}
  <2>1. UpTo(Said, 2) \subseteq Seq([role : R, text : BOOLEAN])
    <3>1. Said \subseteq [role : R, text : BOOLEAN]
      BY DEF Said
    <3> HIDE DEF R
    <3>2. QED BY <3>1, UpToIsSeq
  <2>2. g.list \in Seq([role : R, text : BOOLEAN])
    BY <2>1 DEF Importable
  <2> HIDE DEF R
  <2>3. QED BY <2>2, ImportIsSound
<1>2. ASSUME NEW g \in Evaluable PROVE SoundSuite(g, RunSuite(g))
  <2>1. g.cases \in Seq(Case)
    BY UpToIsSeq DEF Evaluable
  <2>2. QED BY <2>1, SuiteIsSound
<1>3. ASSUME NEW g \in Retainable PROVE SoundCleanup(g, Cleanup(g))
  <2>1. UpTo(Dirs, 3) \subseteq Seq(AnyDir)
    <3>1. Dirs \subseteq AnyDir
      BY DEF Dirs, AnyDir
    <3>2. QED BY <3>1, UpToIsSeq
  <2>2. g \in AnyRetainable
    BY <2>1 DEF Retainable, AnyRetainable
  <2>3. QED BY <2>2, CleanupIsSound
<1>4. ASSUME NEW g \in Packable PROVE SoundPlan(g, Pack(g))
  <2>1. UpTo({1, 3, 5, 9}, 4) \subseteq Seq(Nat)
    BY UpToIsSeq
  <2>2. g.tokens \in Seq(Nat) /\ g.limit \in Nat
    BY <2>1 DEF Packable
  <2>3. QED BY <2>2, PlanIsSound
<1>5. ASSUME NEW g \in Chunkable PROVE SoundChunks(g, ChunkParagraph(g))
  <2>1. UpTo({1, 2, 4, 9}, 3) \subseteq Seq(Nat \ {0})
    BY UpToIsSeq
  <2>2. g \in AnyChunkable
    BY <2>1 DEF Chunkable, AnyChunkable
  <2>3. QED BY <2>2, ChunksAreSound
<1>6. ASSUME NEW g \in Samplable PROVE SoundSample(g, Sample(g))
  <2>1. UpTo(Persona, 2) \subseteq Seq(Persona)
    BY UpToIsSeq
  <2>2. /\ g = [people |-> g.people, sex |-> g.sex, min |-> g.min, max |-> g.max,
                any |-> g.any, size |-> g.size, shuffled |-> g.shuffled]
    BY DEF Samplable
  <2>0. /\ g.people \in UpTo(Persona, 2) /\ g.sex \in {"any", "m"} /\ g.min \in Int
        /\ g.max \in Int /\ g.any \in SUBSET {"u", ""} /\ g.size \in Nat /\ g.shuffled \in BOOLEAN
    <3> DEFINE A == SUBSET {"u", ""}
               U == UpTo(Persona, 2)
    <3>1. Samplable = [people : U, sex : {"any", "m"}, min : {-1, 20}, max : {-1, 30},
                       any : A, size : 0..2, shuffled : BOOLEAN]
      BY DEF Samplable, Nil
    <3> HIDE DEF A, U
    <3>2. /\ g.people \in U /\ g.sex \in {"any", "m"} /\ g.min \in {-1, 20}
          /\ g.max \in {-1, 30} /\ g.any \in A /\ g.size \in 0..2 /\ g.shuffled \in BOOLEAN
      BY <3>1
    <3>3. g.min \in Int /\ g.max \in Int /\ g.size \in Nat
      BY <3>2
    <3>4. QED BY <3>2, <3>3, Zenon DEF A, U
  <2>3. g.people \in Seq(Persona)
    BY <2>1, <2>0
  <2>4. g \in [people : Seq(Persona), sex : {"any", "m"}, min : Int, max : Int,
               any : SUBSET {"u", ""}, size : Nat, shuffled : BOOLEAN]
    BY <2>0, <2>2, <2>3, Zenon
  <2>5. QED BY <2>4, SampleIsSound
<1>7. QED BY <1>1, <1>2, <1>3, <1>4, <1>5, <1>6

-----------------------------------------------------------------------------
\* A stream of whole lines ends its lines one way.
LEMMA StreamEndsOneWay ==
  ASSUME NEW t \in Seq({"d", "k", "end"}), NEW c \in BOOLEAN
  PROVE  StreamOf(t, c) \in Seq(Data \cup {"r", "n"}) /\ OneWay(StreamOf(t, c))
<1> DEFINE X == Data \cup {"r", "n"}
           n == Len(t)
           parts == [i \in DOMAIN t |-> Coded(t[i], c)]
           end == IF c THEN <<"r", "n">> ELSE <<"n">>
<1>1. n \in Nat /\ DOMAIN t = 1..n /\ StreamOf(t, c) = FlattenSeq(parts)
  BY DEF StreamOf
<1>2. \A i \in 1..n : parts[i] = <<"d">> \/ parts[i] = <<"h", "t">> \/ parts[i] = end
  BY <1>1 DEF Coded
<1> HIDE DEF parts
<1>3. CASE ~c
  <2> DEFINE Y == Data \cup {"n"}
  <2>1. <<"d">> \in Seq(Y) /\ <<"h", "t">> \in Seq(Y) /\ end \in Seq(Y)
    BY <1>3 DEF Data
  <2>2. "r" \notin Y /\ Y \subseteq X
    BY DEF Data
  <2> HIDE DEF Y, X, end
  <2>3. parts \in Seq(Seq(Y))
    <3>1. parts \in [1..n -> Seq(Y)]
      BY <1>1, <1>2, <2>1 DEF parts
    <3>2. QED BY <1>1, <3>1
  <2>4. FlattenSeq(parts) \in Seq(Y)
    BY <2>3, FlattenStepwise
  <2>5. QED BY <1>1, <2>2, <2>4 DEF OneWay, X
<1>4. CASE c
  <2> DEFINE paired(s) == \A i \in 1..Len(s) : /\ s[i] = "n" => i > 1 /\ s[i-1] = "r"
                                               /\ s[i] = "r" => i < Len(s) /\ s[i+1] = "n"
  <2>1. /\ <<"d">> \in Seq(X) /\ <<"h", "t">> \in Seq(X) /\ end \in Seq(X)
        /\ paired(<<"d">>) /\ paired(<<"h", "t">>) /\ paired(end)
    <3>1. end = <<"r", "n">>
      BY <1>4
    <3>2. /\ <<"d">> \in Seq(X) /\ <<"h", "t">> \in Seq(X) /\ <<"r", "n">> \in Seq(X)
      BY DEF Data
    <3>3. paired(<<"d">>) /\ paired(<<"h", "t">>) /\ paired(<<"r", "n">>)
      OBVIOUS
    <3>4. QED BY <3>1, <3>2, <3>3
  <2> HIDE DEF X, end
  <2>2. parts \in Seq(Seq(X)) /\ Len(parts) = n /\ \A i \in 1..n : paired(parts[i]) /\ parts[i] \in Seq(X)
    <3>1. \A i \in 1..n : paired(parts[i]) /\ parts[i] \in Seq(X)
      <4> HIDE DEF paired
      <4>1. QED BY <1>2, <2>1
    <3>2. parts = [i \in 1..n |-> parts[i]]
      BY <1>1 DEF parts
    <3> HIDE DEF paired
    <3>3. QED BY <1>1, <3>1, <3>2
  <2>3. PICK f : f \in [0..n -> Seq(X)] /\ Joins(f, parts) /\ FlattenSeq(parts) = f[n]
    BY <2>2, FlattenStepwise
  <2> DEFINE D == {k \in 0..n : paired(f[k])}
  <2>4. 0 \in D
    BY <1>1, <2>3 DEF Joins
  <2>5. ASSUME NEW k \in 1..n, k - 1 \in D PROVE k \in D
    <3> DEFINE s == f[k-1]
               p == parts[k]
               m == Len(s)
               q == s \o p
    <3>1. k \in 0..n /\ k - 1 \in 0..n /\ s \in Seq(X) /\ m \in Nat /\ paired(s)
      BY <1>1, <2>3, <2>5
    <3>2. f[k] = q
      BY <2>2, <2>3 DEF Joins
    <3>3. p \in Seq(X) /\ paired(p) /\ Len(p) \in Nat
      BY <2>2
    <3> HIDE DEF s, p
    <3>4. /\ Len(q) = m + Len(p) /\ (\A i \in 1..m : q[i] = s[i])
          /\ \A i \in 1..Len(p) : q[m + i] = p[i]
      BY <3>1, <3>3, ConcatIs
    <3> HIDE DEF q
    <3>5. ASSUME NEW i \in 1..Len(q)
          PROVE  /\ q[i] = "n" => i > 1 /\ q[i-1] = "r"
                 /\ q[i] = "r" => i < Len(q) /\ q[i+1] = "n"
      <4>1. CASE i \in 1..m
        <5>1. /\ s[i] = "n" => i > 1 /\ s[i-1] = "r"
              /\ s[i] = "r" => i < m /\ s[i+1] = "n"
          BY <3>1, <4>1
        <5>2. i \in Int /\ (i > 1 => i - 1 \in 1..m) /\ (i < m => i + 1 \in 1..m)
          BY <3>1, <4>1
        <5>3. q[i] = s[i] /\ (i > 1 => q[i-1] = s[i-1]) /\ (i < m => q[i+1] = s[i+1])
          BY <3>4, <4>1, <5>2
        <5>4. QED BY <3>1, <3>3, <3>4, <4>1, <5>1, <5>3
      <4>2. CASE i \notin 1..m
        <5> DEFINE j == i - m
        <5>1. j \in 1..Len(p) /\ i = m + j
          BY <3>1, <3>3, <3>4, <4>2
        <5> HIDE DEF j
        <5>2. /\ p[j] = "n" => j > 1 /\ p[j-1] = "r"
              /\ p[j] = "r" => j < Len(p) /\ p[j+1] = "n"
          BY <3>3, <5>1
        <5>3. /\ j > 1 => j - 1 \in 1..Len(p) /\ i - 1 = m + (j - 1)
              /\ j < Len(p) => j + 1 \in 1..Len(p) /\ i + 1 = m + (j + 1)
          BY <3>1, <3>3, <5>1
        <5>4. q[i] = p[j] /\ (j > 1 => q[i-1] = p[j-1]) /\ (j < Len(p) => q[i+1] = p[j+1])
          BY <3>4, <5>1, <5>3
        <5>5. (j > 1 => i > 1) /\ (j < Len(p) => i < Len(q))
          BY <3>1, <3>3, <3>4, <5>1
        <5>6. QED BY <5>2, <5>4, <5>5
      <4>3. QED BY <4>1, <4>2
    <3>6. QED BY <3>1, <3>2, <3>5
  <2> HIDE DEF D
  <2>6. 0..n \subseteq D
    BY <1>1, <2>4, <2>5, Induction
  <2>7. paired(f[n]) /\ f[n] \in Seq(X)
    BY <1>1, <2>3, <2>6 DEF D
  <2>8. QED BY <1>1, <2>3, <2>7 DEF OneWay, X
<1>5. QED BY <1>3, <1>4

\* frames: every stream that is given, cut within.
LEMMA CuttableIsGiven ==
  ASSUME NEW g \in Cuttable
  PROVE  SoundFrames(g, ParseStream(g))
<1>1. PICK s \in Streams : g \in [stream : {s}, cuts : SUBSET (1..Len(s) - 1)]
  BY DEF Cuttable
<1>2. PICK t \in UpTo({"d", "k", "end"}, 4), c \in BOOLEAN : s = StreamOf(t, c)
  BY <1>1 DEF Streams
<1>3. t \in Seq({"d", "k", "end"})
  BY UpToIsSeq
<1>4. s \in Seq(Data \cup {"r", "n"}) /\ OneWay(s)
  BY <1>2, <1>3, StreamEndsOneWay
<1>5. /\ g = [stream |-> g.stream, cuts |-> g.cuts]
      /\ g.stream = s /\ g.cuts \subseteq 1..Len(s) - 1
  BY <1>1
<1>6. g.cuts \subseteq Nat
  BY <1>4, <1>5
<1>7. g \in AnyCuttable(Data \cup {"r", "n"})
  BY <1>4, <1>5, <1>6 DEF AnyCuttable
<1>8. QED BY <1>7, FramesAreSound

\* The small rules, but for the crash reports.
LEMMA RulesAreGiven ==
  /\ \A g \in ModelAnswers : SoundSections(g, Sections(g))
  /\ \A g \in Releasable : SoundRelease(g, LatestVersion(g))
  /\ \A g \in Quotable : SoundQuota(g, Quota(g))
  /\ \A g \in Searchable : SoundHub(g, SearchAndRegister(g))
  /\ \A g \in Fileable : SoundFiles(g, ListLocal(g))
  /\ \A g \in Tokenable : SoundTokens(g, UseTokens(g))
  /\ \A g \in UpTo(Endpoints, 2) : SoundRemote(g, ListRemote(g))
  /\ \A g \in Historical : SoundHistory(g, History(g))
<1>1. ASSUME NEW g \in ModelAnswers PROVE SoundSections(g, Sections(g))
  <2> DEFINE L == Headers \cup {"text", ""}
  <2> HIDE DEF L
  <2>1. g \in Seq(L)
    BY UpToIsSeq DEF ModelAnswers, L
  <2>2. QED BY <2>1, SectionsAreSound
<1>2. ASSUME NEW g \in Releasable PROVE SoundRelease(g, LatestVersion(g))
  <2>1. Tags \subseteq AnyTag /\ [v |-> "text"] \in AnyTag
    <3>1. ASSUME NEW t \in Tags
          PROVE  t \in [v : {"", "v", "V"}, number : Nat, pre : Nat, build : Nat]
      <4>1. /\ t = [v |-> t.v, number |-> t.number, pre |-> t.pre, build |-> t.build]
            /\ t.v \in {"", "v", "V"}
        BY Zenon DEF Tags
      <4>2. t.number \in Nat /\ t.pre \in Nat /\ t.build \in Nat
        <5>1. t.number \in {1, 2} /\ t.pre \in {1, 2, 9} /\ t.build \in {0, 1}
          BY Zenon DEF Tags
        <5> DEFINE i == t.number
                   j == t.pre
                   k == t.build
        <5> HIDE DEF i, j, k
        <5>2. i \in {1, 2} /\ j \in {1, 2, 9} /\ k \in {0, 1}
          BY <5>1 DEF i, j, k
        <5>3. i \in Nat /\ j \in Nat /\ k \in Nat
          BY <5>2
        <5>4. QED BY <5>3 DEF i, j, k
      <4>3. QED BY <4>1, <4>2, Zenon
    <3>2. QED BY <3>1, Zenon DEF AnyTag
  <2>2. /\ g = [status |-> g.status, body |-> g.body, tag |-> g.tag, current |-> g.current]
        /\ g.status \in {"ok", "404", "500", "lost"} /\ g.body \in {"release", "no tag", "no json"}
        /\ g.tag \in Tags \cup {[v |-> "text"]} /\ g.current \in Tags \cup {[v |-> "text"]}
    BY DEF Releasable
  <2>3. g \in [status : {"ok", "404", "500", "lost"}, body : {"release", "no tag", "no json"},
               tag : AnyTag, current : AnyTag]
    BY <2>1, <2>2, Zenon
  <2>4. QED BY <2>3, ReleaseIsSound
<1>3. ASSUME NEW g \in Quotable PROVE SoundQuota(g, Quota(g))
  <2>1. Messages \subseteq AnyMessage
    BY DEF Messages, AnyMessage
  <2>2. UpTo(Messages, 3) \subseteq Seq(AnyMessage)
    BY <2>1, UpToIsSeq
  <2>3. g \in AnyQuotable
    BY <2>2 DEF Quotable, AnyQuotable, Nil
  <2>4. QED BY <2>3, QuotaIsSound
<1>4. ASSUME NEW g \in Searchable PROVE SoundHub(g, SearchAndRegister(g))
  <2> DEFINE W == {"a", "b", "c", "-", "/"}
             P == {"yes", "no", "unsaid"}
             S == {"ok", "500", "lost", "no json"}
  <2>1. HubRepos \subseteq Seq(W)
    BY DEF HubRepos
  <2>2. g.blank \in BOOLEAN /\ g.status \in S /\ g.hits \in UpTo(Hits, 3)
    BY DEF Searchable
  <2>3. Hits \subseteq [repo : Seq(W), private : P]
    <3> HIDE DEF W
    <3>1. QED BY <2>1 DEF Hits
  <2> HIDE DEF W, P, S
  <2>4. g.hits \in Seq([repo : Seq(W), private : P])
    BY <2>2, <2>3, UpToIsSeq
  <2>5. g = [blank |-> g.blank, status |-> g.status, hits |-> g.hits]
    BY DEF Searchable
  <2>6. g \in [blank : BOOLEAN, status : S, hits : Seq([repo : Seq(W), private : P])]
    BY <2>2, <2>4, <2>5, Zenon
  <2>7. QED BY <2>6, HubIsSound
<1>5. ASSUME NEW g \in Fileable PROVE SoundFiles(g, ListLocal(g))
  <2> DEFINE N == {"dir", "x", ""}
  <2>1. EntryPaths \subseteq Seq(N)
    BY DEF EntryPaths
  <2> HIDE DEF N
  <2>2. FileEntry \subseteq AnyFileEntry(N)
    BY <2>1 DEF FileEntry, AnyFileEntry
  <2>3. g.dir \in BOOLEAN /\ g.entries \in UpTo(FileEntry, 2)
    BY DEF Fileable
  <2>4. g.entries \in Seq(AnyFileEntry(N))
    BY <2>2, <2>3, UpToIsSeq
  <2>5. QED BY <2>3, <2>4, FilesAreSound
<1>6. ASSUME NEW g \in Tokenable PROVE SoundTokens(g, UseTokens(g))
  <2> DEFINE K == {"file", "directory", "other"}
  <2>1. TokenSteps \subseteq AnyTokenStep(K)
    BY DEF TokenSteps, AnyTokenStep
  <2> HIDE DEF K
  <2>2. g \in Seq(AnyTokenStep(K))
    BY <2>1, UpToIsSeq DEF Tokenable
  <2>3. QED BY <2>2, TokensAreSound
<1>7. ASSUME NEW g \in UpTo(Endpoints, 2) PROVE SoundRemote(g, ListRemote(g))
  <2> DEFINE A == {"ok", "refused", "500", "lost", "no json"}
             N == {"m", "::", "n"}
  <2>1. RemoteModels \subseteq Seq(N)
    BY DEF RemoteModels
  <2> HIDE DEF N
  <2>2. UpTo(RemoteModels, 2) \subseteq Seq(Seq(N))
    BY <2>1, UpToIsSeq
  <2>3. Endpoints \subseteq AnyEndpoint(A, N)
    BY <2>2 DEF Endpoints, AnyEndpoint
  <2> HIDE DEF A
  <2>4. g \in Seq(AnyEndpoint(A, N))
    BY <2>3, UpToIsSeq
  <2>5. QED BY <2>4, RemoteIsSound
<1>8. ASSUME NEW g \in Historical PROVE SoundHistory(g, History(g))
  <2>1. g.writes \in UpTo(Writes, 4) /\ g.limit \in Nat
    <3>1. Historical = [writes : UpTo(Writes, 4), limit : {0, 1, 2, 10}]
      BY DEF Historical, Writes
    <3>2. QED BY <3>1
  <2>2. g.writes \in Seq(Writes)
    BY <2>1, UpToIsSeq
  <2>3. QED BY <2>1, <2>2, HistoryIsSound
<1>9. QED BY <1>1, <1>2, <1>3, <1>4, <1>5, <1>6, <1>7, <1>8

-----------------------------------------------------------------------------
\* presets: the two folders hold presets or files that cannot be read.
LEMMA PresetableIsGiven ==
  ASSUME NEW g \in Presetable
  PROVE  SoundPresets(g, GetPresets(g))
<1> DEFINE C == {"coding", "legal"}
           D == {"missing", "gone", "here"}
           A == AnyPreset(C)
<1>1. Preset \subseteq A
  <2>1. ASSUME NEW i \in 1..2, NEW c \in C, NEW p \in BOOLEAN, NEW d \in BOOLEAN
        PROVE  [id |-> i, cat |-> c, prefix |-> p, disclaimer |-> d] \in A
    <3>1. i \in Nat \ {0}
      OBVIOUS
    <3> HIDE DEF C
    <3>2. QED BY <3>1 DEF AnyPreset, GoodPreset
  <2>2. [id |-> 0] \in A
    BY DEF AnyPreset
  <2> HIDE DEF A
  <2>3. QED BY <2>1, <2>2 DEF Preset
<1> HIDE DEF A
<1>2. UpTo(Preset, 2) \subseteq Seq(A) /\ UpTo(Preset, 1) \subseteq Seq(A)
  BY <1>1, UpToIsSeq
<1>3. \A d \in D : \A f \in Seq(A) : Folder(d, f) \in AnyFolder(C)
  BY DEF Folder, AnyFolder, A
<1>4. /\ g = [first |-> g.first, second |-> g.second, category |-> g.category]
      /\ g.category \in {"any", "legal"}
      /\ \/ g.first = Folder("missing", <<>>) \/ g.first = Folder("gone", <<>>)
         \/ \E f \in UpTo(Preset, 2) : g.first = Folder("here", f)
      /\ \E f \in UpTo(Preset, 1) : g.second = Folder("here", f)
  BY DEF Presetable
<1>5. <<>> \in Seq(A) /\ "missing" \in D /\ "gone" \in D /\ "here" \in D /\ g.category \in C \cup {"any"}
  BY <1>4
<1> HIDE DEF C, D
<1>6. g.first \in AnyFolder(C) /\ g.second \in AnyFolder(C)
  BY <1>2, <1>3, <1>4, <1>5
<1>7. g \in AnyPresetable(C)
  BY <1>4, <1>5, <1>6, Zenon DEF AnyPresetable
<1>8. QED BY <1>7, PresetsAreSound

\* crash: files with names that the hook writes, and two others.
LEMMA CrashableIsGiven ==
  ASSUME NEW g \in Crashable
  PROVE  SoundReports(g, ListReports(g))
<1> DEFINE N == Tokens \cup {"..", "notes", "T"}
           M == {NameOf(s) : s \in Stamps} \cup {<<"crash-", "..", ".txt">>, <<"notes", ".txt">>}
<1>1. Stamps \subseteq Seq(N)
  BY DEF Stamps, Tokens
<1>2. <<"crash-">> \in Seq(N) /\ <<".txt">> \in Seq(N) /\ "-" \in N
      /\ <<"crash-", "..", ".txt">> \in Seq(N) /\ <<"notes", ".txt">> \in Seq(N)
  BY DEF Tokens
<1> HIDE DEF N
<1>3. ASSUME NEW s \in Seq(N) PROVE NameOf(s) \in Seq(N)
  <2> DEFINE t == [i \in DOMAIN s |-> IF s[i] \in {":", "."} THEN "-" ELSE s[i]]
  <2>1. t \in Seq(N)
    <3>1. Len(s) \in Nat /\ t \in [1..Len(s) -> N]
      BY <1>2
    <3>2. QED BY <3>1
  <2> HIDE DEF t
  <2>2. (<<"crash-">> \o t) \o <<".txt">> \in Seq(N)
    BY <1>2, <2>1
  <2>3. QED BY <2>2 DEF NameOf, t
<1>4. M \subseteq Seq(N)
  BY <1>1, <1>2, <1>3
<1>5. Reports = [name : M, size : Sizes, file : BOOLEAN, time : 1..2]
  BY DEF Reports, Sizes
<1> HIDE DEF M
<1>6. Reports \subseteq AnyReport(N)
  <2>1. ASSUME NEW r \in Reports PROVE r \in AnyReport(N)
    <3>1. /\ r = [name |-> r.name, size |-> r.size, file |-> r.file, time |-> r.time]
          /\ r.name \in M /\ r.size \in Sizes /\ r.file \in BOOLEAN /\ r.time \in 1..2
      BY <1>5
    <3>2. r.name \in Seq(N) /\ r.time \in Nat
      BY <1>4, <3>1
    <3>3. QED BY <3>1, <3>2, Zenon DEF AnyReport
  <2>2. QED BY <2>1
<1>7. /\ g = [dir |-> g.dir, limit |-> g.limit] /\ g.dir \in UpTo(Reports, 2) /\ g.limit \in 0..2
  BY DEF Crashable
<1>8. g.dir \in Seq(AnyReport(N)) /\ g.limit \in Nat
  BY <1>6, <1>7, UpToIsSeq
<1>9. g \in AnyCrashable(N)
  BY <1>7, <1>8, Zenon DEF AnyCrashable
<1>10. QED BY <1>9, ReportsAreSound

\* windows: adapters of two vendors.
LEMMA WindowsHostIsGiven ==
  ASSUME NEW g \in WindowsHosts
  PROVE  SoundWindows(g, ProbeWindows(g))
<1> DEFINE V == {"nvidia", "amd"}
           P == [Elements(RegistryKeys) -> {"absent", "0.0.0.0", "120"}]
           R == [installed : {Nil, 0, 1}, version : BOOLEAN]
<1>1. Adapters \subseteq AnyAdapter(V)
  BY DEF Adapters, AnyAdapter, Short, Long
<1>2. R \subseteq [installed : Int, version : BOOLEAN]
  BY DEF Nil
<1>3. /\ g = [pv |-> g.pv, vcredist |-> g.vcredist, adapters |-> g.adapters]
      /\ g.pv \in P /\ g.vcredist \in R /\ g.adapters \in UpTo(Adapters, 2)
  BY Zenon DEF WindowsHosts
<1> HIDE DEF V, P, R
<1>4. g.adapters \in Seq(AnyAdapter(V)) /\ g.vcredist \in [installed : Int, version : BOOLEAN]
  BY <1>1, <1>2, <1>3, UpToIsSeq
<1>5. g \in AnyWindows(V)
  BY <1>3, <1>4, Zenon DEF AnyWindows, P
<1>6. QED BY <1>5, WindowsIsSound

-----------------------------------------------------------------------------
\* The invariant: what was computed is computed from what is given.
Right ==
  /\ topic \in Topics /\ given \in Givens(topic) /\ decided \in BOOLEAN
  /\ decided => answer = Computed(topic, given)

\* A rule keeps what it promises.
LEMMA RuleIsSound ==
  ASSUME NEW t \in RuleTopics, NEW g \in RuleGivens(t)
  PROVE  SoundRule(t, g, Ruled(t, g))
<1>1. CASE t \in {"sections", "release", "quota", "hub", "files", "tokens", "remote", "history"}
  BY <1>1, RulesAreGiven DEF RuleGivens, Ruled, SoundRule
<1>2. CASE t = "presets"
  BY <1>2, PresetableIsGiven DEF RuleGivens, Ruled, SoundRule
<1>3. CASE t = "crash"
  BY <1>3, CrashableIsGiven DEF RuleGivens, Ruled, SoundRule
<1>4. CASE t = "windows"
  BY <1>4, WindowsHostIsGiven DEF RuleGivens, Ruled, SoundRule
<1>5. QED BY <1>1, <1>2, <1>3, <1>4 DEF RuleTopics

\* What is computed of what is given is what was promised.
LEMMA RightIsPromised == Right => DecidedAsPromised
<1> SUFFICES ASSUME topic \in Topics, given \in Givens(topic), answer = Computed(topic, given), decided
             PROVE  DecidedAsPromised
  BY DEF Right, DecidedAsPromised
<1>1. CASE topic = "recommend"
  BY <1>1, RecommendableIsGiven DEF Givens, Computed, DecidedAsPromised
<1>2. CASE topic = "detect"
  BY <1>2, DetectableIsGiven DEF Givens, Computed, DecidedAsPromised
<1>3. CASE topic = "gpus"
  BY <1>3, ProbeableIsGiven DEF Givens, Computed, DecidedAsPromised
<1>4. CASE topic = "checks"
  BY <1>4, CheckableIsGiven DEF Givens, Computed, DecidedAsPromised
<1>5. CASE topic = "summary"
  BY <1>5, SummableIsGiven DEF Givens, Computed, DecidedAsPromised
<1>6. CASE topic = "trending"
  BY <1>6, RankableIsGiven DEF Givens, Computed, DecidedAsPromised
<1>7. CASE topic \in {"import", "eval", "retention", "chunks", "report", "sample"}
  BY <1>7, ComputableIsGiven DEF Givens, Computed, DecidedAsPromised
<1>8. CASE topic = "frames"
  BY <1>8, CuttableIsGiven DEF Givens, Computed, DecidedAsPromised
<1>9. CASE topic \in RuleTopics
  <2>1. topic \notin {"recommend", "detect", "gpus", "checks", "summary", "trending", "import",
                      "eval", "retention", "frames", "chunks", "report", "sample"}
    BY <1>9 DEF RuleTopics
  <2>2. given \in RuleGivens(topic) /\ answer = Ruled(topic, given)
    BY <2>1 DEF Givens, Computed
  <2>3. SoundRule(topic, given, answer)
    BY <1>9, <2>2, RuleIsSound
  <2>4. QED BY <2>1, <2>3 DEF DecidedAsPromised
<1>10. QED BY <1>1, <1>2, <1>3, <1>4, <1>5, <1>6, <1>7, <1>8, <1>9 DEF Topics

\* Whatever is computed keeps what it promises: each computation of the desktop, of
\* whatever it is given, in the words of the Sound... definition next to it.
THEOREM EveryDecisionIsSound == DecideInit /\ [][Decide]_decideVars => []DecidedAsPromised
<1>1. DecideInit => Right
  BY DEF DecideInit, Right
<1>2. Right /\ [Decide]_decideVars => Right'
  <2> SUFFICES ASSUME Right, [Decide]_decideVars PROVE Right'
    OBVIOUS
  <2>1. CASE Decide
    BY <2>1 DEF Right, Decide
  <2>2. CASE UNCHANGED decideVars
    BY <2>2 DEF Right, decideVars
  <2>3. QED BY <2>1, <2>2
<1>3. QED BY <1>1, <1>2, RightIsPromised, PTL

-----------------------------------------------------------------------------
\* The chats.
Stages == {"idle", "check", "lock", "spawn", "health", "ready", "connect", "body", "stream", "done"}

\* The chats that are in the critical section of the slot.
Loading == {"spawn", "health", "ready"}

\* Nothing was answered yet.
Unanswered == {"idle", "check", "lock", "spawn", "health", "ready", "connect"}

Types ==
  /\ pc \in [Chats -> Stages]
  /\ told \in [Chats -> {"none", "started", "delta"} \cup Terminal]
  /\ result \in [Chats -> {"none", "error"} \cup Terminal]
  /\ holder \in Chats \cup {None} /\ slot \in Chats \cup {None}
  /\ alive \in SUBSET Chats /\ delta \in SUBSET Chats

\* The lock is held by the chat that loads, and the slot is empty meanwhile.
LockIsHeld ==
  /\ \A c \in Chats : pc[c] \in Loading <=> holder = c
  /\ holder # None => slot = None

\* A call that is under way has said no last word, and one that has not been
\* answered has passed nothing on.
WordIsKept ==
  \A c \in Chats :
    /\ pc[c] # "done" => result[c] = "none" /\ told[c] \notin Terminal
    /\ pc[c] \in Unanswered => c \notin delta /\ told[c] \in {"none", "started"}

IInv == Types /\ LockIsHeld /\ OneServer /\ WordIsKept /\ LastWordAgrees

USE NoneIsNoChat

\* The end of a stream keeps everything, whatever it ends with.
LEMMA EndKeeps ==
  ASSUME IInv, NEW c \in Chats, NEW e \in Terminal, Ends(c, e),
         pc[c] \in {"connect", "body", "stream"}, e = "cancelled" => c \in cancelled
  PROVE  IInv'
<1> USE DEF IInv, Ends, Return, Goto, Told, Survey, Terminal, chatVars, serverVars
<1>1. Types'
  BY DEF Types, Stages
<1>2. LockIsHeld'
  BY DEF Types, LockIsHeld, Loading
<1>3. OneServer'
  BY DEF Types, OneServer, LockIsHeld, Loading
<1>4. WordIsKept'
  BY DEF Types, WordIsKept, Unanswered
<1>5. LastWordAgrees'
  BY DEF Types, WordIsKept, LastWordAgrees
<1>6. QED BY <1>1, <1>2, <1>3, <1>4, <1>5

\* A call that returns with an error of its own keeps what is said of words.
LEMMA ErrorKeepsWords ==
  ASSUME IInv, NEW c \in Chats, Return(c, "error"), pc[c] \in Unanswered,
         UNCHANGED <<runtime, open, told, cancelled, delta>>
  PROVE  WordIsKept' /\ LastWordAgrees'
<1> USE DEF IInv, Return, Goto, Survey, Terminal, Unanswered, Types, WordIsKept
<1>1. WordIsKept'
  OBVIOUS
<1>2. LastWordAgrees'
  BY DEF LastWordAgrees
<1>3. QED BY <1>1, <1>2

\* A step of one call on its way to the answer keeps what is said of words.
LEMMA AdvanceKeepsWords ==
  ASSUME IInv, NEW c \in Chats, NEW p \in Stages \ {"done"}, Goto(c, p), pc[c] # "done",
         p \in Unanswered => pc[c] \in Unanswered,
         UNCHANGED <<runtime, open, result, delta>>,
         cancelled \subseteq cancelled',
         \/ told' = told
         \/ told' = Told(c, "started") /\ pc[c] \in Unanswered
  PROVE  WordIsKept' /\ LastWordAgrees'
<1> USE DEF IInv, Goto, Told, Survey, Terminal, Unanswered, Types, WordIsKept
<1>1. WordIsKept'
  OBVIOUS
<1>2. LastWordAgrees'
  BY DEF LastWordAgrees
<1>3. QED BY <1>1, <1>2

LEMMA InitKept == Init => IInv
<1> SUFFICES ASSUME Init PROVE IInv
  OBVIOUS
<1> USE DEF Init
<1>1. Types
  BY DEF Types, Stages
<1>2. LockIsHeld /\ OneServer
  BY DEF LockIsHeld, OneServer, Loading
<1>3. WordIsKept /\ LastWordAgrees
  BY DEF WordIsKept, LastWordAgrees, Unanswered, Terminal
<1>4. QED BY <1>1, <1>2, <1>3 DEF IInv

LEMMA NextKeeps == IInv /\ [Next]_vars => IInv'
<1> SUFFICES ASSUME IInv, [Next]_vars PROVE IInv'
  OBVIOUS
<1>t. Types /\ LockIsHeld /\ OneServer /\ WordIsKept /\ LastWordAgrees
  BY DEF IInv
<1> DEFINE Lock == Types' /\ LockIsHeld' /\ OneServer'
           Words == WordIsKept' /\ LastWordAgrees'
<1>q. ASSUME Lock, Words PROVE IInv'
  BY <1>q DEF IInv
<1>l. USE DEF Types, LockIsHeld, OneServer, Stages, Loading, Terminal, chatVars, serverVars
\* The call's own way to its runtime.
<1>1. ASSUME NEW c \in Chats, Start(c) \/ SurveyStart(c) \/ FilesPresent(c) PROVE IInv'
  <2>1. Lock
    BY <1>1, <1>t DEF Start, SurveyStart, FilesPresent, Goto, Told
  <2>2. \E p \in {"check", "connect", "lock"} : Goto(c, p)
    BY <1>1 DEF Start, SurveyStart, FilesPresent
  <2>3. Words
    BY <1>1, <2>2, AdvanceKeepsWords DEF Start, SurveyStart, FilesPresent, Unanswered
  <2>4. QED BY <2>1, <2>3, <1>q
<1>2. ASSUME NEW c \in Chats,
             UnknownEndpoint(c) \/ Refuse(c) \/ SpawnFails(c) \/ Unhealthy(c) \/ NoClient(c)
      PROVE IInv'
  <2>1. Lock
    <3>1. CASE UnknownEndpoint(c) BY <3>1, <1>t DEF UnknownEndpoint, Return, Goto
    <3>2. CASE Refuse(c) BY <3>2, <1>t DEF Refuse, Return, Goto
    <3>3. CASE SpawnFails(c) BY <3>3, <1>t DEF SpawnFails, Return, Goto
    <3>4. CASE Unhealthy(c) BY <3>4, <1>t DEF Unhealthy, Return, Goto
    <3>5. CASE NoClient(c) BY <3>5, <1>t DEF NoClient, Return, Goto
    <3>6. QED BY <1>2, <3>1, <3>2, <3>3, <3>4, <3>5
  <2>2. Words
    BY <1>2, ErrorKeepsWords DEF UnknownEndpoint, Refuse, SpawnFails, Unhealthy, NoClient, Unanswered
  <2>3. QED BY <2>1, <2>2, <1>q
\* The slot.
<1>3. ASSUME NEW c \in Chats, Reuse(c) \/ Evict(c) \/ Spawn(c) \/ Healthy(c) \/ Publish(c) PROVE IInv'
  <2>1. Lock
    <3>1. CASE Reuse(c) BY <3>1, <1>t DEF Reuse, Fits, Goto
    <3>2. CASE Evict(c) BY <3>2, <1>t DEF Evict, Goto
    <3>3. CASE Spawn(c) BY <3>3, <1>t DEF Spawn, Goto
    <3>4. CASE Healthy(c) BY <3>4, <1>t DEF Healthy, Goto
    <3>5. CASE Publish(c) BY <3>5, <1>t DEF Publish, Goto
    <3>6. QED BY <1>3, <3>1, <3>2, <3>3, <3>4, <3>5
  <2>2. \E p \in {"connect", "spawn", "health", "ready"} : Goto(c, p)
    BY <1>3 DEF Reuse, Evict, Spawn, Healthy, Publish
  <2>3. pc[c] \in Unanswered /\ UNCHANGED <<runtime, open, cancelled, told, result, delta>>
    BY <1>3 DEF Reuse, Evict, Spawn, Healthy, Publish, Unanswered
  <2>4. Words
    BY <2>2, <2>3, AdvanceKeepsWords DEF Unanswered
  <2>5. QED BY <2>1, <2>4, <1>q
\* The answer.
<1>4. ASSUME NEW c \in Chats, Answered(c) PROVE IInv'
  <2>1. Lock
    BY <1>4, <1>t DEF Answered, Goto
  <2>2. PICK p \in {"stream", "body"} : Goto(c, p)
    BY <1>4 DEF Answered
  <2>3. Words
    BY <1>4, <2>2, AdvanceKeepsWords DEF Answered, Unanswered
  <2>4. QED BY <2>1, <2>3, <1>q
<1>5. ASSUME NEW c \in Chats, Delta(c) \/ Collect(c) PROVE IInv'
  <2>1. Lock
    BY <1>5, <1>t DEF Delta, Collect, Told
  <2>2. Words
    BY <1>5, <1>t DEF Delta, Collect, Told, Unanswered, WordIsKept, LastWordAgrees, Survey
  <2>3. QED BY <2>1, <2>2, <1>q
<1>6. ASSUME NEW c \in Chats,
             \/ ConnectCancelled(c) \/ ConnectFails(c) \/ BodyRead(c) \/ StreamCancelled(c)
             \/ Done(c) \/ ErrorLine(c) \/ StreamEnds(c) \/ StreamBreaks(c)
      PROVE IInv'
  <2>1. PICK e \in Terminal : Ends(c, e) /\ (e = "cancelled" => c \in cancelled)
    BY <1>6 DEF ConnectCancelled, ConnectFails, BodyRead, StreamCancelled, Done, ErrorLine,
                StreamEnds, StreamBreaks
  <2>2. pc[c] \in {"connect", "body", "stream"}
    BY <1>6 DEF ConnectCancelled, ConnectFails, BodyRead, StreamCancelled, Done, ErrorLine,
                StreamEnds, StreamBreaks
  <2>3. QED BY <2>1, <2>2, EndKeeps
\* What goes on around the calls.
<1>7. ASSUME NEW c \in Chats, ServerDies(c) \/ CloseChannel(c) PROVE IInv'
  <2>1. Lock
    BY <1>7, <1>t DEF ServerDies, CloseChannel
  <2>2. Words
    BY <1>7, <1>t DEF ServerDies, CloseChannel, WordIsKept, LastWordAgrees, Survey
  <2>3. QED BY <2>1, <2>2, <1>q
<1>8. ASSUME CancelAll \/ Exit PROVE IInv'
  <2>1. Lock
    BY <1>8, <1>t DEF CancelAll, Exit
  <2>2. Words
    BY <1>8, <1>t DEF CancelAll, Exit, WordIsKept, LastWordAgrees, Survey
  <2>3. QED BY <2>1, <2>2, <1>q
<1>9. CASE UNCHANGED vars
  <2>1. Lock
    BY <1>9, <1>t DEF vars
  <2>2. Words
    BY <1>9, <1>t DEF vars, WordIsKept, LastWordAgrees, Survey
  <2>3. QED BY <2>1, <2>2, <1>q
<1>10. QED
  BY <1>1, <1>2, <1>3, <1>4, <1>5, <1>6, <1>7, <1>8, <1>9 DEF Next, Work, TakeLock

LEMMA Invariant == Spec => []IInv
BY InitKept, NextKeeps, PTL DEF Spec

\* Two chats with different models, or a chat and a survey, never have a
\* llama-server each, whoever is cancelled and whenever the application exits
\* (start_chat, chat/mod.rs).
THEOREM OneServerRuns == Spec => []OneServer
<1>1. IInv => OneServer
  BY DEF IInv
<1>2. QED BY Invariant, <1>1, PTL

\* A page that stays hears last what the call returns, and is told that a chat was
\* cancelled only if it was (the sink of chat/mod.rs).
THEOREM LastWordIsResult == Spec => []LastWordAgrees
<1>1. IInv => LastWordAgrees
  BY DEF IInv
<1>2. QED BY Invariant, <1>1, PTL
=============================================================================
