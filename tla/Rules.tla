--------------------------------- MODULE Rules ---------------------------------
(***************************************************************************)
(* Small rules that a command applies to what it is given: the reading of  *)
(* an answer, a release, a directory or a file name, a budget, a token.    *)
(* Each is stated as in Decisions: what is given, what the code computes,  *)
(* and what a good answer is.                                              *)
(***************************************************************************)
EXTENDS Keeping, Integers, FiniteSetsExt, SequencesExt

UpTo(S, n) == UNION {[1..k -> S] : k \in 0..n}

\* HashMap::insert.
With(f, k, v) == [x \in DOMAIN f \cup {k} |-> IF x = k THEN v ELSE f[x]]

-----------------------------------------------------------------------------
\* sections: the answer of a model to the trends, line by line.  A known header
\* begins a section, an unknown one a section nobody reads.

Headers == {"paper", "blog", "unknown"}
ModelAnswers == UpTo(Headers \cup {"text", ""}, 4)

\* parse_response.  A text is known by the number of its line.
Flush(s) ==
  IF s.kind \in {"none", "unknown"} \/ s.buf = {} THEN [s EXCEPT !.buf = {}]
  ELSE [s EXCEPT !.buf = {}, !.out = With(@, s.kind, s.buf)]

Sections(lines) ==
  LET step(s, i) == CASE lines[i] \in Headers -> [Flush(s) EXCEPT !.kind = lines[i]]
                      [] lines[i] = "text" -> [s EXCEPT !.buf = @ \cup {i}]
                      [] OTHER -> s
  IN Flush(FoldLeft(step, [kind |-> "none", buf |-> {}, out |-> <<>>],
                    [i \in DOMAIN lines |-> i])).out

\* A kind has what stands under the last of its headers that has anything under it,
\* all of it, and nothing that stands under another.
SoundSections(lines, a) ==
  LET under(h) == {i \in DOMAIN lines : /\ h < i /\ lines[i] = "text"
                                        /\ \A j \in h + 1..i : lines[j] \notin Headers}
      heads(k) == {h \in DOMAIN lines : lines[h] = k /\ under(h) # {}}
  IN \A k \in {"paper", "blog"} :
       IF heads(k) = {} THEN k \notin DOMAIN a
       ELSE k \in DOMAIN a /\ a[k] = under(Max(heads(k)))

-----------------------------------------------------------------------------
\* release: what GitHub answers about the latest release, and whether it is newer.
\* A version is its number and the number of its pre-release, 9 for none.

Tags == [v : {"", "v", "V"}, number : {1, 2}, pre : {1, 2, 9}, build : {0, 1}]
Releasable == [status : {"ok", "404", "500", "lost"}, body : {"release", "no tag", "no json"},
               tag : Tags \cup {[v |-> "text"]},
               current : {t \in Tags : t.v = "v"} \cup {[v |-> "text"]}]

\* parse_lenient: the v and the build do not count.
Precedes(t, u) == t.number < u.number \/ (t.number = u.number /\ t.pre < u.pre)
Outdated(current, latest) ==
  IF "text" \in {current.v, latest.v} THEN "invalid"
  ELSE IF Precedes(current, latest) THEN "newer" ELSE "same"

LatestVersion(g) ==
  IF g.status = "lost" THEN "network"
  ELSE IF g.status = "404" THEN "no releases"
  ELSE IF g.status = "500" THEN "failure"
  ELSE IF g.body # "release" THEN "parse"
  ELSE Outdated(g.current, g.tag)

\* A release is told as newer only if it is one, and one way round only, whatever is
\* built from it and however its tag is written.
SoundRelease(g, a) ==
  LET bare(t) == IF t.v = "text" THEN t ELSE [t EXCEPT !.v = "", !.build = 0]
  IN /\ a = LatestVersion([g EXCEPT !.tag = bare(@), !.current = bare(@)])
     /\ a = "newer" => /\ g.status = "ok" /\ g.body = "release"
                       /\ Outdated(g.tag, g.current) = "same"
                       /\ g.tag.number >= g.current.number /\ bare(g.tag) # bare(g.current)

-----------------------------------------------------------------------------
\* presets: two calls, between which the directory of the presets may change.

Preset == {[id |-> i, cat |-> c, prefix |-> p, disclaimer |-> d] :
             i \in 1..2, c \in {"coding", "legal"}, p \in BOOLEAN, d \in BOOLEAN}
            \cup {[id |-> 0]}  \* a file that cannot be read
Folder(there, files) == [there |-> there, files |-> files]
Presetable == [first : {Folder("missing", <<>>), Folder("gone", <<>>)}
                         \cup {Folder("here", f) : f \in UpTo(Preset, 2)},
               second : {Folder("here", f) : f \in UpTo(Preset, 1)}, category : {"any", "legal"}]

Unfit(p) == ~p.prefix \/ (p.cat = "legal" /\ ~p.disclaimer)

\* load_all: one bad file fails them all.
LoadAll(files) ==
  IF \E i \in DOMAIN files : files[i].id = 0 THEN [ok |-> FALSE]
  ELSE IF \E i \in DOMAIN files : Unfit(files[i]) THEN [ok |-> FALSE]
  ELSE [ok |-> TRUE, list |-> Sorted(files, LAMBDA p, q : p.id < q.id)]

\* presets_dir finds no directory at all, or one that has gone when it is read.
LoadedFrom(dir) == CASE dir.there = "missing" -> [ok |-> FALSE]
                 [] dir.there = "gone" -> [ok |-> TRUE, list |-> <<>>]
                 [] OTHER -> LoadAll(dir.files)
InCategory(l, c) ==
  IF l.ok THEN [l EXCEPT !.list = Where(@, LAMBDA p : c \in {"any", p.cat})] ELSE l

\* get_or_load: a list that was loaded once is the list until the application ends.
GetPresets(g) ==
  LET one == LoadedFrom(g.first)
      two == IF one.ok THEN one ELSE LoadedFrom(g.second)
  IN <<InCategory(one, g.category), InCategory(two, g.category)>>

\* Whatever is shown is in order, of the category, under the name of its own, and
\* with the warning it needs; two calls that succeed show the same.
SoundPresets(g, a) ==
  /\ \A n \in 1..2 : a[n].ok =>
       /\ \A i \in DOMAIN a[n].list :
            LET p == a[n].list[i] IN
              p.prefix /\ (p.cat = "legal" => p.disclaimer) /\ g.category \in {"any", p.cat}
       /\ \A i \in 1..Len(a[n].list) - 1 : a[n].list[i].id <= a[n].list[i + 1].id
  /\ a[1].ok => a[2] = a[1]

-----------------------------------------------------------------------------
\* crash: the reports the panic hook wrote, and other files of the directory.  A name
\* is a sequence of tokens; the hook replaces the colons and the dot of the time.

Stamps == {<<"day", "T", "h", ":", "m", ":", "sZ">>, <<"day", "T", "h", ":", "m", ":", "s", ".", "fZ">>,
           <<"unknown-time">>}
NameOf(stamp) == <<"crash-">> \o [i \in DOMAIN stamp |-> IF stamp[i] \in {":", "."} THEN "-" ELSE stamp[i]]
                   \o <<".txt">>

Reports == [name : {NameOf(s) : s \in Stamps} \cup {<<"crash-", "..", ".txt">>, <<"notes", ".txt">>},
            size : {1, 2000000}, file : BOOLEAN, time : 1..2]
Crashable == [dir : UpTo(Reports, 2), limit : 0..2]

IsReport(n) == n[1] = "crash-" /\ n[Len(n)] = ".txt"
Safe(n) == IsReport(n) /\ ".." \notin Elements(n) /\ "/" \notin Elements(n)

\* filename_to_rfc3339: the time is hours, minutes, seconds, and what is left.
Stamp(n) ==
  LET inner == SubSeq(n, 2, Len(n) - 1)
      rest == SubSeq(inner, 3, Len(inner))
      parts == Where(rest, LAMBDA t : t # "-")
      whole == <<inner[1], "T", parts[1], ":", parts[2], ":", parts[3]>>
  IN IF "T" \notin Elements(inner) \/ Len(parts) < 3 THEN <<>>
     ELSE IF Len(parts) = 3 THEN whole ELSE whole \o <<".", parts[4]>>

ListReports(g) ==
  LET fit == Where(g.dir, LAMBDA r : IsReport(r.name) /\ r.file)
      sorted == Sorted(fit, LAMBDA a, b : a.time > b.time)
  IN SubSeq(sorted, 1, Min({g.limit, Len(sorted)}))

MAX_CRASH_FILE_BYTES == 1048576

ReadReport(r) ==
  IF ~Safe(r.name) THEN "invalid"
  ELSE IF ~r.file THEN "not found"
  ELSE IF r.size > MAX_CRASH_FILE_BYTES THEN "too large" ELSE "text"

\* The latest reports are listed, each with the time it was written; one that the
\* hook wrote can be read unless it is too large.
SoundReports(g, a) ==
  /\ \A i \in DOMAIN a, r \in Elements(g.dir) :
       IsReport(r.name) /\ r.file /\ r.time > a[i].time => r \in Elements(a)
  /\ \A i \in DOMAIN a, s \in Stamps : a[i].name = NameOf(s) =>
       /\ Stamp(a[i].name) = IF "T" \in Elements(s) THEN s ELSE <<>>
       /\ ReadReport(a[i]) = IF a[i].size = 1 THEN "text" ELSE "too large"

-----------------------------------------------------------------------------
\* quota: the requests and responses of a context with a budget of tokens.

Messages == [request : BOOLEAN, total : {Nil, 5}, prompt : {0, 2}, words : {0, 3}]
Quotable == [messages : UpTo(Messages, 3), budget : {Nil, 4, 9}]

\* estimate_tokens: the usage that is told, in one number or two, or 1.3 tokens a word.
Estimate(m) ==
  IF m.total # Nil THEN m.total
  ELSE IF m.prompt > 0 THEN m.prompt ELSE (13 * m.words + 9) \div 10

Quota(g) ==
  LET step(s, m) ==
        LET projected == s.used + Estimate(m)
            over == g.budget # Nil /\ projected > g.budget
        IN IF over /\ m.request THEN [s EXCEPT !.said = Append(@, "blocked")]
           ELSE [used |-> projected, said |-> Append(s.said, IF over THEN "modified" ELSE "passed")]
  IN FoldLeft(step, [used |-> 0, said |-> <<>>], g.messages)

\* What was let through is what was counted; no request goes over the budget, and
\* once a response has, which is marked, every request after it is refused.
SoundQuota(g, a) ==
  LET cost(n) == Total([i \in 1..n |-> IF a.said[i] = "blocked" THEN 0 ELSE Estimate(g.messages[i])])
  IN /\ a.used = cost(Len(g.messages))
     /\ \A n \in DOMAIN g.messages : g.budget # Nil =>
          /\ g.messages[n].request /\ a.said[n] = "passed" => cost(n) <= g.budget
          /\ ~g.messages[n].request => (a.said[n] = "modified" <=> cost(n) > g.budget)
          /\ cost(n) > g.budget =>
               \A k \in DOMAIN g.messages : k > n /\ g.messages[k].request => a.said[k] = "blocked"

-----------------------------------------------------------------------------
\* hub: a search on the hub, and the registration of what it found as models of the
\* user.  A repository is an owner and a name, of words that a "-" joins.

HubRepos == {<<"a", "/", "b">>, <<"a", "/", "b", "-", "c">>, <<"a", "-", "b", "/", "c">>}
Hits == [repo : HubRepos, private : {"yes", "no", "unsaid"}]
Searchable == [blank : BOOLEAN, status : {"ok", "500", "lost", "no json"}, hits : UpTo(Hits, 3)]

SearchHub(g) ==
  IF g.blank THEN [said |-> "ok", hits |-> <<>>]
  ELSE IF g.status # "ok" THEN [said |-> g.status, hits |-> <<>>]
  ELSE [said |-> "ok", hits |-> Where(g.hits, LAMBDA h : h.private # "yes")]

IdOf(repo) == [i \in DOMAIN repo |-> IF repo[i] = "/" THEN "-" ELSE repo[i]]

\* register, of every hit in turn: a model with the same id is replaced.
RegisterAll(hits) ==
  FoldLeft(LAMBDA m, h : With(m, IdOf(h.repo), h.repo), <<>>, hits)
SearchAndRegister(g) == LET found == SearchHub(g)
                        IN [said |-> found.said, hits |-> found.hits, models |-> RegisterAll(found.hits)]

\* Nothing private is found; what was registered is there, unless a repository whose
\* name differs only in where its owner ends was registered later.
SoundHub(g, a) ==
  /\ \A i \in DOMAIN a.hits : a.hits[i].private # "yes" /\ ~g.blank /\ g.status = "ok"
  /\ \A i \in DOMAIN a.hits :
       \/ \E d \in DOMAIN a.models : a.models[d] = a.hits[i].repo
       \/ \E j \in DOMAIN a.hits : /\ i < j /\ a.hits[j].repo # a.hits[i].repo
                                   /\ Where(a.hits[j].repo, LAMBDA t : t \notin {"/", "-"})
                                        = Where(a.hits[i].repo, LAMBDA t : t \notin {"/", "-"})

-----------------------------------------------------------------------------
\* files: the file of a model in the folder, by its first quantization: the last part
\* of its path, or of its address, or the id of the model.

EntryPaths == {<<>>, <<"dir", "x">>, <<"dir", "">>}
FileEntry == [quant : BOOLEAN, path : EntryPaths, source : {"hub", "hub file", "url", "bare url"},
              llama : BOOLEAN]
Fileable == [entries : UpTo(FileEntry, 2), disk : {{"x"}, {"y", "id"}, {"x", "y"}},
             dir : BOOLEAN]

\* The path or the file of the source, or the address it names.
MainUrl(e) ==
  IF e.source \in {"hub", "hub file"} /\ e.path # <<>> THEN <<"hub">> \o e.path
  ELSE CASE e.source = "hub file" -> <<"hub", "y">>
         [] e.source = "url" -> <<"host", "y">>
         [] e.source = "bare url" -> <<"host", "">>
         [] e.source = "hub" -> <<>>
Basename(p) == IF p = <<>> THEN "" ELSE p[Len(p)]

FileName(e) ==
  IF e.quant /\ Basename(e.path) # "" THEN Basename(e.path)
  ELSE IF e.quant /\ Basename(MainUrl(e)) # "" THEN Basename(MainUrl(e))
  ELSE "id"

ListLocal(g) ==
  IF ~g.dir THEN {}
  ELSE {i \in DOMAIN g.entries : g.entries[i].llama /\ FileName(g.entries[i]) \in g.disk}

\* The models listed are those that can be run from a file that is there, and where a
\* model names a file to be downloaded from, that is the file, but for a path that
\* an address contradicts; models of one file name are there together.
SoundFiles(g, a) ==
  /\ a # {} => g.dir
  /\ \A i \in DOMAIN g.entries :
       LET e == g.entries[i] IN
         /\ i \in a => e.llama /\ FileName(e) \in g.disk
         /\ e.quant /\ Basename(MainUrl(e)) # "" =>
              FileName(e) \in {Basename(MainUrl(e))} \cup
                (IF e.source = "url" THEN {Basename(e.path)} \ {""} ELSE {})
         /\ \A j \in a : e.llama /\ FileName(e) = FileName(g.entries[j]) => i \in a

-----------------------------------------------------------------------------
\* tokens: paths that the user picked, each known to the page by a token; a command
\* gets the path back for a day.

TokenSteps == [do : {"pick"}, kind : {"file", "directory", "other"}, there : BOOLEAN]
                \cup [do : {"wait"}] \cup [do : {"use"}, token : 1..2]
Tokenable == UpTo(TokenSteps, 4)

\* issue_path_token takes what exists and is said to be a file or a directory; resolve
\* does not ask which.  Half a day goes by at each wait.
UseTokens(steps) ==
  LET step(s, t) ==
        CASE t.do = "wait" -> [s EXCEPT !.ages = [i \in DOMAIN @ |-> @[i] + 12]]
          [] t.do = "pick" -> IF t.there /\ t.kind # "other" THEN [s EXCEPT !.ages = Append(@, 0)] ELSE s
          [] t.do = "use" ->
               [s EXCEPT !.said = Append(@, IF t.token \notin DOMAIN s.ages THEN "unknown"
                                            ELSE IF s.ages[t.token] > 24 THEN "expired" ELSE "path")]
  IN FoldLeft(step, [ages |-> <<>>, said |-> <<>>], steps)

\* A command is given a path only if it was picked before, not more than a day ago.
SoundTokens(steps, a) ==
  LET picks(n) == {i \in 1..n : steps[i].do = "pick" /\ steps[i].there /\ steps[i].kind # "other"}
      uses == {i \in DOMAIN steps : steps[i].do = "use"}
  IN \A u \in uses :
       LET said == a.said[Cardinality({i \in uses : i <= u})]
           pick == {p \in picks(u) : Cardinality(picks(p)) = steps[u].token}
       IN said = "path" <=>
            \E p \in pick : Cardinality({i \in p..u : steps[i].do = "wait"}) <= 2

-----------------------------------------------------------------------------
\* remote: the models of the remote endpoints in the settings.  A model is the words
\* of its name, which may hold the separator of the id it is chosen by.

RemoteModels == {<<"m">>, <<"m", "::", "n">>}
Endpoints == [answer : {"ok", "refused", "500", "lost", "no json"}, models : UpTo(RemoteModels, 2)]
EndpointIds == <<"e1", "e2">>

\* fetch_models: 10 s for the list, and an answer that is a list.
FetchModels(e) == IF e.answer = "ok" THEN e.models ELSE <<>>

\* list_all_remote_models asks one after the other and leaves out those that fail.
ListRemote(endpoints) ==
  FlattenSeq([k \in DOMAIN endpoints |->
    LET found == FetchModels(endpoints[k])
    IN [n \in DOMAIN found |-> <<"remote", "::", EndpointIds[k], "::">> \o found[n]]])

\* What the page makes of the id that was chosen.
Chosen(id) == [endpoint |-> id[3], model |-> SubSeq(id, 5, Len(id))]

\* Every model of every endpoint that answers can be chosen, whatever its name and
\* whatever the other endpoints do, and a chat with it goes to its own endpoint.
SoundRemote(endpoints, a) ==
  /\ {Chosen(a[i]) : i \in DOMAIN a} =
       UNION {{[endpoint |-> EndpointIds[k], model |-> m] : m \in Elements(endpoints[k].models)} :
                k \in {n \in DOMAIN endpoints : endpoints[n].answer = "ok"}}
  /\ Len(a) = Total([k \in DOMAIN endpoints |->
                      IF endpoints[k].answer = "ok" THEN Len(endpoints[k].models) ELSE 0])

-----------------------------------------------------------------------------
\* history: the log of the repairs of a workspace, a line for each, appended.  A
\* write may be cut off within the line or before its end.

Historical == [writes : UpTo({"whole", "cut", "no end"}, 4), limit : {0, 1, 2, 10}]

\* append_repair_log_entry writes where the file ends.
LogLines(writes) ==
  LET step(s, i) ==
        LET line == Append(s.open, [n |-> i, cut |-> writes[i] = "cut"])
        IN IF writes[i] = "whole" THEN [lines |-> Append(s.lines, line), open |-> <<>>]
           ELSE [s EXCEPT !.open = line]
      end == FoldLeft(step, [lines |-> <<>>, open |-> <<>>], [i \in DOMAIN writes |-> i])
  IN IF end.open = <<>> THEN end.lines ELSE Append(end.lines, end.open)

\* get_repair_history: a line that does not parse is left out.
History(g) ==
  LET read == Where(LogLines(g.writes), LAMBDA l : Len(l) = 1 /\ ~l[1].cut)
      newest == Reverse(read)
  IN [i \in 1..Min({g.limit, Len(read)}) |-> newest[i][1].n]

\* The latest repairs are told, newest first, each as it was; one is missing only if
\* its own line or the one before was cut off.
SoundHistory(g, a) ==
  /\ \A i, j \in DOMAIN a : i < j => a[i] > a[j]
  /\ \A i \in DOMAIN a : g.writes[a[i]] # "cut"
  /\ \A n \in DOMAIN g.writes :
       g.writes[n] = "whole" /\ (n > 1 => g.writes[n - 1] = "whole") =>
         n \in Elements(a) \/ (Len(a) = g.limit /\ \A i \in DOMAIN a : a[i] > n)

-----------------------------------------------------------------------------
\* registry: what the registry of Windows says of the components an installation
\* needs.  A driver's version is its characters.

RegistryKeys == <<"wow", "machine", "user">>
Adapters == [vendor : {"nvidia", "amd"},
             version : {<<>>, <<"1", ".", "5">>, <<"1", "5", ".", "5", "1", "8", "6">>}]
WindowsHosts == [pv : [Elements(RegistryKeys) -> {"absent", "0.0.0.0", "120"}],
            vcredist : [installed : {Nil, 0, 1}, version : BOOLEAN],
            adapters : UpTo(Adapters, 2)]

\* read_string: the version of a component that was removed is all zeros.
WebView2(g) ==
  LET real == Where(RegistryKeys, LAMBDA p : g.pv[p] \notin {"absent", "0.0.0.0"})
  IN IF real = <<>> THEN "none" ELSE real[1]

VcRedist(g) == g.vcredist.installed = 1 /\ g.vcredist.version

\* format_nvidia_driver: of five digits at the end the first three, a dot, and two;
\* with fewer the version stays as it is.
UserVisible(raw) ==
  LET digits == Where(raw, LAMBDA c : c # ".")
      n == Len(digits)
  IN IF n < 5 THEN raw ELSE SubSeq(digits, n - 4, n - 2) \o <<".">> \o SubSeq(digits, n - 1, n)

\* The first adapter of the vendor that has a version.
Driver(g) ==
  LET known == Where(g.adapters, LAMBDA a : a.vendor = "nvidia" /\ a.version # <<>>)
  IN IF known = <<>> THEN <<>> ELSE UserVisible(known[1].version)

ProbeWindows(g) == [webview2 |-> WebView2(g), vcredist |-> VcRedist(g), driver |-> Driver(g)]

\* A component is told as there only if some place has a version of it that is one,
\* and then it is; the driver is one of an adapter of the vendor, told as users know
\* it wherever the dots are.
SoundWindows(g, a) ==
  /\ a.webview2 = "none" <=> \A p \in DOMAIN g.pv : g.pv[p] # "120"
  /\ a.webview2 # "none" => g.pv[a.webview2] = "120"
  /\ a.vcredist => g.vcredist.version /\ g.vcredist.installed \notin {Nil, 0}
  /\ LET known == {d.version : d \in {x \in Elements(g.adapters) : x.vendor = "nvidia"}} \ {<<>>}
     IN /\ a.driver = <<>> <=> known = {}
        /\ a.driver # <<>> => a.driver \in {v \in known : Len(v) < 6} \cup
             (IF \E v \in known : Len(v) >= 6 THEN {<<"5", "5", "1", ".", "8", "6">>} ELSE {})

RuleTopics == {"sections", "release", "presets", "crash", "quota", "hub", "files", "tokens",
               "remote", "history", "windows"}
RuleGivens(t) ==
  CASE t = "sections" -> ModelAnswers [] t = "release" -> Releasable [] t = "presets" -> Presetable
    [] t = "crash" -> Crashable [] t = "quota" -> Quotable [] t = "hub" -> Searchable
    [] t = "files" -> Fileable [] t = "tokens" -> Tokenable
    [] t = "remote" -> UpTo(Endpoints, 2) [] t = "history" -> Historical [] OTHER -> WindowsHosts
Ruled(t, g) ==
  CASE t = "sections" -> Sections(g) [] t = "release" -> LatestVersion(g) [] t = "presets" -> GetPresets(g)
    [] t = "crash" -> ListReports(g) [] t = "quota" -> Quota(g) [] t = "hub" -> SearchAndRegister(g)
    [] t = "files" -> ListLocal(g) [] t = "tokens" -> UseTokens(g)
    [] t = "remote" -> ListRemote(g) [] t = "history" -> History(g)
    [] OTHER -> ProbeWindows(g)
SoundRule(t, g, a) ==
  CASE t = "sections" -> SoundSections(g, a) [] t = "release" -> SoundRelease(g, a)
    [] t = "presets" -> SoundPresets(g, a) [] t = "crash" -> SoundReports(g, a)
    [] t = "quota" -> SoundQuota(g, a) [] t = "hub" -> SoundHub(g, a)
    [] t = "files" -> SoundFiles(g, a) [] t = "tokens" -> SoundTokens(g, a)
    [] t = "remote" -> SoundRemote(g, a) [] t = "history" -> SoundHistory(g, a)
    [] OTHER -> SoundWindows(g, a)
=============================================================================
