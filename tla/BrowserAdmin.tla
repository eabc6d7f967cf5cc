---------------------------- MODULE BrowserAdmin ----------------------------
(***************************************************************************)
(* Two pages of the administrator's console, each with a socket of its own *)
(* to the server's model of what runs: the overview of documents and their *)
(* users, and the charts of memory and traffic.  A page asks for the state *)
(* and subscribes to its changes, and from then on keeps its own account.  *)
(***************************************************************************)
EXTENDS Integers, Sequences, FiniteSets, SequencesExt

CONSTANTS OpenDocs,        \* documents, by the pid of their kit
          Visits,          \* sessions, each of which opens one document once
          UserOf,          \* whose session it is
          ChartSizes,      \* values the number of memory samples kept can be set to
          MaxAdminTurns,   \* bound: what happens to documents on the server
          MaxChartTurns    \* bound: samples and settings on the server

NetSize == 2
ASSUME AdminAssumption == UserOf \in [Visits -> Nat] /\ ChartSizes \subseteq Nat \ {0}

VARIABLES
    running,       \* the server's model: sessions, documents, samples
    toConsole,     \* messages to the page
    console,       \* the page, with its messages to the server
    adminTurns,    \* how much of the bound is used up
    flaws          \* history: the named holes that have been met

adminVars == <<running, toConsole, console, adminTurns, flaws>>

People == {UserOf[s] : s \in Visits}
Samples == {1, 2}
Absent == 0 - 1
Zeros(n) == [i \in 1..n |-> 0]

LiveIn(d) == {s \in Visits : running.doc[s] = d /\ running.live[s]}
Living == {s \in Visits : running.live[s]}

\* The values the variables take.
AdminTypeOK ==
    /\ running.doc \in [Visits -> OpenDocs \cup {0}] /\ running.live \in [Visits -> BOOLEAN]
    /\ running.docs \cup running.ended \subseteq OpenDocs /\ running.modified \subseteq OpenDocs
    /\ running.mem \in Seq(Samples) /\ running.net \in Seq(Samples)
    /\ DOMAIN console.rows \subseteq OpenDocs
    /\ console.number \in [People -> Int] /\ console.entries \subseteq Visits \X OpenDocs
    /\ console.memData \in Seq(Samples \cup {0}) /\ console.netData \in Seq(Samples \cup {0})
    /\ flaws \subseteq {"gap", "ended", "grown", "reset"}

\* A slip: the overview subscribes before it asks for the documents.
AskedEagerly(page) ==
    IF page = "overview" THEN <<"subscribe", "documents", "counts">>
    ELSE <<"subscribe", "settings", "net_activity", "mem_stats">>

\* What each page sends first.
AskedFirst(page) ==
    IF page = "overview" THEN <<"documents", "subscribe", "counts">>
    ELSE <<"subscribe", "settings", "net_activity", "mem_stats">>

AdminInit ==
    /\ running = [doc |-> [s \in Visits |-> 0], live |-> [s \in Visits |-> FALSE], docs |-> {},
                  ended |-> {}, modified |-> {}, mem |-> <<>>, net |-> <<>>,
                  memSize |-> 2, interval |-> 1, listed |-> FALSE, subscribed |-> FALSE]
    /\ toConsole = <<>> /\ adminTurns = 0 /\ flaws = {}
    /\ console = [page |-> "none", out |-> <<>>, rows |-> <<>>,
                  number |-> [u \in People |-> 0], entries |-> {},
                  docsCount |-> 0, usersCount |-> 0,
                  memData |-> <<>>, memSize |-> 0, interval |-> 0,
                  netData |-> <<>>, netSize |-> 0]

\* onSocketOpen
OpenConsole(page) ==
    /\ console.page = "none"
    /\ console' = [console EXCEPT !.page = page, !.out = AskedFirst(page)]
    /\ UNCHANGED <<running, toConsole, adminTurns, flaws>>

-----------------------------------------------------------------------------
(* The server (Admin, AdminModel): what changes is told to subscribers.     *)

Notified(msgs) == IF running.subscribed THEN toConsole \o msgs ELSE toConsole

ServerTurn(r, msgs) ==
    /\ adminTurns < (IF console.page = "overview" THEN MaxAdminTurns ELSE MaxChartTurns)
    /\ adminTurns' = adminTurns + 1
    /\ running' = r /\ toConsole' = Notified(msgs)
    /\ flaws' = IF console.page = "overview" /\ running.listed /\ ~running.subscribed
                THEN flaws \cup {"gap"} ELSE flaws
    /\ UNCHANGED console

AddDocument(s, d) ==
    /\ console.page = "overview" /\ running.doc[s] = 0 /\ d \notin running.ended
    /\ ServerTurn([running EXCEPT !.doc[s] = d, !.live[s] = TRUE, !.docs = @ \cup {d}],
                  <<<<"adddoc", d, s>>>>)

\* removeDocument of a session: the last one takes the document along.
RemoveView(s) ==
    LET d == running.doc[s]
        last == LiveIn(d) = {s}
    IN /\ running.live[s]
       /\ ServerTurn([running EXCEPT !.live[s] = FALSE,
                                     !.docs = IF last THEN @ \ {d} ELSE @,
                                     !.ended = IF last THEN @ \cup {d} ELSE @],
                     <<<<"rmdoc", d, s>>>>)

\* removeDocument of a whole document: it tells of every view, those that
\* have expired included.
RemoveDocument(d) ==
    /\ d \in running.docs
    /\ ServerTurn([running EXCEPT !.live = [s \in Visits |-> @[s] /\ running.doc[s] # d],
                                  !.docs = @ \ {d}, !.ended = @ \cup {d}],
                  LET views == SetToSortSeq({s \in Visits : running.doc[s] = d}, <)
                  IN [i \in DOMAIN views |-> <<"rmdoc", d, views[i]>>])

ModificationAlert(d) ==
    /\ console.page = "overview" /\ d \in running.docs
    /\ ServerTurn([running EXCEPT !.modified = IF d \in @ THEN @ \ {d} ELSE @ \cup {d}],
                  <<<<"modifications", d, d \notin running.modified>>>>)

Newest(list, size) == IF Len(list) > size THEN SubSeq(list, Len(list) - size + 1, Len(list)) ELSE list

AddMemStats(v) ==
    /\ console.page = "analytics"
    /\ ServerTurn([running EXCEPT !.mem = Newest(Append(@, v), running.memSize)], <<<<"mem_note", v>>>>)

AddNetStats(v) ==
    /\ console.page = "analytics"
    /\ ServerTurn([running EXCEPT !.net = Newest(Append(@, v), NetSize)], <<<<"net_note", v>>>>)

SetMemStatsSize(n) ==
    /\ console.page = "analytics" /\ n # running.memSize
    /\ ServerTurn([running EXCEPT !.mem = Newest(@, n), !.memSize = n],
                  <<<<"settings", n, Absent, Absent>>>>)

SetMemStatsInterval ==
    /\ console.page = "analytics"
    /\ ServerTurn([running EXCEPT !.mem = <<>>, !.interval = 3 - @],
                  <<<<"settings", Absent, 3 - running.interval, Absent>>>>)

\* handleMessage: a list without samples is not sent.
AnswerTo(c) ==
    CASE c = "documents" -> <<<<"documents", [d \in running.docs |-> LiveIn(d)], running.modified>>>>
      [] c = "counts" -> <<<<"counts", Cardinality(running.docs), Cardinality(Living)>>>>
      [] c = "settings" -> <<<<"settings", running.memSize, running.interval, NetSize>>>>
      [] c = "mem_stats" -> IF running.mem = <<>> THEN <<>> ELSE <<<<"mem_stats", running.mem>>>>
      [] c = "net_activity" -> IF running.net = <<>> THEN <<>> ELSE <<<<"net_activity", running.net>>>>
      [] OTHER -> <<>>

HandleMessage ==
    /\ console.out # <<>>
    /\ LET c == Head(console.out)
       IN /\ toConsole' = toConsole \o AnswerTo(c)
          /\ running' = [running EXCEPT !.listed = @ \/ c = "documents",
                                        !.subscribed = @ \/ c = "subscribe"]
          /\ console' = [console EXCEPT !.out = Tail(@)]
    /\ UNCHANGED <<adminTurns, flaws>>

-----------------------------------------------------------------------------
(* The overview.                                                            *)

EntriesOf(c, u) == {e \in c.entries : UserOf[e[1]] = u}

\* The documents the server had when it was asked, with a row for each of
\* them and one for each of their users.
OnDocuments(list, modified) ==
    LET new == UNION {list[d] \X {d} : d \in DOMAIN list}
    IN [console EXCEPT
          !.rows = [d \in DOMAIN @ \cup DOMAIN list |->
                      IF d \in DOMAIN list
                      THEN [views |-> Cardinality(list[d]), users |-> list[d], modified |-> d \in modified]
                      ELSE @[d]],
          !.number = [u \in People |-> @[u] + Cardinality({e \in new : UserOf[e[1]] = u})],
          !.entries = @ \cup new]

OnAddDoc(d, s) ==
    LET known == d \in DOMAIN console.rows
        row == IF known THEN console.rows[d] ELSE [views |-> 0, users |-> {}, modified |-> FALSE]
    IN [console EXCEPT
          !.rows = [e \in DOMAIN @ \cup {d} |->
                      IF e = d THEN [row EXCEPT !.views = @ + 1, !.users = @ \cup {s}] ELSE @[e]],
          !.docsCount = IF known THEN @ ELSE @ + 1,
          !.usersCount = @ + 1,
          !.number[UserOf[s]] = @ + 1,
          !.entries = @ \cup {<<s, d>>}]

\* A row goes with its last view; the entry in the user's list is looked up
\* by session and document, and the user goes with the last entry.
OnRmDoc(d, s) ==
    LET known == d \in DOMAIN console.rows
        last == known /\ console.rows[d].views = 1
        entered == <<s, d>> \in console.entries
        u == UserOf[s]
    IN [console EXCEPT
          !.rows = IF last THEN [e \in DOMAIN @ \ {d} |-> @[e]]
                   ELSE IF known THEN [@ EXCEPT ![d].views = @ - 1, ![d].users = @ \ {s}]
                   ELSE @,
          !.usersCount = IF known THEN @ - 1 ELSE @,
          !.number[u] = IF entered THEN (IF @ = 1 THEN 0 ELSE @ - 1) ELSE @,
          !.entries = IF ~entered THEN @
                      ELSE IF console.number[u] = 1 THEN @ \ EntriesOf(console, u)
                      ELSE @ \ {<<s, d>>}]

OnModifications(d, v) ==
    IF d \in DOMAIN console.rows THEN [console EXCEPT !.rows[d].modified = v] ELSE console

\* _getBasicStats, every five seconds.
GetBasicStats ==
    /\ console.page = "overview" /\ console.out = <<>> /\ toConsole = <<>> /\ "ended" \in flaws
    /\ console' = [console EXCEPT !.out = <<"counts">>]
    /\ UNCHANGED <<running, toConsole, adminTurns, flaws>>

-----------------------------------------------------------------------------
(* The charts.                                                              *)

\* _addNewData, with the size the chart is meant to have.
AddNewData(data, v, size) == Newest(Append(data, v), size)

\* The answer to a query: as many of the newest values as there is room for.
Filled(data, list) ==
    [i \in DOMAIN data |->
        LET j == i + Len(list) - Len(data) IN IF j >= 1 THEN list[j] ELSE data[i]]

\* The settings that are not named stay.
SettingOr(v, old) == IF v = Absent THEN old ELSE v

\* _initStatsData has no array to extend when it is not to reset: it throws,
\* and nothing after it is done.
Grows(size, interval) ==
    interval = console.interval /\ size > console.memSize

\* A slip: the newest values are stripped.
StrippedNewest(data, n) == IF n < Len(data) THEN SubSeq(data, 1, Len(data) - n) ELSE <<>>

Stripped(data, n) == IF n < Len(data) THEN SubSeq(data, n + 1, Len(data)) ELSE <<>>

OnSettings(m) ==
    LET size == SettingOr(m[2], console.memSize)
        interval == SettingOr(m[3], console.interval)
        net == SettingOr(m[4], console.netSize)
    IN IF Grows(size, interval) THEN [console EXCEPT !.netSize = net]
       ELSE [console EXCEPT
               !.memData = IF interval # console.interval THEN Zeros(size)
                           ELSE Stripped(@, console.memSize - size),
               !.memSize = size, !.interval = interval,
               !.netData = Zeros(net), !.netSize = net]

-----------------------------------------------------------------------------

OnSocketMessage ==
    /\ toConsole # <<>>
    /\ LET m == Head(toConsole)
           grown == m[1] = "settings" /\ Grows(SettingOr(m[2], console.memSize), SettingOr(m[3], console.interval))
       IN /\ console' =
                CASE m[1] = "documents" -> OnDocuments(m[2], m[3])
                  [] m[1] = "adddoc" -> OnAddDoc(m[2], m[3])
                  [] m[1] = "rmdoc" -> OnRmDoc(m[2], m[3])
                  [] m[1] = "modifications" -> OnModifications(m[2], m[3])
                  [] m[1] = "counts" -> [console EXCEPT !.docsCount = m[2], !.usersCount = m[3]]
                  [] m[1] = "settings" -> OnSettings(m)
                  [] m[1] = "mem_stats" -> [console EXCEPT !.memData = Filled(@, m[2])]
                  [] m[1] = "net_activity" -> [console EXCEPT !.netData = Filled(@, m[2])]
                  [] m[1] = "mem_note" -> [console EXCEPT !.memData = AddNewData(@, m[2], console.memSize)]
                  [] m[1] = "net_note" -> [console EXCEPT !.netData = AddNewData(@, m[2], console.netSize)]
          /\ flaws' =
                (IF m[1] = "counts" THEN flaws \ {"ended"} ELSE flaws)
                \cup (IF m[1] = "rmdoc" /\ m[2] \in DOMAIN console.rows /\ console.rows[m[2]].views = 1
                      THEN {"ended"} ELSE {})
                \cup (IF grown THEN {"grown"} ELSE {})
                \cup (IF m[1] = "settings" /\ ~grown /\ console.netData # Zeros(console.netSize)
                      THEN {"reset"} ELSE {})
          /\ toConsole' = Tail(toConsole)
    /\ UNCHANGED <<running, adminTurns>>

AdminNext ==
    \/ \E page \in {"overview", "analytics"} : OpenConsole(page)
    \/ \E s \in Visits : (\E d \in OpenDocs : AddDocument(s, d)) \/ RemoveView(s)
    \/ \E d \in OpenDocs : RemoveDocument(d) \/ ModificationAlert(d)
    \/ \E v \in Samples : AddMemStats(v) \/ AddNetStats(v)
    \/ \E n \in ChartSizes : SetMemStatsSize(n)
    \/ SetMemStatsInterval
    \/ HandleMessage \/ GetBasicStats \/ OnSocketMessage

AdminSpec == AdminInit /\ [][AdminNext]_adminVars

-----------------------------------------------------------------------------

AdminQuiet == toConsole = <<>> /\ console.out = <<>>

\* With nothing under way the overview has a row for each document, with its views, its users and
\* whether it is modified, and counts each user's views right, although wsd tells of expired views
\* when a document ends - unless something changed between the list and the subscription ("gap").
RowsAreTheServers ==
    AdminQuiet /\ console.page = "overview" /\ "gap" \notin flaws =>
        /\ console.rows = [d \in running.docs |->
              [views |-> Cardinality(LiveIn(d)), users |-> LiveIn(d), modified |-> d \in running.modified]]
        /\ \A u \in People : console.number[u] = Cardinality({s \in Living : UserOf[s] = u})

\* So are the totals, but that of the documents only with the next poll after a document has
\* ended ("ended").
TotalsAreTheServers ==
    AdminQuiet /\ console.page = "overview" /\ "gap" \notin flaws =>
        /\ console.usersCount = Cardinality(Living)
        /\ console.docsCount = Cardinality(running.docs) \/ "ended" \in flaws

Padded(list, n) == Filled(Zeros(n), list)

\* With nothing under way the charts show the server's samples - unless the number of samples has
\* grown, at which the page throws ("grown"), or the traffic was zeroed by a setting of the memory's
\* chart ("reset").
ChartsAreTheServers ==
    AdminQuiet /\ console.page = "analytics" /\ "grown" \notin flaws =>
        /\ console.memData = Padded(running.mem, running.memSize)
        /\ console.netData = Padded(running.net, NetSize) \/ "reset" \in flaws

=============================================================================
