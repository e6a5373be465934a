------------------------------- MODULE Forms --------------------------------
(***************************************************************************)
(* What the pages show of an object and of the settings, and how an edit   *)
(* at one page reaches the others: ObjectSettings, Settings, MumbleStatus  *)
(* and RemoteStatus (web/src/components), each over a channel of its own   *)
(* that SetupChannel opens again with the socket, and the Map, as far as   *)
(* it shows the same object; the websocket handler, which applies an       *)
(* update to the state and then tells it to every page, the page it came   *)
(* from too (mumbler/src/web/ws.rs, backend.rs).                           *)
(*                                                                         *)
(* An update holds some cells, in order. Of the settings there is one. The *)
(* object's image is taken with the module Upload, at one of the forms.    *)
(***************************************************************************)
EXTENDS Upload, SequencesExt

CONSTANTS
    Page, View,
    PageOf, KindOf,     \* where each view is, and what: "map", "form" or "status"
    Cropper,            \* the form at which an image may be uploaded
    Choice,             \* what may be typed or chosen in each cell of each view
    First               \* what the cells hold at first

Cell == {"hidden", "height", "width", "ratio", "image", "setting"}

ASSUME FormsAssumption ==
    /\ PageOf \in [View -> Page] /\ KindOf \in [View -> {"map", "form", "status"}]
    /\ Cropper \in View /\ KindOf[Cropper] = "form"
    /\ DOMAIN First = Cell /\ First["ratio"] \in Ratio
    /\ DOMAIN Choice = View
    /\ \A v \in View : DOMAIN Choice[v] = Cell /\ Choice[v]["ratio"] \subseteq Ratio

VARIABLES
    kept,       \* the backend's state
    saved,      \* the setting, in the database
    unsaved,    \* local_updates of each connection: a setting, or None
    said,       \* history: the last that was told of each cell, unless what was applied
                \* after it was lost before it was told
    open,       \* the pages whose socket is open
    up,         \* requests of each page
    telling,    \* what its handler has applied and still has to tell
    down,       \* what is on its way to each page: broadcasts, and answers
    view        \* the views: their channel, what they show, and
                \* history: the cells in which they may stay wrong

formVars == <<kept, saved, unsaved, said, open, up, telling, down, view>>

Cells(v) == IF KindOf[v] = "status" THEN {"setting"} ELSE Cell \ {"setting"}

(* A cell alone, and some cells over others. *)
Just(c, x) == [d \in {c} |-> x]

Over(f, g) == [c \in DOMAIN f \cup DOMAIN g |-> IF c \in DOMAIN f THEN f[c] ELSE g[c]]

(* What is shown of the object, or of the settings. *)
Of(v) == view[v].shown

-----------------------------------------------------------------------------
(* What a view sends. Over the channel it has while the socket is closed, nothing is sent. *)

Update(v, sets) == [kind |-> "update", from |-> v, sets |-> sets]

Get(v) == [kind |-> "get", from |-> v, live |-> TRUE]

Send(v, requests) ==
    up' = IF view[v].channel = "open" THEN [up EXCEPT ![PageOf[v]] = @ \o requests] ELSE up

(* A view shows `cells`, and sends `requests`. *)
Edit(v, cells, requests) ==
    /\ view' = [view EXCEPT ![v].shown = Over(cells, @), ![v].off = @ \ DOMAIN cells]
    /\ Send(v, requests)
    /\ UNCHANGED <<kept, saved, unsaved, said, open, telling, down>>

Mounted(v) == view[v].channel # "none"

(* A cell of its own is shown at once, and sent if it is another. *)
Change(v, c, x) ==
    /\ Stroke
    /\ Mounted(v)
    /\ x # Of(v)[c]
    /\ Edit(v, Just(c, x), <<Update(v, <<<<c, x>>>>)>>)

(* Settings: a name, a server and so on, which are kept also where they cannot be sent. *)
SettingChanged(v, x) == KindOf[v] = "status" /\ Change(v, "setting", x)

(* MumbleStatus: not without a channel. *)
Toggle(v) == view[v].channel = "open" /\ SettingChanged(v, ~Of(v).setting)

(* The Map's list of objects. *)
ToggleHidden(v, x) == KindOf[v] = "map" /\ Change(v, "hidden", x)

Form(v) == KindOf[v] = "form" /\ Mounted(v)

(* BooleanChanged; so do ExtentChanged and ColorChanged. *)
BooleanChanged(v, x) == Form(v) /\ Change(v, "hidden", x)

(* FloatChanged. At a fixed ratio the other side follows, and goes first. *)
FloatChanged(v, c, x) ==
    LET r == Of(v).ratio
        other == IF c = "height" THEN "width" ELSE "height"
        follows == IF c = "height" THEN x * r ELSE x \div r
        first == IF r = None THEN <<>> ELSE <<Update(v, <<<<other, follows>>>>)>>
        last == IF Of(v)[c] = x THEN <<>> ELSE <<Update(v, <<<<c, x>>>>)>>
    IN  /\ Stroke
        /\ Form(v) /\ c \in {"height", "width"}
        /\ Edit(v, IF r = None THEN Just(c, x) ELSE Over(Just(c, x), Just(other, follows)), first \o last)

(* FixedRatioChanged. *)
FixedRatioChanged(v, r) ==
    /\ Stroke
    /\ Form(v) /\ scales
    /\ r = IF Of(v).ratio = None THEN Of(v).width \div Of(v).height ELSE None
    /\ Edit(v, Just("ratio", r), <<Update(v, <<<<"ratio", r>>>>)>>)

(* Ratio: what Rescale of the Crop makes of the object. *)
RatioTaken(v, r) ==
    LET width == Of(v).height * r
        same == Of(v).ratio = r /\ Of(v).width = width
        update == Update(v, <<<<"ratio", r>>, <<"width", width>>>>)
    IN  Edit(v, Over(Just("ratio", r), Just("width", width)), IF same THEN <<>> ELSE <<update>>)

(* ImageChanged: only the image that is shown is sent, any other is only shown. *)
ImageChanged(v, i) ==
    /\ view' = [view EXCEPT ![v].shown["image"] = i,
                            ![v].off = IF Of(v).image = i THEN @ ELSE @ \cup {"image"}]
    /\ IF Of(v).image = i THEN Send(v, <<Update(v, <<<<"image", i>>>>)>>) ELSE UNCHANGED up
    /\ UNCHANGED <<kept, saved, unsaved, said, open, telling, down>>

(* RemoteIdChanged: a room's background is sent as any other cell. *)
RemoteIdChanged(v, i) ==
    Edit(v, Just("image", i), IF Of(v).image = i THEN <<>> ELSE <<Update(v, <<<<"image", i>>>>)>>)

(* Any proportion will do for a background, and it asks for none. *)
Take(v, i) == IF ~scales /\ ratio = None THEN RemoteIdChanged(v, i) ELSE ImageChanged(v, i)

SelectImage(v, i) ==
    /\ Stroke
    /\ Form(v)
    /\ Take(v, i)

-----------------------------------------------------------------------------
(* Channels. *)

Listens(v) == view[v].channel \in {"lost", "open"}

(* SetupChannel opens a channel, and the view asks what there is. *)
ChannelOpen(v) ==
    /\ PageOf[v] \in open /\ view[v].channel \in {"new", "lost"}
    /\ view' = [view EXCEPT ![v].channel = "open"]
    /\ up' = [up EXCEPT ![PageOf[v]] = Append(@, Get(v))]
    /\ UNCHANGED <<kept, saved, unsaved, said, open, telling, down>>

(* What a view had asked, and what it is answered, is not heard any more. *)
Unheard(v, messages) ==
    [i \in DOMAIN messages |->
        IF messages[i].kind \in {"get", "answer"} /\ messages[i].from = v
        THEN [messages[i] EXCEPT !.live = FALSE] ELSE messages[i]]

(* A view is closed, and its channel with it. *)
Unmount(v) ==
    /\ Slash
    /\ KindOf[v] # "map" /\ Mounted(v)
    /\ view' = [view EXCEPT ![v] = [channel |-> "none", shown |-> First, off |-> {}]]
    /\ up' = [up EXCEPT ![PageOf[v]] = Unheard(v, @)]
    /\ down' = [down EXCEPT ![PageOf[v]] = Unheard(v, @)]
    /\ UNCHANGED <<kept, saved, unsaved, said, open, telling>>

Mount(v) ==
    /\ ~Mounted(v)
    /\ view' = [view EXCEPT ![v].channel = "new"]
    /\ UNCHANGED <<kept, saved, unsaved, said, open, up, telling, down>>

(* Mutation: the views are not told. *)
DeprivedNot(q) == view

(* SetupChannel gives the views of a page the channel that is none. *)
Deprived(q) ==
    [v \in View |->
        IF PageOf[v] = q /\ view[v].channel = "open"
        THEN [view[v] EXCEPT !.channel = "lost"] ELSE view[v]]

(* The socket is closed, and the connection's task ends, between any two of its awaits. What
   it applied to the settings it tells in the same breath. *)
Lose(q) ==
    /\ Slash
    /\ q \in open
    /\ \A i \in DOMAIN telling[q] : telling[q][i].cell # "setting"
    /\ open' = open \ {q}
    /\ up' = [up EXCEPT ![q] = <<>>] /\ telling' = [telling EXCEPT ![q] = <<>>]
    /\ down' = [down EXCEPT ![q] = <<>>] /\ unsaved' = [unsaved EXCEPT ![q] = None]
    /\ view' = Deprived(q)
    /\ said' = [c \in DOMAIN said \ {m.cell : m \in ToSet(telling[q])} |-> said[c]]
    /\ UNCHANGED <<kept, saved>>

Join(q) ==
    /\ q \notin open
    /\ open' = open \cup {q}
    /\ UNCHANGED <<kept, saved, unsaved, said, up, telling, down, view>>

-----------------------------------------------------------------------------
(* The handler of a connection, one request after the other. *)

Broadcast(v, set) == [kind |-> "broadcast", from |-> v, cell |-> set[1], value |-> set[2]]

(* Backend::object_update and updates: what is set is in the state before it is told. *)
Apply(q) ==
    /\ up[q] # <<>> /\ telling[q] = <<>>
    /\ LET m == Head(up[q])
       IN  /\ m.kind = "update"
           /\ kept' = [c \in Cell |->
                          IF \E i \in DOMAIN m.sets : m.sets[i][1] = c
                          THEN (CHOOSE s \in ToSet(m.sets) : s[1] = c)[2] ELSE kept[c]]
           /\ telling' = [telling EXCEPT ![q] = [i \in DOMAIN m.sets |-> Broadcast(m.from, m.sets[i])]]
    /\ up' = [up EXCEPT ![q] = Tail(@)]
    /\ UNCHANGED <<saved, unsaved, said, open, down, view>>

(* Backend::broadcast, of one cell. A setting is then left for the database. *)
Tell(q) ==
    /\ telling[q] # <<>>
    /\ LET m == Head(telling[q])
       IN  /\ said' = Over(Just(m.cell, m.value), said)
           /\ down' = [p \in Page |-> IF p \in open THEN Append(down[p], m) ELSE down[p]]
           /\ unsaved' = IF m.cell = "setting" THEN [unsaved EXCEPT ![q] = m.value] ELSE unsaved
    /\ telling' = [telling EXCEPT ![q] = Tail(@)]
    /\ UNCHANGED <<kept, saved, open, up, view>>

(* GetObjectSettings and Initialize read the state, GetConfig the database. *)
Known(v) == IF KindOf[v] = "status" THEN Just("setting", saved) ELSE [c \in Cells(v) |-> kept[c]]

(* The answer goes out before the broadcasts the task has not taken up by then, and after
   the answers before it. *)
Answer(q) ==
    /\ up[q] # <<>> /\ telling[q] = <<>> /\ Head(up[q]).kind = "get"
    /\ LET v == Head(up[q]).from
       IN  \E i \in 1..Len(down[q]) + 1 :
               /\ \A j \in i..Len(down[q]) : down[q][j].kind = "broadcast"
               /\ down' = [down EXCEPT ![q] =
                              InsertAt(@, i, [kind |-> "answer", from |-> v, live |-> Head(up[q]).live,
                                              cells |-> Known(v)])]
    /\ up' = [up EXCEPT ![q] = Tail(@)]
    /\ UNCHANGED <<kept, saved, unsaved, said, open, telling, view>>

(* The debounce timer of the connection. *)
Save(q) ==
    /\ unsaved[q] # None
    /\ saved' = unsaved[q]
    /\ unsaved' = [unsaved EXCEPT ![q] = None]
    /\ UNCHANGED <<kept, said, open, up, telling, down, view>>

-----------------------------------------------------------------------------
(* What a view hears. *)

(* An update of its own, of the cell, is under way. *)
Owing(v, c) ==
    LET q == PageOf[v]
    IN  \/ \E m \in ToSet(up[q]) : m.kind = "update" /\ m.from = v /\ \E s \in ToSet(m.sets) : s[1] = c
        \/ \E m \in ToSet(telling[q]) \cup ToSet(Tail(down[q])) :
               m.kind = "broadcast" /\ m.from = v /\ m.cell = c

(* Mutation: the Map leaves alone whatever its page sent. *)
HeedsOthers(v, m) ==
    /\ Listens(v) /\ m.cell \in Cells(v)
    /\ ~(KindOf[v] = "map" /\ PageOf[m.from] = PageOf[v])

(* Mutation: a form leaves alone what it sent. *)
HeedsForeign(v, m) == Listens(v) /\ m.cell \in Cells(v) /\ m.from # v

(* The Map leaves alone what it sent itself; a form takes it. *)
Heeds(v, m) ==
    /\ Listens(v) /\ m.cell \in Cells(v)
    /\ ~(KindOf[v] = "map" /\ m.from = v)

(* A Map that hears of a cell of which it is to send, shows what it hears, and does not
   heed its own when that comes to be the last. *)
Heard(v, m) ==
    IF Heeds(v, m)
    THEN [view[v] EXCEPT
             !.shown[m.cell] = m.value,
             !.off = IF KindOf[v] = "map" /\ Owing(v, m.cell) THEN @ \cup {m.cell} ELSE @ \ {m.cell}]
    ELSE view[v]

(* The state as it was read; the database may be behind. *)
Answered(v, m) ==
    [view[v] EXCEPT
        !.shown = Over(m.cells, @),
        !.off = {c \in Cells(v) :
                    CASE KindOf[v] = "map" -> Owing(v, c)
                      [] KindOf[v] = "status" -> m.cells[c] # kept[c]
                      [] OTHER -> FALSE}]

Hear(q) ==
    /\ down[q] # <<>>
    /\ LET m == Head(down[q])
       IN  view' = [v \in View |->
                       CASE m.kind = "broadcast" /\ PageOf[v] = q -> Heard(v, m)
                         [] m.kind = "answer" /\ m.from = v /\ m.live -> Answered(v, m)
                         [] OTHER -> view[v]]
    /\ down' = [down EXCEPT ![q] = Tail(@)]
    /\ UNCHANGED <<kept, saved, unsaved, said, open, up, telling>>

-----------------------------------------------------------------------------
Init ==
    /\ UploadInit
    /\ kept = [First EXCEPT !.ratio = IF scales THEN ratio ELSE None]
    /\ saved = kept["setting"] /\ said = kept
    /\ unsaved = [q \in Page |-> None]
    /\ open = Page
    /\ up = [q \in Page |-> <<>>] /\ telling = up /\ down = up
    /\ view = [v \in View |-> [channel |-> "open", shown |-> kept, off |-> {}]]

(* The Crop has the ratio of its form. *)
Shows == ratio' = IF scales THEN view'[Cropper].shown["ratio"] ELSE ratio

cropVars == <<source, data, uploading, drag, scales, loaded, dragging, grip, empty, origin>>

Edits ==
    \E v \in View :
        \/ \E x \in Choice[v]["hidden"] : ToggleHidden(v, x) \/ BooleanChanged(v, x)
        \/ \E x \in Choice[v]["setting"] : SettingChanged(v, x)
        \/ KindOf[v] = "status" /\ Toggle(v)
        \/ \E c \in {"height", "width"} : \E x \in Choice[v][c] : FloatChanged(v, c, x)
        \/ \E r \in Choice[v]["ratio"] : FixedRatioChanged(v, r)
        \/ \E i \in Choice[v]["image"] : SelectImage(v, i)
        \/ v # Cropper /\ Unmount(v)

Serves ==
    \/ \E v \in View : ChannelOpen(v) \/ Mount(v)
    \/ \E q \in Page : Join(q) \/ Apply(q) \/ Tell(q) \/ Answer(q) \/ Save(q) \/ Hear(q)

Next ==
    \/ Edits /\ Shows /\ UNCHANGED cropVars
    \/ Serves /\ Shows /\ UNCHANGED <<cropVars, strokes>>
    \/ \E q \in Page :
        /\ Lose(q) /\ Shows
        /\ uploading' = (uploading /\ q # PageOf[Cropper])
        /\ UNCHANGED <<source, data, drag, scales, loaded, dragging, grip, empty, origin>>
    \/ Unmount(Cropper) /\ Gone /\ Shows
    \/ /\ Mounted(Cropper) /\ CropNext
       /\ uploading' => uploading \/ PageOf[Cropper] \in open
       /\ UNCHANGED formVars
    \/ Rescale /\ RatioTaken(Cropper, ratio')
    \/ \E i \in Choice[Cropper]["image"] : Uploaded /\ Take(Cropper, i)

vars == <<formVars, uploadVars>>

Spec == Init /\ [][Next]_vars

-----------------------------------------------------------------------------
TypeOK ==
    /\ UploadType
    /\ DOMAIN kept = Cell /\ DOMAIN said \subseteq Cell
    /\ open \subseteq Page
    /\ \A q \in Page :
        /\ \A m \in ToSet(up[q]) : m.from \in View /\ PageOf[m.from] = q
        /\ q \notin open => up[q] = <<>> /\ telling[q] = <<>> /\ down[q] = <<>>
    /\ \A v \in View :
        /\ view[v].channel \in {"none", "new", "lost", "open"}
        /\ view[v].channel = "open" => PageOf[v] \in open
        /\ DOMAIN view[v].shown = Cell /\ view[v].off \subseteq Cells(v)

Quiet == \A q \in Page : up[q] = <<>> /\ telling[q] = <<>> /\ down[q] = <<>>

(* A view shows what the backend has, where that is what was told last. *)
Current(v) ==
    \A c \in (Cells(v) \cap DOMAIN said) \ view[v].off : said[c] = kept[c] => Of(v)[c] = kept[c]

(* Once nothing is under way the Map shows the object as the backend has it, whoever edited
   it, the forms on its own page too: it leaves alone only what it sent over its own channel. *)
InStep == Quiet => \A v \in View : KindOf[v] = "map" /\ view[v].channel = "open" => Current(v)

(* And so do the forms, which take what they sent back from the backend: an edit that another
   page's update crossed, or the answer to the first question, is corrected by its echo. *)
FormsSettle == Quiet => \A v \in View : KindOf[v] # "map" /\ view[v].channel = "open" => Current(v)
=============================================================================
