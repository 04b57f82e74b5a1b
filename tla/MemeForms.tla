------------------------------- MODULE MemeForms -------------------------------
(***************************************************************************)
(* The texts of memes on their way through the meme application: what      *)
(* users type, the body their browser makes of it, what parseRequestBody   *)
(* reads (meme_handler.cc:251-327), what is stored, the edit form and the  *)
(* search page made of that.  A body may be cut off anywhere, since a      *)
(* session reads to the end of the header only.                            *)
(*                                                                         *)
(* MemeVault has the table over time, with tokens, deletions, failures and *)
(* restarts, and texts that are never looked into; here there are only     *)
(* posts, searches, and edits by users who have the token.                 *)
(***************************************************************************)
EXTENDS UrlText

CONSTANTS
    Fills,      \* what users type into forms: [name, top, bottom, image, deepfry]
    Terms,      \* what users search for
    IdTexts,    \* a sequence: the ids memes get, as text
    MaxPosts    \* bound on posts

\* Nothing that a body is made of.
Bare(text) == \A i \in DOMAIN text : text[i] \notin {"&", "=", "%", "+"}

ASSUME PostBound == MaxPosts \in Nat /\ MaxPosts <= Len(IdTexts)
\* Users write what they like; an image is one of the file names that the pages list.
ASSUME FillShape ==
    \A fill \in Fills :
        /\ fill \in [name : Seq(STRING), top : Seq(STRING), bottom : Seq(STRING),
                     image : Seq(STRING), deepfry : BOOLEAN]
        /\ Bare(fill.image) /\ ~Has(fill.image, <<"meme_templates/">>)
ASSUME TermShape == Terms \subseteq Seq(STRING)
\* Ids have one width: for what happens when they get longer, see MemeVault.
ASSUME IdShape ==
    /\ IdTexts \in Seq(Seq(STRING)) /\ \A i \in DOMAIN IdTexts : Bare(IdTexts[i])
    /\ \A i, j \in DOMAIN IdTexts : IsPrefix(IdTexts[i], IdTexts[j]) => i = j

VARIABLES
    memes,      \* id -> the stored texts
    form,       \* the form a user has open
    posts,      \* posts so far
    up,         \* whether the process runs
    last        \* the last request: what it was, the form or the term, the answer

vars == <<memes, form, posts, up, last>>

Texts == {"name", "top", "bottom"}       \* the fields users write in
Stored == Texts \cup {"image"}
NoForm == [id |-> << >>, typed |-> FALSE, fill |-> << >>]
Nothing == [op |-> "none", form |-> NoForm, id |-> << >>, found |-> {}]

TypeOK ==
    /\ \A id \in DOMAIN memes : DOMAIN memes[id] = Stored
    /\ form.typed \in BOOLEAN
    /\ form.id \in DOMAIN memes \cup {<< >>}
    /\ posts \in 0 .. MaxPosts
    /\ up \in BOOLEAN
    /\ last.op \in {"none", "edit page", "post", "cut", "search"}
    /\ last.found \subseteq DOMAIN memes

------------------------------------------------------------------------------
\* The browser.

\* The value of a field in a body.
Encoded(text) ==
    FlattenSeq([i \in DOMAIN text |->
        IF text[i] = " " THEN <<"+">>
        ELSE IF text[i] \in DOMAIN CodeOf THEN <<"%", CodeOf[text[i]]>>
        ELSE <<text[i]>>])

\* What a text in a page stands for.  The entity for a space is a hard space,
\* and browsers do without the semicolon.
Shown(text) ==
    LET EntityAt(i) == /\ i < Len(text) /\ text[i] = "&"
                       /\ text[i + 1] \in Range(Entities)
        from[i \in 1 .. Len(text) + 2] ==
            IF i > Len(text) THEN << >>
            ELSE IF EntityAt(i)
                 THEN <<IF text[i + 1] = "nbsp" THEN "hard" ELSE Meaning(text[i + 1])>>
                      \o from[IF IsAt(text, i + 2, <<";">>) THEN i + 3 ELSE i + 2]
            ELSE <<text[i]>> \o from[i + 1]
    IN  from[1]
\* A hard space looks like any other.
Softened(text) == ReplacedAll(text, <<"hard">>, <<" ">>)
Visible(text) == Softened(Shown(text))

\* The value of an input, which the first quote ends.
InputValue(text) == Shown(SubSeq(text, 1, SelectInSeq(text \o <<"\"">>,
                                                      LAMBDA s : s = "\"") - 1))

Item(key, value) == <<"&", key, "=">> \o value
MutantBody(f) ==                         \* the hidden inputs first
    Tail(Item("posttype", <<IF f.id = << >> THEN "new" ELSE "edit">>)
         \o Item("meme_id", IF f.id = << >> THEN IdTexts[1] ELSE f.id)
         \o Item("name", Encoded(f.fill.name)) \o Item("image", f.fill.image)
         \o (IF f.fill.deepfry THEN Item("deepfry", <<"True">>) ELSE << >>)
         \o Item("top", Encoded(f.fill.top)) \o Item("bottom", Encoded(f.fill.bottom)))
\* The inputs of create.html and edit.html in their order.
Body(f) ==
    Tail(Item("name", Encoded(f.fill.name)) \o Item("image", f.fill.image)
         \o (IF f.fill.deepfry THEN Item("deepfry", <<"True">>) ELSE << >>)
         \o Item("top", Encoded(f.fill.top)) \o Item("bottom", Encoded(f.fill.bottom))
         \o Item("posttype", <<IF f.id = << >> THEN "new" ELSE "edit">>)
         \o Item("meme_id", IF f.id = << >> THEN IdTexts[1] ELSE f.id))

------------------------------------------------------------------------------
\* parseRequestBody.

KeyValue(item) == Split(item, {"="})

\* After decoding: the first "%2F" that is still there, and every plus.
Plain(text) ==
    ReplacedAll(ReplacedFirst(text, <<"%", "2F">>, <<"/">>), <<"+">>, <<" ">>)

\* The map of the items up to the first that is not a key and a value.
MutantItems(body) == Split(UrlDecode(body), {"&"})   \* decoded before it is split
Items(body) == Split(body, {"&"})
FirstOdd(items) == SelectInSeq(items, LAMBDA i : Len(KeyValue(i)) # 2)
MapOf(items) ==
    [key \in Stored \cup {"deepfry", "posttype", "meme_id"} |->
        LET at == SelectLastInSeq(items, LAMBDA i : KeyValue(i)[1] = <<key>>)
        IN  IF at = 0 THEN << >> ELSE Plain(UrlDecode(KeyValue(items[at])[2]))]

\* Only a body that is whole gets its image path and its texts encoded.
Finished(map) ==
    [key \in DOMAIN map |->
        CASE key \in Texts -> HtmlEncode(map[key])
          [] key = "image" -> <<"meme_templates/">>
                \o (IF map.deepfry = <<"True">> THEN <<"df-">> ELSE << >>) \o map.image
          [] OTHER -> map[key]]

\* A short body with "access" in it is taken for one with an access token.
ParseRequestBody(body) ==
    LET items == Items(body)
        odd   == FirstOdd(items)
        first == KeyValue(items[1])
    IN  IF Len(items) < 3
        THEN IF Has(body, <<"access">>)
             THEN [MapOf(<< >>) EXCEPT ![first[1][1]] = first[2]] ELSE MapOf(<< >>)
        ELSE IF odd = 0 THEN Finished(MapOf(items))
        ELSE MapOf(SubSeq(items, 1, odd - 1))

\* key_value[1] of an item without "=".
OutOfRange(body) ==
    LET items == Items(body)
    IN  /\ Len(items) >= 3 /\ FirstOdd(items) # 0
        /\ Len(KeyValue(items[FirstOdd(items)])) = 1

------------------------------------------------------------------------------
\* Pages.

\* boost::replace_all puts the fields into a page one after the other, so that
\* what one field has of a later one's placeholder is replaced as well.
LaterFields == [name  |-> <<"image", "top", "bottom">>, image  |-> <<"top", "bottom">>,
                top   |-> <<"bottom">>,                 bottom |-> << >>]
Placeholder == [name |-> "meme_object_name", image |-> "meme_object_img",
                top  |-> "meme_object_top", bottom |-> "meme_object_bot"]
InPage(row, field) ==
    FoldLeft(LAMBDA text, f : ReplacedAll(text, <<Placeholder[f]>>, row[f]),
             row[field], LaterFields[field])

\* The fields of an edit form, with what the script of edit.html does to select
\* the image.
EditFill(meme) ==
    LET row   == [key \in Stored |-> IF key = "image" THEN meme.image
                                                      ELSE HtmlDecode(meme[key])]
        image == IF Has(meme.image, <<"meme_templates/">>)
                 THEN Tail(meme.image) ELSE meme.image
        fried == image # << >> /\ image[1] = "df-"
    IN  [name    |-> InputValue(InPage(row, "name")),
         top     |-> InputValue(InPage(row, "top")),
         bottom  |-> InputValue(InPage(row, "bottom")),
         image   |-> IF fried THEN Tail(image) ELSE image,
         deepfry |-> fried]

------------------------------------------------------------------------------
\* Requests.

CreatePage ==
    /\ up /\ form = NoForm
    /\ \E fill \in Fills : form' = [id |-> << >>, typed |-> TRUE, fill |-> fill]
    /\ last' = Nothing
    /\ UNCHANGED <<memes, posts, up>>

EditPage(id) ==
    /\ up /\ form = NoForm /\ id # << >>
    /\ form' = [id |-> id, typed |-> FALSE, fill |-> EditFill(memes[id])]
    /\ last' = Nothing
    /\ UNCHANGED <<memes, posts, up>>

\* The user writes over what the edit form has.
Retype ==
    /\ up /\ form.id # << >> /\ ~form.typed
    /\ \E fill \in Fills : form' = [form EXCEPT !.typed = TRUE, !.fill = fill]
    /\ UNCHANGED <<memes, posts, up, last>>

\* checkform: every text is there, and an image is selected.
Checked(f) == f # NoForm /\ \A key \in Stored : f.fill[key] # << >>

\* The id after the greatest one, and the ids that are cut are less than those
\* they were cut from.
NextId == IdTexts[1 + Cardinality({i \in DOMAIN IdTexts : IdTexts[i] \in DOMAIN memes})]
MutantRow(map) == map                    \* every field of the form is stored
Row(map) == [key \in Stored |-> map[key]]

\* The POST branch of HandleRequest, with AddToDatabase's INSERT OR REPLACE.
Post(op, body) ==
    LET map == ParseRequestBody(body)
        id  == IF map.posttype = <<"edit">> THEN map.meme_id ELSE NextId
    IN  /\ up /\ posts < MaxPosts
        /\ posts' = posts + 1
        /\ form' = NoForm
        /\ \/ /\ memes' = [i \in DOMAIN memes \cup {id} |->
                              IF i = id THEN Row(map) ELSE memes[i]]
              /\ last' = [op |-> op, form |-> form, id |-> id, found |-> {}]
              /\ UNCHANGED up
           \/ /\ OutOfRange(body)
              /\ up' = FALSE
              /\ last' = [Nothing EXCEPT !.op = op]
              /\ UNCHANGED memes

Submit == Checked(form) /\ Post("post", Body(form))
SubmitCut == /\ Checked(form)
             /\ \E n \in 0 .. Len(Body(form)) - 1 : Post("cut", SubSeq(Body(form), 1, n))

\* LIKE: a percent sign stands for any text.  An underscore, which stands for one
\* character, and the case of letters are left out.
Like(text, pattern) ==
    LET from[i \in 1 .. Len(pattern) + 1] ==  \* where the rest of the pattern fits
            IF i > Len(pattern) THEN {Len(text) + 1}
            ELSE LET after == from[i + 1]
                 IN  {j \in 1 .. Len(text) + 1 : \E k \in after :
                         \/ pattern[i] = "%" /\ j <= k
                         \/ pattern[i] # "%" /\ k = j + 1 /\ pattern[i] = text[j]}
    IN  1 \in from[1]

MutantSearchTerm(q) == HtmlDecode(UrlDecode(ReplacedAll(q, <<"+">>, <<" ">>)))
\* MemeSearch and SearchFromDatabase: memes are searched as they are stored.
SearchTerm(q) == HtmlEncode(HtmlDecode(UrlDecode(ReplacedAll(q, <<"+">>, <<" ">>))))
Found(term) ==
    LET pattern == <<"%">> \o SearchTerm(Encoded(term)) \o <<"%">>
    IN  {id \in DOMAIN memes : \E key \in Texts : Like(memes[id][key], pattern)}

Search ==
    /\ up /\ form = NoForm
    /\ \E term \in Terms :
           last' = [op |-> "search", form |-> [NoForm EXCEPT !.fill = term],
                    id |-> << >>, found |-> Found(term)]
    /\ UNCHANGED <<memes, form, posts, up>>

Init ==
    /\ memes = << >>
    /\ form = NoForm
    /\ posts = 0
    /\ up = TRUE
    /\ last = Nothing

Next ==
    \/ CreatePage \/ Retype \/ Submit \/ SubmitCut \/ Search
    \/ \E id \in DOMAIN memes : EditPage(id)

Spec == Init /\ [][Next]_vars

------------------------------------------------------------------------------
\* Properties.

NamesEntity(text) == \E i \in DOMAIN text : /\ i < Len(text) /\ text[i] = "&"
                                            /\ text[i + 1] \in Range(Entities)
HasPlaceholder(text) == Range(text) \cap Range(Placeholder) # {}

\* Texts that no replacement of the code changes by mistake.
Tame(text) == /\ ~Has(text, <<"+">>) /\ ~Has(text, <<"%", "2F">>)
              /\ ~HasPlaceholder(text)

\* A meme that was posted whole looks as it was typed, with whatever of
\* ampersands, quotes, percent signs and tags the user wrote (parseRequestBody
\* decodes after it splits and encodes before it stores, meme_handler.cc:280-322),
\* under the image that was selected, and an edit under the id it was made for;
\* and no form a browser sends whole makes the parser read past an item.
ShownAsTyped ==
    last.op = "post" =>
        LET fill == last.form.fill
            row  == memes[last.id]
        IN  /\ up
            /\ \A key \in Texts :
                   Tame(fill[key]) => Visible(InPage(row, key)) = Softened(fill[key])
            /\ row.image = <<"meme_templates/">>
                           \o (IF fill.deepfry THEN <<"df-">> ELSE << >>) \o fill.image
            /\ last.form.id \in {<< >>, last.id}

\* The texts that htmlDecode and the value of an input give back as they are.
Returned(text) == Tame(text) /\ ~Has(text, <<"\"">>) /\ ~NamesEntity(text)

\* An edit form that is sent as it came changes nothing: what MemeEdit decodes
\* (meme_handler.cc:649-654) is what the post encodes again.
EditKeepsText ==
    [][ LET row == memes[form.id]
        IN  (/\ form.id # << >> /\ ~form.typed
             /\ posts' # posts /\ last'.op = "post"
             /\ Has(row.image, <<"meme_templates/">>)
             /\ \A key \in Texts : Returned(Visible(row[key])))
            => memes' = memes ]_vars

\* A search finds every meme that was posted whole and shows the term in one of
\* its texts, unless a hard space from an edit form is in there (MemeSearch and
\* SearchFromDatabase encode the term once more than they decode it,
\* meme_handler.cc:562-565, :879).
SearchFinds ==
    last.op = "search" /\ ~NamesEntity(last.form.fill) =>
        \A id \in DOMAIN memes, key \in Texts :
            (/\ Has(memes[id].image, <<"meme_templates/">>)
             /\ Has(Visible(memes[id][key]), last.form.fill)
             /\ ~Has(memes[id][key], <<"hard">>))
            => id \in last.found

\* A post that is cut off anywhere may add a meme, and leaves those that are there
\* as they were: the id is the last field of the forms, so an edit that lost
\* something lost a part of its id.
CutNeverEdits ==
    [][ last'.op = "cut" => \A id \in DOMAIN memes \cap Range(IdTexts) :
                                memes'[id] = memes[id] ]_vars
==============================================================================
