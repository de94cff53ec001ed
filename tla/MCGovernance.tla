---------------------------- MODULE MCGovernance ----------------------------
(* Instances for RouteGovernance.                                          *)
EXTENDS RouteGovernance, Sequences

Entry(id, c, channel, protocol, group, caps, files) ==
  [id |-> id, conn |-> c, channel |-> channel, protocol |-> protocol, group |-> group,
   caps |-> caps, files |-> files, reject |-> FALSE, managed |-> FALSE]

Native == Entry("native", "nat", "hub", "gemini_native", "g", {"text", "image"}, FALSE)
Alien  == Entry("alien", "alt", "hub", "chat_completions", "g", {"text", "image"}, FALSE)
Chat   == Entry("chat", "cht", "hub", "chat_completions", "g", {"text"}, FALSE)
Direct == Entry("direct", "dir", "own", "responses", Nothing, {"text", "image"}, TRUE)

\* The second build speaks another protocol on the direct connection, and its
\* entry there forbids what ranks below.  Its adapter for the chat connection
\* is a wrong one.
Later == [Direct EXCEPT !.protocol = "chat_completions", !.reject = TRUE]

Plane  == [one |-> <<Native, Alien, Chat, Direct>>, two |-> <<Native, Alien, Chat, Later>>]
Wires  == [one |-> [nat |-> "gemini_native", alt |-> "chat_completions",
                    cht |-> "chat_completions", dir |-> "responses"],
           two |-> [nat |-> "gemini_native", alt |-> "chat_completions",
                    cht |-> "responses", dir |-> "chat_completions"]]
Owners == [nat |-> "ours", cht |-> "ours", dir |-> "ours", alt |-> "theirs"]

Fine == [nat |-> "ok", alt |-> "ok", cht |-> "ok", dir |-> "ok"]
Row(o, env, on, r) == [offering |-> o, env |-> env, on |-> on, reject |-> r]

\* The workbook with native first or last, forbidding or not, elsewhere,
\* unpublished and suspended.
SheetOf(i, rows) == [intent |-> i, needs |-> {"text"}, rows |-> rows]
Books ==
  {SheetOf("published", <<Row("native", "here", TRUE, r), Row("direct", "here", TRUE, FALSE)>>) : r \in BOOLEAN}
  \cup {SheetOf("published", <<Row("direct", "here", TRUE, FALSE), Row("native", "here", on, FALSE)>>) : on \in BOOLEAN}
  \cup {SheetOf("suspended", <<Row("native", "here", FALSE, FALSE)>>),
        SheetOf("unpublished", <<Row("native", "here", FALSE, FALSE)>>),
        SheetOf("published", <<Row("native", "there", FALSE, FALSE)>>)}
Drafts == {SheetOf("published", <<Row("native", "here", TRUE, TRUE)>>),
           SheetOf("suspended", <<Row("native", "here", FALSE, FALSE)>>)}
Certified == {{"native", "direct"}, {"native"}}
Troubles  == {Fine, [Fine EXCEPT !.nat = "disabled"], [Fine EXCEPT !.dir = "no_files"]}
Ask(n, c, h) == [needs |-> n, channels |-> c, hint |-> h]
Plain     == {Ask({"text"}, {}, "auto"), Ask({"image"}, {"own"}, "auto")}

\* The built-in plane and its groups, in all conditions.
NoBook   == {SheetOf("unpublished", <<>>)}
Varied   == {[nat |-> n, alt |-> "ok", cht |-> c, dir |-> d] :
               n \in {"ok", "disabled", "unconfigured"}, c \in {"ok", "unregistered"},
               d \in {"ok", "no_files", "unregistered"}}
Everyone == {Ask(n, c, h) : n \in {{"text"}, {"image"}, {"video"}},
                            c \in {{}, {"hub"}, {"own"}}, h \in {"auto", "native", "text"}}

Managing == [sheets |-> Books, registries |-> Certified, conditions |-> Troubles,
           requests |-> Plain, files |-> 1]
Review == [sheets |-> Drafts, registries |-> Certified, conditions |-> {Fine},
           requests |-> Plain, files |-> 2]
Routes == [sheets |-> NoBook, registries |-> {{}}, conditions |-> Varied,
           requests |-> Everyone, files |-> 0]

\* Both protocols of a group in the workbook, the second one forbidding, and
\* the other way round with a supply of another group in between.
Grouped ==
  [Managing EXCEPT
     !.sheets = {SheetOf("published", <<Row("native", "here", TRUE, FALSE),
                                        Row("chat", "here", TRUE, TRUE)>>),
                 SheetOf("published", <<Row("chat", "here", TRUE, FALSE),
                                        Row("direct", "here", TRUE, FALSE),
                                        Row("native", "here", TRUE, FALSE)>>)},
     !.registries = {{"native", "chat", "direct"}},
     !.requests = {Ask(n, {}, "auto") : n \in {{"image"}, {"text"}}}]

\* One managed model, a group of supplies, two candidates under review, and the built-in plane.
Deployments == {Managing, Grouped, Review, Routes}
=============================================================================
