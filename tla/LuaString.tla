------------------------------ MODULE LuaString ------------------------------
(***************************************************************************)
(* string.find, match, gmatch and gsub, 3rd/lua/lstrlib.c: loops that try a pattern at one       *)
(* position after the other, a step each, and go on behind a match, or a character on when it    *)
(* was empty.  Values are <<"string", text>>, <<"position", k>>, <<"nil">> and others; an error     *)
(* raised where one would be pushed is <<"error">>.                                       *)
(*                                                                          *)
(* What a pattern says is in LuaPattern.  Replacement functions that raise errors are left out:  *)
(* nothing follows them.                                                              *)
(***************************************************************************)
EXTENDS LuaMatch, LuaText, FiniteSetsExt

CONSTANTS
  Subjects, Patterns, Templates,   (* arguments; patterns and templates are lists of items      *)
  Inits, Limits,                   (* of find and match; of gsub                            *)
  Replies                          (* what a replacement function returns                     *)

VARIABLES
  call,         \* the function and its arguments
  src,          \* where it tries to match next
  out, count,   \* what it has given or added so far; the replacements
  told,         \* history: what replacement functions were given and have returned
  status        \* "idle", "running", "done", "error"

Meaning == INSTANCE LuaPattern

stringvars == <<call, src, out, count, told, status>>

-----------------------------------------------------------------------------
SPECIALS == {"^", "$", "*", "+", "?", ".", "(", "[", "%", "-"}
nospecials(p) == \A k \in DOMAIN p : p[k] \notin SPECIALS

(* The first place from k on where p is, looking for its first character.                         *)
RECURSIVE lmemfind(_, _, _)
lmemfind(s, k, p) ==
  LET heads == {h \in k..(Len(s) - Len(p) + 1) : s[h] = Head(p)}
      h == CHOOSE h \in heads : \A other \in heads : h <= other
  IN  CASE p = <<>> -> k
        [] p # <<>> /\ heads = {} -> NULL
        [] OTHER -> IF SubSeq(s, h, h + Len(p) - 1) = p THEN h ELSE lmemfind(s, h + 1, p)

Anchored == call.fn # "gmatch" /\ call.p # <<>> /\ Head(call.p) = "^"

(* The pattern at src.                                                              *)
Attempt ==
  match([src |-> call.s, pat |-> IF Anchored THEN Tail(call.p) ELSE call.p, capture |-> <<>>],
        src, 1, MAXCCALLS)

Between(s, e) == <<<<"position", s>>, <<"position", e - 1>>>>

IsError(x) == x = <<"error">>
Bad(results) == \E x \in DOMAIN results : IsError(results[x])

(* The call ends, with results or an error.                                             *)
Gives(results) ==
  /\ IF Bad(results) THEN status' = "error" /\ out' = out ELSE status' = "done" /\ out' = out \o results
  /\ UNCHANGED <<call, src, count, told>>

-----------------------------------------------------------------------------
Begin(record) ==
  /\ status' = "running" /\ call' = record
  /\ src' = Max({1, posrelat(record.init, Len(record.s))})
  /\ UNCHANGED <<out, count, told>>

find_or_match ==
  /\ status = "idle"
  /\ \E fn \in {"find", "match"}, plain \in BOOLEAN, s \in Subjects, items \in Patterns, init \in Inits :
       /\ plain => fn = "find"
       /\ Begin([fn |-> fn, s |-> s, items |-> items, p |-> Meaning!TextOf(items),
                 plain |-> plain, init |-> init])

gmatch ==
  /\ status = "idle"
  /\ \E s \in Subjects, items \in Patterns :
       Begin([fn |-> "gmatch", s |-> s, items |-> items, p |-> Meaning!TextOf(items), init |-> 1])

gsub ==
  /\ status = "idle"
  /\ \E s \in Subjects, items \in Patterns,
       repl \in {<<"string", news>> : news \in Templates} \cup {<<"function">>, <<"table">>} :
       \E max_s \in Limits \cup {Len(s) + 1} :
         Begin([fn |-> "gsub", s |-> s, items |-> items, p |-> Meaning!TextOf(items),
                repl |-> repl, max_s |-> max_s, init |-> 1])

(* A try of str_find_aux().                                                          *)
Running(fns) == status = "running" /\ call.fn \in fns
Finds ==
  /\ Running({"find", "match"})
  /\ LET plain == call.fn = "find" /\ (call.plain \/ nospecials(call.p))
         r == Attempt
         ends == IF call.fn = "find" THEN Between(src, r.s) ELSE <<>>
         at == lmemfind(call.s, src, call.p)
     IN  \/ src > Len(call.s) + 1 /\ Gives(<<>>)
         \/ src <= Len(call.s) + 1 /\ plain /\ Gives(IF at = NULL THEN <<>> ELSE Between(at, at + Len(call.p)))
         \/ /\ src <= Len(call.s) + 1 /\ ~plain
            /\ \/ r.s = ERROR /\ Gives(<<<<"error">>>>)
               \/ /\ r.s > NULL
                  /\ Gives(ends \o push_captures(r.ms, IF call.fn = "find" THEN NULL ELSE src, r.s))
               \/ r.s = NULL /\ (src > Len(call.s) \/ Anchored) /\ Gives(<<>>)
               \/ /\ r.s = NULL /\ src <= Len(call.s) /\ ~Anchored
                  /\ src' = src + 1 /\ UNCHANGED <<call, out, count, told, status>>

(* A try of gmatch_aux(), whichever of the calls of the loop it is in.                            *)
gmatch_aux ==
  /\ Running({"gmatch"})
  /\ LET r == Attempt
         captures == push_captures(r.ms, src, r.s)
     IN  \/ src > Len(call.s) + 1 /\ Gives(<<>>)
         \/ /\ src <= Len(call.s) + 1
            /\ \/ r.s = ERROR /\ Gives(<<<<"error">>>>)
               \/ r.s > NULL /\ Bad(captures) /\ Gives(captures)
               \/ /\ r.s > NULL /\ ~Bad(captures)
                  /\ src' = (IF r.s = src THEN r.s + 1 ELSE r.s)
                  /\ out' = out \o captures
                  /\ UNCHANGED <<call, count, told, status>>
               \/ r.s = NULL /\ src' = src + 1 /\ UNCHANGED <<call, out, count, told, status>>

-----------------------------------------------------------------------------
(* gsub.  The text it adds is a sequence of characters, in which "error" is none.                 *)
tolstring(x) ==
  CASE x[1] = "string" -> x[2]
    [] x[1] = "position" -> <<Numeral[x[2]]>>
    [] OTHER -> <<"error">>

RECURSIVE add_s(_, _, _, _)
add_s(news, ms, s, e) ==
  LET c == At(news, 2)
      escaped == CASE c = "%" -> <<"%">>
                   [] c = "0" -> SubSeq(ms.src, s, e - 1)
                   [] Index(c) # 0 -> tolstring(push_onecapture(ms, Index(c), s, e))
                   [] OTHER -> <<"error">>
  IN  IF news = <<>> THEN <<>>
      ELSE IF Head(news) = "%" THEN escaped \o add_s(SubSeq(news, 3, Len(news)), ms, s, e)
      ELSE <<Head(news)>> \o add_s(Tail(news), ms, s, e)

(* The text, and what happened on the way: a function or a table is asked.                     *)
add_value(ms, s, e) ==
  LET given == IF call.repl = <<"function">> THEN push_captures(ms, s, e)
               ELSE <<push_onecapture(ms, 1, s, e)>>
      Added(reply) == CASE reply = <<"nil">> -> SubSeq(ms.src, s, e - 1)
                        [] reply[1] = "string" -> reply[2]
                        [] OTHER -> <<"error">>
  IN  IF call.repl[1] = "string" THEN {[text |-> add_s(Meaning!TextOf(call.repl[2]), ms, s, e), asked |-> <<>>]}
      ELSE IF Bad(given) THEN {[text |-> <<"error">>, asked |-> <<>>]}
      ELSE {[text |-> Added(reply), asked |-> <<[given |-> given, reply |-> reply]>>] : reply \in Replies}

(* Text is added, and the loop ends or goes on at next.                                     *)
Adds(text, next, over) ==
  LET rest == IF over THEN SubSeq(call.s, next, Len(call.s)) ELSE <<>>
  IN  /\ src' = next /\ out' = out \o text \o rest
      /\ status' = CASE "error" \in Range(text) -> "error"
                      [] "error" \notin Range(text) /\ over -> "done"
                      [] OTHER -> "running"
      /\ UNCHANGED call

Substitute ==
  /\ Running({"gsub"})
  /\ LET r == Attempt
         char == IF src <= Len(call.s) THEN <<call.s[src]>> ELSE <<>>
         Replacement == IF r.s > NULL THEN add_value(r.ms, src, r.s) ELSE {[text |-> <<>>, asked |-> <<>>]}
     IN  \/ count >= call.max_s /\ Adds(<<>>, src, TRUE) /\ UNCHANGED <<count, told>>
         \/ count < call.max_s /\ r.s = ERROR /\ Adds(<<"error">>, src, FALSE) /\ UNCHANGED <<count, told>>
         \/ /\ count < call.max_s /\ r.s # ERROR
            /\ count' = IF r.s > NULL THEN count + 1 ELSE count
            /\ \E new \in Replacement :
                 /\ told' = told \o new.asked
                 /\ IF r.s > src THEN Adds(new.text, r.s, Anchored)
                    ELSE Adds(new.text \o char, src + Len(char), Anchored \/ char = <<>>)

(* The program goes on with what it was given.                                            *)
Continue ==
  /\ status \in {"done", "error"}
  /\ status' = "idle" /\ call' = [fn |-> "none"] /\ src' = 1
  /\ out' = <<>> /\ count' = 0 /\ told' = <<>>

StringInit ==
  /\ status = "idle" /\ call = [fn |-> "none"] /\ src = 1
  /\ out = <<>> /\ count = 0 /\ told = <<>>

StringNext == find_or_match \/ gmatch \/ gsub \/ Finds \/ gmatch_aux \/ Substitute \/ Continue
StringSpec == StringInit /\ [][StringNext]_stringvars

-----------------------------------------------------------------------------
(* What a call should give, in terms of the matches that LuaPattern defines.                    *)

(* A negative position counts from the end.                                              *)
Start == IF call.init >= 0 THEN Max({1, call.init}) ELSE Max({1, Len(call.s) + 1 + call.init})

(* A `^' at the head is an anchor, but for gmatch a character.                                 *)
Matches ==
  LET anchor == call.items # <<>> /\ Head(call.items).kind = "anchor"
      caret == [kind |-> "one", text |-> <<"^">>, chars |-> {"^"}, suffix |-> ""]
      items == IF ~anchor THEN call.items
               ELSE IF call.fn = "gmatch" THEN <<caret>> \o Tail(call.items) ELSE Tail(call.items)
  IN  Meaning!Found(call.s, items, Start, anchor /\ call.fn # "gmatch")

Results(lists, results) ==
  /\ status = (IF \E x \in DOMAIN lists : Bad(lists[x]) THEN "error" ELSE "done")
  /\ status = "done" => out = results

PlainDefined ==
  LET Here(k) == k \in Start..(Len(call.s) + 1 - Len(call.p)) /\ SubSeq(call.s, k, k + Len(call.p) - 1) = call.p
  IN  /\ status = "done"
      /\ out = <<>> <=> \A k \in 1..(Len(call.s) + 1) : ~Here(k)
      /\ out # <<>> => /\ out = Between(out[1][2], out[1][2] + Len(call.p))
                       /\ Here(out[1][2]) /\ \A k \in 1..(out[1][2] - 1) : ~Here(k)

FindDefined ==
  LET found == Matches
      first == found[1]
      captures == IF call.fn = "match" THEN Meaning!Captures(call.s, first)
                  ELSE Meaning!OwnCaptures(call.s, first)
  IN  IF found = <<>> THEN Results(<<>>, <<>>)
      ELSE Results(<<captures>>, IF call.fn = "match" THEN captures
                              ELSE Between(first.from, first.way.at) \o captures)

GmatchDefined ==
  LET found == Matches
      lists == [x \in DOMAIN found |-> Meaning!Captures(call.s, found[x])]
      bad == SelectInSeq(lists, Bad)
  IN  /\ Results(lists, FlattenSeq(lists))
      /\ bad # 0 => out = FlattenSeq(SubSeq(lists, 1, bad - 1))

GsubDefined ==
  LET all == Matches
      found == SubSeq(all, 1, Min({call.max_s, Len(all)}))
      Asked(x) == IF call.repl = <<"function">> THEN Meaning!Captures(call.s, found[x])
                  ELSE <<Meaning!Given(call.s, found[x], 1)>>
      Text(x) == IF call.repl[1] = "string" THEN Meaning!Filled(call.s, found[x], call.repl[2])
                 ELSE IF Bad(Asked(x)) \/ x \notin DOMAIN told THEN <<"error">>
                 ELSE CASE told[x].reply = <<"nil">> -> Meaning!Whole(call.s, found[x])[2]
                        [] told[x].reply[1] = "string" -> told[x].reply[2]
                        [] OTHER -> <<"error">>
      texts == [x \in DOMAIN found |-> IF found[x].way.wrong THEN <<"error">> ELSE Text(x)]
      Gap(x) == SubSeq(call.s, IF x = 1 THEN 1 ELSE found[x - 1].way.at,
                       IF x > Len(found) THEN Len(call.s) ELSE found[x].from - 1)
      bad == SelectInSeq(texts, LAMBDA text : "error" \in Range(text))
  IN  /\ status = IF bad = 0 THEN "done" ELSE "error"
      /\ bad = 0 => /\ count = Len(found)
                    /\ out = FlattenSeq([x \in DOMAIN found |-> Gap(x) \o texts[x]]) \o Gap(Len(found) + 1)
      /\ \A x \in DOMAIN told : told[x].given = Asked(x)

(* When a call ends, it has given what the pattern means: the first match, all of them, or the      *)
(* subject with each replaced, and an error exactly if one is on the way there.  (str_find_aux(),   *)
(* gmatch_aux() and str_gsub() with match(), which takes back captures when it tries another way.)  *)
PatternsAsDefined ==
  status \in {"done", "error"} =>
    CASE call.fn = "gmatch" -> GmatchDefined
      [] call.fn = "gsub" -> GsubDefined
      [] call.fn \in {"find", "match"} ->
           IF call.fn = "find" /\ (call.plain \/ nospecials(call.p)) THEN PlainDefined ELSE FindDefined
=============================================================================
