------------------------------ MODULE LuaMatch ------------------------------
(***************************************************************************)
(* The pattern matcher of 3rd/lua/lstrlib.c: a backtracking machine that reads the pattern     *)
(* while it matches, keeps its captures in one array for all the ways it tries, and takes     *)
(* back what it entered there when a way fails.                                         *)
(*                                                                          *)
(* Strings and patterns are sequences of characters; a position is 1 for the first, NULL is     *)
(* 0.  An error is a result too, which nothing tries another way after.                     *)
(***************************************************************************)
EXTENDS Integers, Sequences, SequencesExt

CONSTANTS
  Class,        (* the characters of %a, %d, ...                                    *)
  Inverted,     (* of %A, %D, ...: the class they are the complement of                  *)
  Code,         (* the codes of the characters                                       *)
  Numeral,      (* the numerals of 1 to 9                                          *)
  MAXCCALLS, LUA_MAXCAPTURES

NULL == 0
ERROR == -1
EOS == "NUL"          \* the '\0' behind every string

CAP_UNFINISHED == -1
CAP_POSITION == -2

(* What a function with a MatchState leaves in it, and its result.                            *)
Ret(ms, s) == [ms |-> ms, s |-> s]
At(str, k) == IF k \in 1..Len(str) THEN str[k] ELSE EOS

-----------------------------------------------------------------------------
(* Single characters: the pattern from p on, to before ep.                                  *)

RECURSIVE setend(_, _)
setend(p, q) ==
  IF q > Len(p) THEN ERROR
  ELSE LET next == IF p[q] = "%" /\ q < Len(p) THEN q + 2 ELSE q + 1
       IN  IF At(p, next) = "]" THEN next + 1 ELSE setend(p, next)

classend(pat, p) ==
  CASE pat[p] = "%" -> IF p = Len(pat) THEN ERROR ELSE p + 2
    [] pat[p] = "[" -> setend(pat, IF At(pat, p + 1) = "^" THEN p + 2 ELSE p + 1)
    [] OTHER -> p + 1

match_class(c, cl) ==
  IF cl \in DOMAIN Class THEN c \in Class[cl]
  ELSE IF cl \in DOMAIN Inverted THEN c \notin Class[Inverted[cl]]
  ELSE c = cl

RECURSIVE InSet(_, _, _, _)
InSet(c, pat, q, ec) ==
  /\ q < ec
  /\ IF pat[q] = "%" THEN match_class(c, pat[q + 1]) \/ InSet(c, pat, q + 2, ec)
     ELSE IF pat[q + 1] = "-" /\ q + 2 < ec
          THEN Code[c] \in Code[pat[q]]..Code[pat[q + 2]] \/ InSet(c, pat, q + 3, ec)
     ELSE c = pat[q] \/ InSet(c, pat, q + 1, ec)

matchbracketclass(c, pat, p, ec) ==
  IF pat[p + 1] = "^" THEN ~InSet(c, pat, p + 2, ec) ELSE InSet(c, pat, p + 1, ec)

singlematch(ms, s, p, ep) ==
  /\ s <= Len(ms.src)
  /\ LET c == ms.src[s]
     IN  CASE ms.pat[p] = "." -> TRUE
           [] ms.pat[p] = "%" -> match_class(c, ms.pat[p + 1])
           [] ms.pat[p] = "[" -> matchbracketclass(c, ms.pat, p, ep - 1)
           [] OTHER -> c = ms.pat[p]

(* From behind the first b, cont of which are open.                                        *)
RECURSIVE Balanced(_, _, _, _, _)
Balanced(src, s, cont, b, e) ==
  IF s > Len(src) THEN NULL
  ELSE IF src[s] = e
       THEN IF cont = 1 THEN s + 1 ELSE Balanced(src, s + 1, cont - 1, b, e)
       ELSE Balanced(src, s + 1, IF src[s] = b THEN cont + 1 ELSE cont, b, e)

matchbalance(ms, s, p) ==
  IF p >= Len(ms.pat) THEN ERROR
  ELSE IF At(ms.src, s) # ms.pat[p] THEN NULL
  ELSE Balanced(ms.src, s + 1, 1, ms.pat[p], ms.pat[p + 1])

Frontier(ms, s, p, ep) ==
  /\ ~matchbracketclass(At(ms.src, s - 1), ms.pat, p, ep - 1)
  /\ matchbracketclass(At(ms.src, s), ms.pat, p, ep - 1)

-----------------------------------------------------------------------------
(* Captures.                                                                       *)

Index(c) == SelectInSeq(Numeral, LAMBDA d : d = c)

Finished(ms, l) == l \in 1..Len(ms.capture) /\ ms.capture[l].len # CAP_UNFINISHED

capture_to_close(ms) == SelectLastInSeq(ms.capture, LAMBDA c : c.len = CAP_UNFINISHED)

(* The length of a position is no length any rest of a string has.                           *)
match_capture(ms, s, l) ==
  IF ~Finished(ms, l) THEN ERROR
  ELSE LET c == ms.capture[l]
       IN  IF /\ c.len # CAP_POSITION /\ Len(ms.src) + 1 - s >= c.len
              /\ SubSeq(ms.src, s, s + c.len - 1) = SubSeq(ms.src, c.init, c.init + c.len - 1)
           THEN s + c.len ELSE NULL

RECURSIVE match(_, _, _, _), DoMatch(_, _, _, _), max_expand(_, _, _, _, _, _), min_expand(_, _, _, _, _)

Entered(ms, s, what) ==
  [ms EXCEPT !.capture = Append(@, [init |-> s, len |-> what])]
LeaveCapture(r) == IF r.s = NULL THEN Ret([r.ms EXCEPT !.capture = Front(@)], NULL) ELSE r
start_capture(ms, s, p, what, d) ==
  IF Len(ms.capture) >= LUA_MAXCAPTURES THEN Ret(ms, ERROR)
  ELSE LeaveCapture(match(Entered(ms, s, what), s, p, d))

StaysClosed(r, l) == r
Reopened(r, l) ==
  IF r.s = NULL THEN Ret([r.ms EXCEPT !.capture[l].len = CAP_UNFINISHED], NULL) ELSE r
end_capture(ms, s, p, d) ==
  LET l == capture_to_close(ms)
  IN  IF l = 0 THEN Ret(ms, ERROR)
      ELSE Reopened(match([ms EXCEPT !.capture[l].len = s - ms.capture[l].init], s, p, d), l)

-----------------------------------------------------------------------------
(* Repetition, i more times than at s.                                                  *)

RECURSIVE Shorter(_, _, _, _, _)
Shorter(ms, s, i, ep, d) ==
  LET r == match(ms, s + i, ep + 1, d)
  IN  IF r.s # NULL \/ i = 0 THEN r ELSE Shorter(r.ms, s, i - 1, ep, d)

max_expand(ms, s, i, p, ep, d) ==
  IF singlematch(ms, s + i, p, ep) THEN max_expand(ms, s, i + 1, p, ep, d)
  ELSE Shorter(ms, s, i, ep, d)

min_expand(ms, s, p, ep, d) ==
  LET r == match(ms, s, ep + 1, d)
  IN  IF r.s # NULL THEN r
      ELSE IF singlematch(r.ms, s, p, ep) THEN min_expand(r.ms, s + 1, p, ep, d)
      ELSE r

(* A character, a class or a set, and the suffix behind it.                                  *)
Single(ms, s, p, ep, d) ==
  LET suffix == At(ms.pat, ep)
      absent == singlematch(ms, s, p, ep) = FALSE
      once == match(ms, s + 1, ep + 1, d)
  IN  CASE absent /\ suffix \in {"*", "?", "-"} -> DoMatch(ms, s, ep + 1, d)
        [] absent /\ suffix \notin {"*", "?", "-"} -> Ret(ms, NULL)
        [] ~absent /\ suffix = "?" -> IF once.s # NULL THEN once ELSE DoMatch(once.ms, s, ep + 1, d)
        [] ~absent /\ suffix = "+" -> max_expand(ms, s + 1, 0, p, ep, d)
        [] ~absent /\ suffix = "*" -> max_expand(ms, s, 0, p, ep, d)
        [] ~absent /\ suffix = "-" -> min_expand(ms, s, p, ep, d)
        [] OTHER -> DoMatch(ms, s + 1, ep, d)

(* Go on behind an item that matched up to s.                                              *)
Onward(ms, s, p, d) == IF s > NULL THEN DoMatch(ms, s, p, d) ELSE Ret(ms, s)

DoMatch(ms, s, p, d) ==
  LET c == At(ms.pat, p)
      next == At(ms.pat, p + 1)
      esc == IF c = "%" THEN next ELSE EOS
  IN  CASE p > Len(ms.pat) -> Ret(ms, s)
        [] c = "(" /\ next = ")" -> start_capture(ms, s, p + 2, CAP_POSITION, d)
        [] c = "(" /\ next # ")" -> start_capture(ms, s, p + 1, CAP_UNFINISHED, d)
        [] c = ")" -> end_capture(ms, s, p + 1, d)
        [] c = "$" /\ p = Len(ms.pat) -> Ret(ms, IF s = Len(ms.src) + 1 THEN s ELSE NULL)
        [] esc = "b" -> Onward(ms, matchbalance(ms, s, p + 2), p + 4, d)
        [] esc = "f" ->
             LET ep == IF At(ms.pat, p + 2) = "[" THEN classend(ms.pat, p + 2) ELSE ERROR
             IN  IF ep = ERROR THEN Ret(ms, ERROR)
                 ELSE Onward(ms, IF Frontier(ms, s, p + 2, ep) THEN s ELSE NULL, ep, d)
        [] esc = "0" \/ Index(esc) # 0 -> Onward(ms, match_capture(ms, s, Index(esc)), p + 2, d)
        [] OTHER ->
             LET ep == classend(ms.pat, p)
             IN  IF ep = ERROR THEN Ret(ms, ERROR) ELSE Single(ms, s, p, ep, d)

match(ms, s, p, d) == IF d = 0 THEN Ret(ms, ERROR) ELSE DoMatch(ms, s, p, d - 1)

-----------------------------------------------------------------------------
(* What a match gives the program: strings and positions, or an error.                        *)
push_onecapture(ms, l, s, e) ==
  IF l > Len(ms.capture)
  THEN IF l = 1 THEN <<"string", SubSeq(ms.src, s, e - 1)>> ELSE <<"error">>
  ELSE LET c == ms.capture[l]
       IN  CASE c.len = CAP_UNFINISHED -> <<"error">>
             [] c.len = CAP_POSITION -> <<"position", c.init>>
             [] OTHER -> <<"string", SubSeq(ms.src, c.init, c.init + c.len - 1)>>

push_captures(ms, s, e) ==
  [l \in 1..(IF ms.capture = <<>> /\ s # NULL THEN 1 ELSE Len(ms.capture)) |->
    push_onecapture(ms, l, s, e)]
=============================================================================
