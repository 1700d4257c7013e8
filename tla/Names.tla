------------------------------- MODULE Names --------------------------------
(***************************************************************************)
(* Text that becomes the key of a row, or is matched against one: the       *)
(* authority of an HTTP target (split_authority, src/src/proxy.rs), the      *)
(* domain of a SOCKS5 request or datagram (src/src/socks.rs) and the domain  *)
(* filter (matches_domain, src/src/stats.rs).                                *)
(*                                                                         *)
(* Text is a sequence of ASCII codes.  A code above 127 stands for a byte    *)
(* that is not UTF-8.                                                        *)
(***************************************************************************)
EXTENDS Integers, SequencesExt

CONSTANT NoFilter  \* the filter None

Space    == 32
Star     == 42
PlusSign == 43
Dot      == 46
Digits   == 48 .. 57
Colon    == 58
Upper    == 65 .. 90
LBracket == 91
RBracket == 93
Replacement == 65533  \* what from_utf8_lossy puts for a byte it cannot read

NoPort == -1

Before(s, i) == SubSeq(s, 1, i - 1)
After(s, i)  == SubSeq(s, i + 1, Len(s))

StartsWith(s, c) == s # <<>> /\ Head(s) = c

to_ascii_lowercase(s) ==
    [i \in DOMAIN s |-> IF s[i] \in Upper THEN s[i] + 32 ELSE s[i]]

from_utf8_lossy(s) ==
    [i \in DOMAIN s |-> IF s[i] > 127 THEN Replacement ELSE s[i]]

trim_end_matches(s, c) == SubSeq(s, 1, SelectLastInSeq(s, LAMBDA x : x # c))

trim_matches(s, c) ==
    LET first == SelectInSeq(s, LAMBDA x : x # c)
    IN  IF first = 0 THEN <<>> ELSE trim_end_matches(After(s, first - 1), c)

\* trim_start_matches("*."): as many of the pair as there are.
trim_wildcards(s) ==
    LET pairs == {n \in 0 .. Len(s) \div 2 :
                    \A i \in 1 .. n : s[2 * i - 1] = Star /\ s[2 * i] = Dot}
    IN  After(s, 2 * Max(pairs))

\* The number that decimal digits write.
Decimal(digits) == FoldLeft(LAMBDA n, c : 10 * n + (c - 48), 0, digits)

\* str::parse::<u16>: decimal digits, perhaps behind a plus sign.
parse_u16(s) ==
    LET digits == IF StartsWith(s, PlusSign) THEN Tail(s) ELSE s
    IN  IF digits # <<>> /\ ToSet(digits) \subseteq Digits /\ Decimal(digits) < 2^16
        THEN Decimal(digits) ELSE NoPort

\* rsplit_once(':'): where the authority is cut, 0 if nowhere.
ColonOf(authority) == SelectLastInSeq(authority, LAMBDA c : c = Colon)

\* find(']'): where an IPv6 literal ends, 0 if nowhere.
BracketOf(rest) == SelectInSeq(rest, LAMBDA c : c = RBracket)

\* What follows the opening bracket of an IPv6 literal.
split_bracketed(rest, default_port) ==
    LET close == BracketOf(rest)
        tail  == IF close = 0 THEN <<>> ELSE After(rest, close)
        port  == IF StartsWith(tail, Colon) THEN parse_u16(Tail(tail)) ELSE NoPort
    IN  [host |-> to_ascii_lowercase(IF close = 0 THEN rest ELSE Before(rest, close)),
         port |-> IF port = NoPort THEN default_port ELSE port]

\* A port that does not parse leaves the authority whole, as the host.
split_authority(authority, default_port) ==
    LET colon == ColonOf(authority)
        port  == parse_u16(After(authority, colon))
    IN  IF StartsWith(authority, LBracket)
        THEN split_bracketed(Tail(authority), default_port)
        ELSE IF colon # 0 /\ port # NoPort
             THEN [host |-> to_ascii_lowercase(Before(authority, colon)), port |-> port]
             ELSE [host |-> to_ascii_lowercase(authority), port |-> default_port]

\* Mutant: the case of the client is kept.
DomainHost_as_is(bytes) == trim_end_matches(from_utf8_lossy(bytes), Dot)

\* The host a SOCKS5 domain names, in a request or in a datagram.
DomainHost(bytes) ==
    to_ascii_lowercase(trim_end_matches(from_utf8_lossy(bytes), Dot))

\* Mutant: any suffix matches, in the middle of a label or not.
under_any(domain, suffix) == IsSuffix(suffix, domain)

\* domain == filter || domain.ends_with(".filter").
under(domain, suffix) == domain = suffix \/ IsSuffix(<<Dot>> \o suffix, domain)

matches_domain(domain, filter) ==
    \/ filter = NoFilter
    \/ LET suffix == to_ascii_lowercase(trim_matches(trim_wildcards(filter), Dot))
       IN  \/ suffix = <<>>
           \/ under(to_ascii_lowercase(trim_end_matches(domain, Dot)), suffix)
=============================================================================
