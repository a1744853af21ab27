---------------------------- MODULE MCImageForm -----------------------------
EXTENDS ImageForm

\* Numbers as they are typed: of two digits, and of four.
N2(value) == Number(2, value)
N4(value) == Number(4, value)

\* Every matcher, with short and full years, in two centuries, around leap days
\* and the ends of years; months that are none, ranges that end before they begin.
MCTexts ==
  {Text("a-b-c", <<N4(1972), N2(2), N2(29)>>, ""), Text("a.b.c", <<N2(31), N2(12), N4(1899)>>, ""),
   Text("a.b.c", <<N2(29), N2(2), N4(1900)>>, ""),
   Text("a. month b", <<N2(28), N2(72)>>, "feb"),
   Text("a", <<N4(1898)>>, ""), Text("ca. a", <<N2(72)>>, ""),
   Text("season a", <<N4(1899)>>, "winter"), Text("season a", <<N2(71)>>, "herbst"),
   Text("as", <<N2(70)>>, ""), Text("third as", <<N4(1898)>>, "late"),
   Text("third as", <<N2(75)>>, "early"), Text("third as", <<N2(75)>>, "mid"),
   Text("month a", <<N2(71)>>, "feb"), Text("a.b", <<N2(12), N4(1898)>>, ""),
   Text("a.b", <<N2(13), N4(1970)>>, ""),
   Text("a-b", <<N4(1898), N2(2)>>, ""), Text("a-b", <<N4(1898), N2(99)>>, ""),
   Text("a-b", <<N4(1972), N2(13)>>, ""), Text("a-b", <<N2(5), N4(1970)>>, ""),
   Text("a bis b", <<N2(98), N4(2003)>>, "")}

\* Just before and after midnight, on both sides of Greenwich; a photo without
\* a time, one with nothing but a place, and one with a date that is none.
MCPhotos ==
  {Photo(Day(1972, 12, 31) * 24 + 23, 2, NoText, FALSE),
   Photo(Day(1973, 3, 1) * 24 + 3, -5, NoText, TRUE),
   Photo(Day(1973, 3, 1) * 24, None, NoText, FALSE),
   Photo(None, None, Text("a-b-c", <<N4(1972), N2(2), N2(29)>>, ""), FALSE),
   Photo(None, None, Text("a-b-c", <<N4(1973), N2(2), N2(29)>>, ""), TRUE),
   Photo(None, None, NoText, TRUE)}

MCOffsets == {-11, -5, 0, 2, 12}
=============================================================================
