------------------------------ MODULE MCScreen ------------------------------
EXTENDS Screen

\* draw.c, and the two halves of cutinto4.c with the lines that a small screen
\* has room for; the lines cross, and the last one is below the screen, as is
\* the end of the lines that cutinto4.c draws.
draw == videomodevga13 \o videomodevga12 \o videomodetext
cutinto12 ==
    videomodevga12 \o <<<<"clearscreen12h">>>>
    \o DrawLine(1, 0, 1, 1, 5) \o DrawLine(2, 1, 1, 1, 16)
    \o DrawLine(1, 3, 1, 3, 2) \o videomodetext
cutinto13 ==
    videomodevga13 \o <<<<"clearscreen13h">>>>
    \o DrawLine(1, 0, 1, 1, 20) \o DrawLine(2, 1, 0, 1, 20)
    \o DrawLine(1, 6, 1, 6, 20) \o videomodetext
    \o <<<<"write", <<102, NL>>>>>>
dot == videomodevga12 \o DrawLine(1, 1, 1, 1, 1) \o videomodetext
\* A program that is killed while it shows a picture, and calls in text mode
\* (in a graphics mode after such a program).
killed == videomodevga13 \o <<<<"clearscreen13h">>>>
again == <<<<"clearscreen13h">>>> \o videomodetext
wipe == <<<<"clearscreen12h">>>>
Programs == {draw, cutinto12, cutinto13, dot, killed, again, wipe}
Overlapping == {dot}
Symmetry == Permutations(Proc)

\* DrawLine() against its definition: the points from one end to the other,
\* one for each unit of the longer side, each nearest to the line.
ASSUME LinesAreStraight ==
    \A x1, y1 \in 0 .. 4 :
        LET s == DrawLine(2, 1, x1, y1, 1)
            dx == x1 - 2
            dy == y1 - 1
            long == IF Abs(dx) > Abs(dy) THEN Abs(dx) ELSE Abs(dy)
        IN  /\ s[1] = <<"setpixel", 2, 1, 1>> /\ Last(s) = <<"setpixel", x1, y1, 1>>
            /\ Len(s) = long + 1
            /\ \A i \in 1 .. Len(s) :
                  2 * Abs((s[i][2] - 2) * dy - (s[i][3] - 1) * dx) <= long
=============================================================================
