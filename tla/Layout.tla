------------------------------- MODULE Layout -------------------------------
(***************************************************************************)
(* The geometry of the feedback prompt (editor/win_prompt.rs): where the   *)
(* window opens, how small it may be made, and where its fields and        *)
(* buttons go, at each size and at each density of the screen.             *)
(***************************************************************************)
EXTENDS Integers, FiniteSetsExt

CONSTANTS
    Dpis,           \* densities of the screens
    Extra,          \* what a user may add to the smallest size, per density unit
    Screens,        \* widths and heights of the primary screen
    Centres,        \* of the window in front
    Chrome          \* what Windows' frame adds: [w |-> , h |-> ] at 96 dpi

\* Densities start at 96, and Windows' frame leaves 320 by 300 of the smallest
\* window, 420 by 360.
ASSUME LayoutAssumption ==
    /\ \A d \in Dpis : d \in Nat /\ d >= 96
    /\ Extra \subseteq Nat /\ Centres \subseteq Int
    /\ \A s \in Screens : s.w \in Nat /\ s.h \in Nat
    /\ Chrome.w \in 0..100 /\ Chrome.h \in 0..60

\* The unscaled measures of the prompt.
MARGIN == 20
TITLE_H == 22
LBL_H == 16
LBL_FIELD_GAP == 8
GROUP_GAP == 14
BTN_W == 92
BTN_H == 32
BTN_GAP == 8
CONTACT_FIELD_H == 36
FIELD_PAD == 5

dp(v, dpi) == (v * dpi + 48) \div 96
Between(x, a, b) == Max({a, Min({x, b})})

VARIABLES
    dpi,            \* feedback.dpi
    client,         \* the client area
    place,          \* where the window opened: [x, y, w, h, screen], or not yet
    fields          \* what layout has given each control: [x, y, w, h]

layout_vars == <<dpi, client, place, fields>>

Rect(x, y, w, h) == [x |-> x, y |-> y, w |-> w, h |-> h]
NotPlaced == [w |-> 0]

layout(c, d) ==
    LET m == dp(MARGIN, d)
        pad == dp(FIELD_PAD, d)
        lbl == dp(LBL_H, d)
        bw == dp(BTN_W, d)
        bh == dp(BTN_H, d)
        btn_y == c.h - m - bh
        contact_field_y == btn_y - dp(16, d) - dp(CONTACT_FIELD_H, d)
        contact_lbl_y == contact_field_y - dp(LBL_FIELD_GAP, d) - lbl
        desc_lbl_y == m + dp(TITLE_H, d) + dp(10, d)
        desc_field_y == desc_lbl_y + lbl + dp(LBL_FIELD_GAP, d)
        desc_field_h == Max({contact_lbl_y - dp(GROUP_GAP, d) - desc_field_y, dp(60, d)})
        Wide(y, h) == Rect(m, y, c.w - 2 * m, h)
        Field(y, h) == Rect(m + pad, y + pad, c.w - 2 * m - 2 * pad, h - 2 * pad)
    IN  [ title_lbl |-> Wide(m, dp(TITLE_H, d)),
          desc_lbl |-> Wide(desc_lbl_y, lbl),
          desc_edit |-> Field(desc_field_y, desc_field_h),
          contact_lbl |-> Wide(contact_lbl_y, lbl),
          contact_edit |-> Field(contact_field_y, dp(CONTACT_FIELD_H, d)),
          cancel_btn |-> Rect(c.w - m - bw, btn_y, bw, bh),
          ok_btn |-> Rect(c.w - m - 2 * bw - dp(BTN_GAP, d), btn_y, bw, bh) ]

\* WM_SIZE.
Sized(c, d) == client' = c /\ fields' = layout(c, d)

\* The frame the field is drawn with, and what of it is painted again when the
\* focus moves.
Grown(r, by) == Rect(r.x - by, r.y - by, r.w + 2 * by, r.h + 2 * by)
paint_fields(r, d) == Grown(r, dp(FIELD_PAD, d))
invalidate_ring(r, d) == Grown(r, dp(FIELD_PAD, d) + 2)

\* WM_GETMINMAXINFO, less the frame: Windows keeps every later size above it.
FrameOf(d) == [w |-> dp(Chrome.w, d), h |-> dp(Chrome.h, d)]
MinTrack(d) == [w |-> dp(420, d) - FrameOf(d).w, h |-> dp(360, d) - FrameOf(d).h]
Sizes(d) == { [w |-> MinTrack(d).w + dp(e, d), h |-> MinTrack(d).h + dp(f, d)] : e, f \in Extra }

-----------------------------------------------------------------------------
\* Created without a size; WM_CREATE lays the fields out in that.
LayoutInit ==
    /\ dpi \in Dpis
    /\ client = [w |-> 0, h |-> 0]
    /\ place = NotPlaced
    /\ fields = layout(client, dpi)

\* place_window: the middle of the window in front, kept on the primary screen.
place_window ==
    /\ place = NotPlaced
    /\ \E s \in Screens, cx, cy \in Centres :
          LET w == dp(560, dpi) + FrameOf(dpi).w
              h == dp(430, dpi) + FrameOf(dpi).h
          IN  place' = [ x |-> Between(cx - w \div 2, 0, Max({s.w - w, 0})),
                         y |-> Between(cy - h \div 2, 0, Max({s.h - h, 0})),
                         w |-> w, h |-> h, screen |-> s ]
    /\ Sized([w |-> dp(560, dpi), h |-> dp(430, dpi)], dpi)
    /\ UNCHANGED dpi

Resize ==
    /\ place # NotPlaced
    /\ \E c \in Sizes(dpi) : Sized(c, dpi)
    /\ UNCHANGED <<dpi, place>>

\* WM_DPICHANGED: the new density, then the size Windows suggests.
DpiChanged ==
    /\ place # NotPlaced
    /\ dpi' \in Dpis
    /\ \E c \in Sizes(dpi') : Sized(c, dpi')
    /\ UNCHANGED place

LayoutNext == place_window \/ Resize \/ DpiChanged

LayoutSpec == LayoutInit /\ [][LayoutNext]_layout_vars

-----------------------------------------------------------------------------
Apart(a, b) == a.x + a.w <= b.x \/ b.x + b.w <= a.x \/ a.y + a.h <= b.y \/ b.y + b.h <= a.y
Inside(r) == r.x >= 0 /\ r.y >= 0 /\ r.x + r.w <= client.w /\ r.y + r.h <= client.h
Drawn(name) ==
    IF name \in {"desc_edit", "contact_edit"} THEN paint_fields(fields[name], dpi) ELSE fields[name]

\* At every size a window can have, every control is inside it with room of its
\* own, the frames around the fields too, and what is painted again when the
\* focus moves has no other control in it.
LayoutFits ==
    place # NotPlaced =>
        /\ \A a \in DOMAIN fields : Inside(Drawn(a)) /\ fields[a].w > 0 /\ fields[a].h > 0
        /\ \A a, b \in DOMAIN fields : a # b => Apart(Drawn(a), Drawn(b))
        /\ \A a \in {"desc_edit", "contact_edit"}, b \in DOMAIN fields :
              a # b => Apart(invalidate_ring(fields[a], dpi), fields[b])

\* The window opens on the screen, all of it when the screen is large enough.
OpensOnScreen ==
    place # NotPlaced =>
        /\ place.x >= 0 /\ place.y >= 0
        /\ place.w <= place.screen.w => place.x + place.w <= place.screen.w
        /\ place.h <= place.screen.h => place.y + place.h <= place.screen.h
=============================================================================
