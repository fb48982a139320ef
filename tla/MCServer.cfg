SPECIFICATION Spec
SYMMETRY Symmetric
CONSTANTS
  Request = {r1, r2}
  Browser = {b1, b2}
  Context = {c1, c2}
  None = None
  MaxAges <- MCAges
  DefaultMaxAge = 1
  MaxNow = 2
  Routes <- AllRoutes
  Email = {e1}
  Password = {p1, p2}
  MaxRestarts = 1
INVARIANTS
  TypeOK
  OwnContext
  FrameOnlyWithoutBody
  WhatStaysBehind
  Answered
  PageMatchesCookie
  CookieFindsRecord
  SessionsApart
  LogoutEndsSession
  NeverSignedIn
CHECK_DEADLOCK FALSE
