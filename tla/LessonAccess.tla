----------------------------- MODULE LessonAccess -----------------------------
(***************************************************************************)
(* From an access token to a lesson: JwtAuthGuard and RolesGuard, which    *)
(* trust what the token says, LessonsController and LessonsService, which  *)
(* ask the enrolments, and the codes HttpExceptionFilter answers with.     *)
(* Nothing here has state of its own: place is the enrolments table.       *)
(***************************************************************************)
CONSTANTS Email, Course, Null

VARIABLE place      \* <<email, course>> -> source invitation, or Null

(* What JwtStrategy.validate makes of a payload; "expired" and "invalid"   *)
(* are the verdicts of passport-jwt.                                       *)
Token == [email : Email, role : {"STUDENT", "PARENT"},
          state : {"valid", "expired", "invalid"}]

(* JwtAuthGuard.handleRequest on a route that is not @Public(). *)
Authentication(token) ==
    IF token = Null THEN "AUTH_MISSING_TOKEN"
    ELSE CASE token.state = "valid"   -> "pass"
           [] token.state = "expired" -> "AUTH_TOKEN_EXPIRED"
           [] token.state = "invalid" -> "AUTH_INVALID_TOKEN"

(* RolesGuard; LessonsController's routes are @Roles(STUDENT). *)
Authorisation(token, roles) ==
    IF token.role \in roles THEN "pass" ELSE "AUTH_FORBIDDEN_ROLE"

(* The global guards in the order app.module.ts lists them. *)
Guards(token, roles) ==
    IF Authentication(token) # "pass" THEN Authentication(token)
                                      ELSE Authorisation(token, roles)

(* assertEnrolled. *)
Enrolled(e, c) == place[<<e, c>>] # Null

(* findLessonById: an unknown lesson (Null) and a missing enrolment have   *)
(* one answer.  A lesson is named by its course.                           *)
findLessonById(e, lesson) ==
    IF lesson # Null /\ Enrolled(e, lesson) THEN "lesson" ELSE "NOT_ENROLLED"

findLessonsForCourse(e, c) == IF Enrolled(e, c) THEN "lessons" ELSE "NOT_ENROLLED"

findEnrolledCoursesForUser(e) == {c \in Course : place[<<e, c>>] # Null}

(* GET /lessons/:id, the code of its answer. *)
GetLesson(token, lesson) ==
    IF Guards(token, {"STUDENT"}) # "pass" THEN Guards(token, {"STUDENT"})
                                           ELSE findLessonById(token.email, lesson)

(* GET /courses/:id/lessons. *)
ListLessons(token, c) ==
    IF Guards(token, {"STUDENT"}) # "pass" THEN Guards(token, {"STUDENT"})
                                           ELSE findLessonsForCourse(token.email, c)

(* GET /me/courses. *)
MyCourses(token) ==
    IF Guards(token, {"STUDENT"}) # "pass" THEN {}
                                           ELSE findEnrolledCoursesForUser(token.email)
=============================================================================
