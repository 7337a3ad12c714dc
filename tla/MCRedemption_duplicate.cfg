CONSTANTS
  i1 = i1
  i2 = i2
  i3 = i3
  e1 = e1
  c1 = c1
  c2 = c2
  Invitation = {i1, i2, i3}
  Email = {e1}
  Course = {c1, c2}
  EmailOf <- InvitationEmail
  CourseOf <- InvitationCourse
  Proc = {p1}
  Null = Null
SPECIFICATION Spec
INVARIANT LoginImpliesRedeemed
